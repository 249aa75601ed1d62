----------------------------- MODULE Coins_proofs -----------------------------
(***************************************************************************)
(* First, facts about chains, for every tree of blocks; then what          *)
(* connecting and disconnecting a block computes, for every block and      *)
(* every set of coins: ConnectBlock accepts exactly the blocks that Utxo   *)
(* calls valid and leaves exactly the outputs it says, and DisconnectBlock *)
(* with the undo data of a connection takes it back.  What it adds to the  *)
(* money supply is what it adds to the value of the unspent outputs.       *)
(*                                                                         *)
(* Induction along a chain is done by a counterexample of smallest height. *)
(* The loops of the code are recursive functions over their number of      *)
(* turns; inductions over that number are by the smallest counterexample.  *)
(***************************************************************************)
EXTENDS Utxo, FiniteSetTheorems, WellFoundedInduction, TLAPS

-----------------------------------------------------------------------------
\* Chains of blocks

Tips == Blocks \cup {NoBlock}

LessThan == {p \in Nat \X Nat : p[1] < p[2]}

\* The library states that < is well founded, and that a well-founded relation
\* has minimal elements; for natural numbers: a non-empty set has a smallest one.
LEMMA SmallestExists ==
    ASSUME NEW S \in SUBSET Nat, S # {}
    PROVE  \E m \in S : \A k \in S : m <= k
<1>1. IsWellFoundedOn(LessThan, Nat)
    BY NatLessThanWellFounded, Zenon DEF LessThan, OpToRel
<1>2. PICK m \in S : \A k \in S : <<k, m>> \notin LessThan
    BY <1>1, WFMin, Zenon
<1>3. \A i, j \in Nat : i < j => <<i, j>> \in LessThan
    BY DEF LessThan
<1>4. ASSUME NEW k \in S PROVE m <= k
    <2>1. m \in Nat /\ k \in Nat
        OBVIOUS
    <2>2. ~(k < m)
        BY <1>2, <1>3, <2>1
    <2> QED
        BY <2>1, <2>2
<1> QED
    BY <1>4

\* A non-empty set of blocks has a block of smallest height, on which inductions
\* along pprev rest.
LEMMA LowestExists ==
    ASSUME NEW S \in SUBSET Blocks, S # {}
    PROVE  \E b \in S : \A c \in S : Height[b] <= Height[c]
<1> DEFINE Heights == {Height[b] : b \in S}
<1>1. PICK b \in S : TRUE
    OBVIOUS
<1>2. Heights \in SUBSET Nat /\ Heights # {}
    BY <1>1, BlockTreeAssumption
<1>3. PICK m \in Heights : \A k \in Heights : m <= k
    <2> HIDE DEF Heights
    <2> QED
        BY <1>2, SmallestExists
<1> QED
    BY <1>3

\* Lowest picks a block of the set it is given (ConnectBestBlock's vAttach).
LEMMA LowestProperty ==
    ASSUME NEW S \in SUBSET Blocks, S # {}
    PROVE  Lowest(S) \in S /\ \A c \in S : Height[Lowest(S)] <= Height[c]
BY LowestExists DEF Lowest

\* A block is the genesis block or its parent is lower, with less work.
LEMMA ParentBelow ==
    ASSUME NEW b \in Blocks \ {Genesis}
    PROVE  /\ Parent[b] \in Blocks
           /\ Height[Parent[b]] < Height[b]
           /\ ChainWork[Parent[b]] < ChainWork[b]
           /\ Ancestry[b] = {b} \cup Ancestry[Parent[b]]
<1>1. /\ Parent[b] \in Blocks
      /\ Height[b] = Height[Parent[b]] + 1
      /\ ChainWork[b] > ChainWork[Parent[b]]
      /\ Ancestry[b] = {b} \cup Ancestry[Parent[b]]
    BY ChildAssumption
<1>2. Height[Parent[b]] \in Nat /\ ChainWork[Parent[b]] \in Nat /\ ChainWork[b] \in Nat
    BY <1>1, BlockTreeAssumption
<1> QED
    BY <1>1, <1>2

\* A block is on its own chain, which lies in the tree.
LEMMA SelfOnChain ==
    ASSUME NEW b \in Blocks
    PROVE  b \in Ancestry[b] /\ Ancestry[b] \in SUBSET Blocks
<1>1. b \in Ancestry[b]
    <2>1. CASE b = Genesis
        BY <2>1, GenesisAssumption
    <2>2. CASE b # Genesis
        <3>1. Ancestry[b] = {b} \cup Ancestry[Parent[b]]
            BY <2>2, ChildAssumption
        <3> QED
            BY <3>1
    <2> QED
        BY <2>1, <2>2
<1>2. Ancestry[b] \in SUBSET Blocks
    BY BlockTreeAssumption
<1> QED
    BY <1>1, <1>2

\* The other blocks of a chain are below its tip, with less work, and their chains
\* are parts of it.
LEMMA OnChain ==
    ASSUME NEW b \in Blocks, NEW a \in Ancestry[b]
    PROVE  /\ a \in Blocks
           /\ Ancestry[a] \subseteq Ancestry[b]
           /\ a = b \/ (Height[a] < Height[b] /\ ChainWork[a] < ChainWork[b])
<1> DEFINE Good(c) ==
        \A d \in Ancestry[c] :
            /\ d \in Blocks
            /\ Ancestry[d] \subseteq Ancestry[c]
            /\ d = c \/ (Height[d] < Height[c] /\ ChainWork[d] < ChainWork[c])
<1> DEFINE Bad == {c \in Blocks : ~Good(c)}
<1>1. ASSUME Bad # {} PROVE FALSE
    <2>1. PICK c \in Bad : \A d \in Bad : Height[c] <= Height[d]
        BY <1>1, LowestExists
    <2>2. CASE c = Genesis
        BY <2>1, <2>2, GenesisAssumption, BlockTreeAssumption
    <2>3. CASE c # Genesis
        <3>1. /\ Parent[c] \in Blocks
              /\ Height[Parent[c]] < Height[c]
              /\ ChainWork[Parent[c]] < ChainWork[c]
              /\ Ancestry[c] = {c} \cup Ancestry[Parent[c]]
            BY <2>1, <2>3, ParentBelow
        <3>2. Height[c] \in Nat /\ Height[Parent[c]] \in Nat
            BY <2>1, <3>1, BlockTreeAssumption
        <3>3. Good(Parent[c])
            <4>1. ~(Height[c] <= Height[Parent[c]])
                BY <3>1, <3>2
            <4>2. Parent[c] \notin Bad
                BY <2>1, <4>1
            <4> QED
                BY <4>2, <3>1
        <3>4. ASSUME NEW d \in Ancestry[c]
              PROVE  /\ d \in Blocks
                     /\ Ancestry[d] \subseteq Ancestry[c]
                     /\ d = c \/ (Height[d] < Height[c] /\ ChainWork[d] < ChainWork[c])
            <4>1. CASE d = c
                BY <4>1, <2>1
            <4>2. CASE d # c
                <5>1. d \in Ancestry[Parent[c]]
                    BY <3>1, <3>4, <4>2
                <5>2. /\ d \in Blocks
                      /\ Ancestry[d] \subseteq Ancestry[Parent[c]]
                      /\ \/ d = Parent[c]
                         \/ /\ Height[d] < Height[Parent[c]]
                            /\ ChainWork[d] < ChainWork[Parent[c]]
                    BY <3>3, <5>1
                <5>3. /\ Height[d] \in Nat /\ ChainWork[d] \in Nat
                      /\ ChainWork[c] \in Nat /\ ChainWork[Parent[c]] \in Nat
                    BY <5>2, <2>1, <3>1, BlockTreeAssumption
                <5> QED
                    BY <3>1, <3>2, <5>2, <5>3
            <4> QED
                BY <4>1, <4>2
        <3> QED
            BY <3>4, <2>1
    <2> QED
        BY <2>2, <2>3
<1> QED
    BY <1>1

\* Two blocks of one chain are ordered by their heights.
LEMMA ChainOrdered ==
    ASSUME NEW b \in Blocks, NEW a \in Ancestry[b], NEW c \in Ancestry[b]
    PROVE  /\ Height[a] = Height[c] => a = c
           /\ Height[a] < Height[c] => ChainWork[a] < ChainWork[c]
<1> DEFINE Good(e) ==
        \A d, f \in Ancestry[e] :
            /\ Height[d] = Height[f] => d = f
            /\ Height[d] < Height[f] => ChainWork[d] < ChainWork[f]
<1> DEFINE Bad == {e \in Blocks : ~Good(e)}
<1>1. ASSUME Bad # {} PROVE FALSE
    <2>1. PICK e \in Bad : \A d \in Bad : Height[e] <= Height[d]
        BY <1>1, LowestExists
    <2>2. CASE e = Genesis
        BY <2>1, <2>2, GenesisAssumption, BlockTreeAssumption
    <2>3. CASE e # Genesis
        <3>1. /\ Parent[e] \in Blocks
              /\ Height[Parent[e]] < Height[e]
              /\ Ancestry[e] = {e} \cup Ancestry[Parent[e]]
            BY <2>1, <2>3, ParentBelow
        <3>2. Height[e] \in Nat /\ Height[Parent[e]] \in Nat
            BY <2>1, <3>1, BlockTreeAssumption
        <3>3. Good(Parent[e])
            BY <2>1, <3>1, <3>2
        <3>4. \A d \in Ancestry[e] :
                /\ d \in Blocks
                /\ d = e \/ (d # e /\ Height[d] < Height[e] /\ ChainWork[d] < ChainWork[e])
            BY <2>1, OnChain
        <3>5. \A d \in Ancestry[e] : Height[d] \in Nat
            BY <3>4, BlockTreeAssumption
        <3>6. Good(e)
            <4> SUFFICES ASSUME NEW d \in Ancestry[e], NEW f \in Ancestry[e]
                         PROVE  /\ Height[d] = Height[f] => d = f
                                /\ Height[d] < Height[f] => ChainWork[d] < ChainWork[f]
                OBVIOUS
            <4>1. CASE d \in Ancestry[Parent[e]] /\ f \in Ancestry[Parent[e]]
                BY <4>1, <3>3
            <4>2. CASE d = e \/ f = e
                BY <4>2, <3>2, <3>4, <3>5
            <4> QED
                BY <4>1, <4>2, <3>1
        <3> QED
            BY <3>6, <2>1
    <2> QED
        BY <2>2, <2>3
<1> QED
    BY <1>1

\* The lower of two blocks of a chain is on the chain of the higher.
LEMMA LowerOnChain ==
    ASSUME NEW b \in Blocks, NEW a \in Ancestry[b], NEW c \in Ancestry[b],
           Height[c] <= Height[a]
    PROVE  c \in Ancestry[a]
<1> DEFINE Good(e) ==
        \A d, f \in Ancestry[e] : Height[f] <= Height[d] => f \in Ancestry[d]
<1> DEFINE Bad == {e \in Blocks : ~Good(e)}
<1>1. ASSUME Bad # {} PROVE FALSE
    <2>1. PICK e \in Bad : \A d \in Bad : Height[e] <= Height[d]
        BY <1>1, LowestExists
    <2>2. CASE e = Genesis
        BY <2>1, <2>2, GenesisAssumption, BlockTreeAssumption
    <2>3. CASE e # Genesis
        <3>1. /\ Parent[e] \in Blocks
              /\ Height[Parent[e]] < Height[e]
              /\ Ancestry[e] = {e} \cup Ancestry[Parent[e]]
            BY <2>1, <2>3, ParentBelow
        <3>2. Height[e] \in Nat /\ Height[Parent[e]] \in Nat
            BY <2>1, <3>1, BlockTreeAssumption
        <3>3. Good(Parent[e])
            BY <2>1, <3>1, <3>2
        <3>4. \A d \in Ancestry[e] :
                Height[d] \in Nat /\ (d = e \/ Height[d] < Height[e])
            BY <2>1, OnChain, BlockTreeAssumption
        <3>5. Good(e)
            <4> SUFFICES ASSUME NEW d \in Ancestry[e], NEW f \in Ancestry[e],
                                Height[f] <= Height[d]
                         PROVE  f \in Ancestry[d]
                OBVIOUS
            <4>1. CASE d = e
                BY <4>1
            <4>2. CASE d # e
                <5>1. f # e
                    BY <4>2, <3>2, <3>4
                <5> QED
                    BY <4>2, <5>1, <3>1, <3>3
            <4> QED
                BY <4>1, <4>2
        <3> QED
            BY <3>5, <2>1
    <2> QED
        BY <2>2, <2>3
<1> QED
    BY <1>1

\* Two blocks of a chain with the same parent are the same block.
LEMMA OneChild ==
    ASSUME NEW b \in Blocks, NEW a \in Ancestry[b], NEW c \in Ancestry[b],
           Parent[a] = Parent[c]
    PROVE  a = c
<1>1. a \in Blocks /\ c \in Blocks
    BY OnChain
<1>2. CASE a = Genesis \/ c = Genesis
    BY <1>1, <1>2, ChildAssumption, GenesisAssumption, BlockTreeAssumption
<1>3. CASE a # Genesis /\ c # Genesis
    <2>1. Height[a] = Height[Parent[a]] + 1 /\ Height[c] = Height[Parent[c]] + 1
        BY <1>1, <1>3, ChildAssumption
    <2> QED
        BY <2>1, ChainOrdered
<1> QED
    BY <1>2, <1>3

\* Every chain begins with the genesis block.
LEMMA GenesisOnChain ==
    ASSUME NEW b \in Blocks
    PROVE  Genesis \in Ancestry[b]
<1> DEFINE Bad == {e \in Blocks : Genesis \notin Ancestry[e]}
<1>1. ASSUME Bad # {} PROVE FALSE
    <2>1. Bad \in SUBSET Blocks
        OBVIOUS
    <2>2. PICK e \in Bad : \A c \in Bad : Height[e] <= Height[c]
        <3> HIDE DEF Bad
        <3> QED
            BY <1>1, <2>1, LowestExists
    <2>3. e # Genesis
        BY GenesisAssumption
    <2>4. /\ Parent[e] \in Blocks /\ Height[Parent[e]] < Height[e]
          /\ Ancestry[e] = {e} \cup Ancestry[Parent[e]]
        BY <2>3, ParentBelow
    <2>5. Parent[e] \in Bad
        BY <2>4
    <2>6. Height[e] \in Nat /\ Height[Parent[e]] \in Nat
        BY <2>4, BlockTreeAssumption
    <2> HIDE DEF Bad
    <2> QED
        BY <2>2, <2>4, <2>5, <2>6
<1> QED
    BY <1>1

\* The fork of two tips lies on both chains, or they share no block.
LEMMA ForkProperty ==
    ASSUME NEW a \in Tips, NEW b \in Tips
    PROVE  /\ ForkOf(a, b) \in Tips
           /\ ChainOf(ForkOf(a, b)) \subseteq ChainOf(a) \cap ChainOf(b)
           /\ ForkOf(a, b) = NoBlock => ChainOf(a) \cap ChainOf(b) = {}
<1> DEFINE common == ChainOf(a) \cap ChainOf(b)
<1>1. CASE common = {}
    BY <1>1 DEF ForkOf, ChainOf, Tips
<1>2. CASE common # {}
    <2>1. a \in Blocks /\ b \in Blocks /\ common = Ancestry[a] \cap Ancestry[b]
        BY <1>2 DEF ChainOf, Tips
    <2>2. \E c \in common : \A d \in common : Height[d] <= Height[c]
        <3>1. \A c \in common : c \in Blocks /\ Height[c] \in Nat /\ Height[c] <= Height[a]
            BY <2>1, OnChain, BlockTreeAssumption
        <3> DEFINE Depths == {Height[a] - Height[c] : c \in common}
        <3>2. Height[a] \in Nat
            BY <2>1, BlockTreeAssumption
        <3>3. PICK c0 \in common : TRUE
            BY <1>2
        <3>4. Depths \in SUBSET Nat /\ Depths # {}
            BY <3>1, <3>2, <3>3
        <3>5. PICK m \in Depths : \A k \in Depths : m <= k
            <4> HIDE DEF Depths
            <4> QED BY <3>4, SmallestExists
        <3>6. PICK c \in common : m = Height[a] - Height[c]
            BY <3>5
        <3>7. ASSUME NEW d \in common PROVE Height[d] <= Height[c]
            <4>1. Height[a] - Height[c] <= Height[a] - Height[d]
                BY <3>5, <3>6
            <4> QED
                BY <4>1, <3>1, <3>2
        <3> QED
            BY <3>6, <3>7
    <2>3. ForkOf(a, b) \in common
        BY <2>2, <1>2 DEF ForkOf
    <2>4. /\ ForkOf(a, b) \in Blocks
          /\ Ancestry[ForkOf(a, b)] \subseteq Ancestry[a] \cap Ancestry[b]
        <3> DEFINE fork == ForkOf(a, b)
        <3>1. fork \in Ancestry[a] /\ fork \in Ancestry[b]
            BY <2>1, <2>3
        <3> HIDE DEF fork
        <3>2. fork \in Blocks /\ Ancestry[fork] \subseteq Ancestry[a] /\ Ancestry[fork] \subseteq Ancestry[b]
            BY <3>1, <2>1, OnChain
        <3> QED
            BY <3>2 DEF fork
    <2> QED
        BY <2>1, <2>4, BlockTreeAssumption DEF ChainOf, Tips
<1> QED
    BY <1>1, <1>2

-----------------------------------------------------------------------------
\* Numbers and loops

\* Induction over the natural numbers, for a set instead of a predicate.
LEMMA Induction ==
    ASSUME NEW T \in SUBSET Nat, 0 \in T, \A n \in T : n + 1 \in T
    PROVE  T = Nat
<1>1. ASSUME Nat \ T # {} PROVE FALSE
    <2>1. PICK m \in Nat \ T : \A k \in Nat \ T : m <= k
        BY <1>1, SmallestExists
    <2>2. m # 0 /\ m - 1 \in Nat
        BY <2>1
    <2>3. m - 1 \in T
        BY <2>1, <2>2
    <2> QED
        BY <2>1, <2>2, <2>3
<1> QED
    BY <1>1

\* The same up to a bound: what holds of 0 and goes on from each number below n to the
\* next holds up to n.
LEMMA InductionTo ==
    ASSUME NEW n \in Nat, NEW T, 0 \in T, \A k \in 0 .. n : k \in T /\ k < n => k + 1 \in T
    PROVE  0 .. n \subseteq T
<1> DEFINE U == {k \in Nat : k <= n => k \in T}
<1>1. U \in SUBSET Nat /\ 0 \in U
    OBVIOUS
<1>2. ASSUME NEW k \in U PROVE k + 1 \in U
    OBVIOUS
<1>3. U = Nat
    <2> HIDE DEF U
    <2> QED
        BY <1>1, <1>2, Induction
<1> QED
    BY <1>3

\* g has the states of a loop before each of its turns and after the last: F is what a
\* turn does.
Runs(g, n, start, F) == g[0] = start /\ \A i \in 1 .. n : g[i] = F[<<g[i - 1], i>>]

\* A loop of n turns has states 0 to n.
LEMMA LoopExists ==
    ASSUME NEW n \in Nat, NEW S, NEW start \in S, NEW F \in [S \X (1 .. n) -> S]
    PROVE  \E g \in [0 .. n -> S] : Runs(g, n, start, F)
<1> DEFINE T == {k \in 0 .. n : \E g \in [0 .. n -> S] : Runs(g, k, start, F)}
<1>1. 0 \in T
    <2> DEFINE g == [i \in 0 .. n |-> start]
    <2>1. g \in [0 .. n -> S] /\ Runs(g, 0, start, F)
        BY DEF Runs
    <2> HIDE DEF g
    <2> QED
        BY <2>1
<1>2. ASSUME NEW k \in 0 .. n, k \in T, k < n PROVE k + 1 \in T
    <2>1. PICK g \in [0 .. n -> S] : Runs(g, k, start, F)
        BY <1>2
    <2> DEFINE s == F[<<g[k], k + 1>>]
               h == [g EXCEPT ![k + 1] = s]
    <2>2. k \in Nat /\ k + 1 \in 1 .. n /\ k + 1 \in 0 .. n
        BY <1>2
    <2>3. s \in S
        BY <2>2
    <2>4. h \in [0 .. n -> S]
        BY <2>3
    <2>5. \A i \in 0 .. n : h[i] = IF i = k + 1 THEN s ELSE g[i]
        OBVIOUS
    <2> HIDE DEF h, s
    <2>6. h[0] = start
        BY <2>1, <2>2, <2>5 DEF Runs
    <2>7. ASSUME NEW i \in 1 .. k + 1 PROVE h[i] = F[<<h[i - 1], i>>]
        <3>1. i \in 0 .. n /\ i - 1 \in 0 .. n /\ i - 1 # k + 1
            BY <2>2
        <3>2. h[i - 1] = g[i - 1]
            BY <2>5, <3>1
        <3>3. CASE i = k + 1
            <4>1. h[i] = s /\ i - 1 = k
                BY <2>5, <3>1, <3>3, <2>2
            <4> QED
                BY <3>2, <3>3, <4>1 DEF s
        <3>4. CASE i # k + 1
            <4>1. i \in 1 .. k
                BY <3>4, <2>2
            <4>2. h[i] = g[i]
                BY <2>5, <3>1, <3>4
            <4> QED
                BY <2>1, <3>2, <4>1, <4>2 DEF Runs
        <3> QED
            BY <3>3, <3>4
    <2>8. Runs(h, k + 1, start, F)
        BY <2>6, <2>7 DEF Runs
    <2> QED
        BY <2>2, <2>4, <2>8
<1>3. n \in T
    <2> HIDE DEF T
    <2>1. 0 .. n \subseteq T
        BY <1>1, <1>2, InductionTo
    <2> QED
        BY <2>1
<1> QED
    BY <1>3

\* What is known of a loop's states after its definition is expanded: any function that
\* satisfies the equation has its values in S.
LEMMA LoopType ==
    ASSUME NEW n \in Nat, NEW S, NEW start \in S, NEW F \in [S \X (1 .. n) -> S],
           NEW g, DOMAIN g = 0 .. n, g[0] = start,
           \A i \in 1 .. n : g[i - 1] \in S => g[i] = F[<<g[i - 1], i>>]
    PROVE  \A i \in 0 .. n : g[i] \in S
<1> DEFINE T == {i \in 0 .. n : g[i] \in S}
<1>1. 0 \in T
    OBVIOUS
<1>2. ASSUME NEW k \in 0 .. n, k \in T, k < n PROVE k + 1 \in T
    <2>1. k + 1 \in 1 .. n /\ (k + 1) - 1 = k
        BY <1>2
    <2>2. g[k + 1] = F[<<g[k], k + 1>>]
        BY <1>2, <2>1
    <2> QED
        BY <1>2, <2>1, <2>2
<1>3. 0 .. n \subseteq T
    <2> HIDE DEF T
    <2> QED
        BY <1>1, <1>2, InductionTo
<1> QED
    BY <1>3

-----------------------------------------------------------------------------
\* The blocks of a chain by their heights

\* The block of the chain at a height, as VerifyDB meets it.
BlockAt(tip, h) == CHOOSE c \in ChainOf(tip) : Height[c] = h

\* There is one at every height up to the tip's, each the parent of the next.
LEMMA BlockAtIs ==
    ASSUME NEW tip \in Blocks
    PROVE  /\ Height[tip] \in Nat /\ BlockAt(tip, Height[tip]) = tip
           /\ \A h \in 1 .. Height[tip] :
                /\ BlockAt(tip, h) \in Ancestry[tip] /\ BlockAt(tip, h) \in Blocks \ {Genesis}
                /\ Parent[BlockAt(tip, h)] = BlockAt(tip, h - 1)
<1> DEFINE n == Height[tip]
           On(h) == \E c \in Ancestry[tip] : Height[c] = h
           T == {k \in 0 .. n : On(n - k)}
<1>1. /\ n \in Nat /\ ChainOf(tip) = Ancestry[tip] /\ tip \in Ancestry[tip]
      /\ \A c \in Ancestry[tip] : c \in Blocks /\ Height[c] \in Nat
    BY SelfOnChain, OnChain, BlockTreeAssumption DEF ChainOf
<1>2. \A c, d \in Ancestry[tip] : Height[c] = Height[d] => c = d
    BY ChainOrdered
<1>3. ASSUME NEW c \in Ancestry[tip], Height[c] # 0
      PROVE  c # Genesis /\ Parent[c] \in Ancestry[tip] /\ Height[Parent[c]] = Height[c] - 1
    <2>1. c \in Blocks \ {Genesis}
        BY <1>1, <1>3, GenesisAssumption
    <2>2. /\ Parent[c] \in Blocks /\ Ancestry[c] = {c} \cup Ancestry[Parent[c]]
          /\ Height[c] = Height[Parent[c]] + 1
        BY <2>1, ChildAssumption
    <2>3. Parent[c] \in Ancestry[c] /\ Ancestry[c] \subseteq Ancestry[tip]
        BY <2>2, SelfOnChain, OnChain
    <2> QED
        BY <2>1, <2>2, <2>3, BlockTreeAssumption
<1>4. \A h \in 0 .. n : On(h)
    <2>1. 0 \in T
        BY <1>1
    <2>2. ASSUME NEW k \in 0 .. n, k \in T, k < n PROVE k + 1 \in T
        <3>1. PICK c \in Ancestry[tip] : Height[c] = n - k
            BY <2>2
        <3>2. n - k # 0 /\ (n - k) - 1 = n - (k + 1) /\ k + 1 \in 0 .. n
            BY <1>1, <2>2
        <3>3. Parent[c] \in Ancestry[tip] /\ Height[Parent[c]] = n - (k + 1)
            BY <1>3, <3>1, <3>2
        <3> QED
            BY <3>2, <3>3
    <2>3. 0 .. n \subseteq T
        <3> HIDE DEF T
        <3> QED
            BY <1>1, <2>1, <2>2, InductionTo
    <2>4. ASSUME NEW h \in 0 .. n PROVE On(h)
        <3>1. n - h \in T /\ n - (n - h) = h
            <4>1. n - h \in 0 .. n /\ n - (n - h) = h
                BY <1>1
            <4> HIDE DEF T
            <4> QED
                BY <2>3, <4>1
        <3> QED
            BY <3>1
    <2> QED
        BY <2>4
<1>5. \A h \in 0 .. n : BlockAt(tip, h) \in Ancestry[tip] /\ Height[BlockAt(tip, h)] = h
    BY <1>1, <1>4 DEF BlockAt
<1>6. BlockAt(tip, n) = tip
    BY <1>1, <1>2, <1>5
<1>7. ASSUME NEW h \in 1 .. n
      PROVE  /\ BlockAt(tip, h) \in Ancestry[tip] /\ BlockAt(tip, h) \in Blocks \ {Genesis}
             /\ Parent[BlockAt(tip, h)] = BlockAt(tip, h - 1)
    <2>1. h \in 0 .. n /\ h - 1 \in 0 .. n /\ h # 0
        BY <1>1
    <2>2. /\ BlockAt(tip, h) \in Ancestry[tip] /\ Height[BlockAt(tip, h)] = h
          /\ BlockAt(tip, h - 1) \in Ancestry[tip] /\ Height[BlockAt(tip, h - 1)] = h - 1
        BY <1>5, <2>1
    <2> QED
        BY <1>1, <1>2, <1>3, <2>1, <2>2
<1> QED
    BY <1>1, <1>6, <1>7

-----------------------------------------------------------------------------
\* Sums

\* Sum adds the values up from the first.
LEMMA SumLoop ==
    ASSUME NEW values \in Seq(Int)
    PROVE  \E total \in [0 .. Len(values) -> Int] :
                /\ total[0] = 0
                /\ \A i \in 1 .. Len(values) : total[i] = total[i - 1] + values[i]
                /\ Sum(values) = total[Len(values)]
<1> DEFINE n == Len(values)
           S == Int
           start == 0
           F == [x \in S \X (1 .. n) |-> x[1] + values[x[2]]]
           Loop(g) == g = [i \in 0 .. Len(values) |->
                             IF i = 0 THEN 0 ELSE g[i - 1] + values[i]]
           total == CHOOSE g : Loop(g)
<1>1. n \in Nat /\ F \in [S \X (1 .. n) -> S] /\ start \in S
    OBVIOUS
<1>2. \A s \in S, i \in 1 .. n : F[<<s, i>>] = s + values[i]
    OBVIOUS
<1>3. \A i \in 1 .. n : i - 1 \in 0 .. n
    OBVIOUS
<1> HIDE DEF F, S, n, start, total
<1>4. \E g : Loop(g)
    <2>1. PICK g \in [0 .. n -> S] : Runs(g, n, start, F)
        <3> HIDE DEF Loop
        <3> QED
            BY <1>1, LoopExists
    <2>2. g \in [0 .. n -> S] /\ g[0] = start /\ \A i \in 1 .. n : g[i] = g[i - 1] + values[i]
        BY <1>2, <1>3, <2>1 DEF Runs
    <2>3. g = [i \in 0 .. n |-> IF i = 0 THEN 0 ELSE g[i - 1] + values[i]]
        BY <1>1, <2>2 DEF start
    <2> QED
        BY <2>3 DEF n
<1>5. Loop(total)
    BY <1>4 DEF total
<1>6. Sum(values) = total[n]
    BY DEF Sum, total, n
<1>7. DOMAIN total = 0 .. n /\ total[0] = start
    BY <1>1, <1>5 DEF n, start
<1>8. \A i \in 1 .. n : total[i] = total[i - 1] + values[i]
    BY <1>1, <1>5 DEF n
<1>9. \A i \in 0 .. n : total[i] \in S
    <2> HIDE DEF Loop
    <2>1. \A i \in 1 .. n : total[i - 1] \in S => total[i] = F[<<total[i - 1], i>>]
        BY <1>2, <1>8
    <2> QED
        BY <1>1, <1>7, <2>1, LoopType
<1>10. total \in [0 .. n -> S]
    BY <1>5, <1>7, <1>9
<1> QED
    BY <1>6, <1>7, <1>8, <1>10 DEF S, start, n

\* Partial sums of values that are not negative do not exceed the whole.
LEMMA SumGrows ==
    ASSUME NEW n \in Nat, NEW total \in [0 .. n -> Int], total[0] = 0,
           \A i \in 1 .. n : total[i] - total[i - 1] \in Nat
    PROVE  \A i \in 0 .. n : total[i] \in Nat /\ total[i] <= total[n]
<1> DEFINE Up == {i \in 0 .. n : total[i] >= 0}
           Down == {i \in 0 .. n : total[n - i] <= total[n]}
<1>1. \A i \in 0 .. n : total[i] \in Int
    OBVIOUS
<1>2. 0 .. n \subseteq Up
    <2>1. ASSUME NEW k \in 0 .. n, k \in Up, k < n PROVE k + 1 \in Up
        <3>1. k + 1 \in 1 .. n /\ k + 1 \in 0 .. n /\ (k + 1) - 1 = k
            BY <2>1
        <3>2. total[k + 1] - total[k] \in Nat /\ total[k] >= 0
            BY <2>1, <3>1
        <3> QED
            BY <1>1, <3>1, <3>2
    <2>2. 0 \in Up
        OBVIOUS
    <2> HIDE DEF Up
    <2> QED
        BY <2>1, <2>2, InductionTo
<1>3. 0 .. n \subseteq Down
    <2>1. ASSUME NEW k \in 0 .. n, k \in Down, k < n PROVE k + 1 \in Down
        <3>1. n - k \in 1 .. n /\ n - (k + 1) = (n - k) - 1 /\ k + 1 \in 0 .. n
              /\ n - k \in 0 .. n /\ n - (k + 1) \in 0 .. n
            BY <2>1
        <3>2. total[n - k] - total[n - (k + 1)] \in Nat /\ total[n - k] <= total[n]
            BY <2>1, <3>1
        <3>3. total[n - (k + 1)] <= total[n]
            BY <1>1, <3>1, <3>2
        <3> QED
            BY <3>1, <3>3
    <2>2. 0 \in Down
        BY <1>1
    <2> HIDE DEF Down
    <2> QED
        BY <2>1, <2>2, InductionTo
<1>4. ASSUME NEW i \in 0 .. n PROVE total[i] \in Nat /\ total[i] <= total[n]
    <2>1. n - i \in 0 .. n /\ n - (n - i) = i
        OBVIOUS
    <2>2. n - i \in Down /\ i \in Up
        <3> HIDE DEF Down, Up
        <3> QED
            BY <1>2, <1>3, <2>1
    <2> QED
        BY <1>1, <2>1, <2>2
<1> QED
    BY <1>4

\* So their sum is not negative.
LEMMA SumNat ==
    ASSUME NEW values \in Seq(Nat)
    PROVE  Sum(values) \in Nat
<1> DEFINE n == Len(values)
<1>1. values \in Seq(Int) /\ n \in Nat /\ \A i \in 1 .. n : values[i] \in Nat /\ i - 1 \in 0 .. n
    OBVIOUS
<1>2. PICK total \in [0 .. n -> Int] :
        /\ total[0] = 0
        /\ \A i \in 1 .. n : total[i] = total[i - 1] + values[i]
        /\ Sum(values) = total[n]
    BY <1>1, SumLoop
<1> HIDE DEF n
<1>3. ASSUME NEW i \in 1 .. n PROVE total[i] - total[i - 1] \in Nat
    <2>1. total[i - 1] \in Int /\ values[i] \in Nat
        BY <1>1, <1>2
    <2> QED
        BY <1>2, <2>1
<1>4. total[n] \in Nat
    <2>1. \A i \in 0 .. n : total[i] \in Nat /\ total[i] <= total[n]
        BY <1>1, <1>2, <1>3, SumGrows
    <2> QED
        BY <1>1, <2>1
<1> QED
    BY <1>2, <1>4

-----------------------------------------------------------------------------
\* Coins of one transaction

Vouts == Seq(CTxOut \cup {NullOut})

\* No output of a transaction looks like a spent one.
LEMMA NotNull == \A out \in CTxOut : out # NullOut /\ out.nValue \in Nat
BY DEF CTxOut, NullOut

CoinType == [fCoinBase : BOOLEAN, nHeight : Nat, vout : Vouts]

\* What a cache holds for a transaction: no output is left, or the last one is unspent,
\* and the height is that of a block above the genesis block.
Normal(c) ==
    /\ c \in CoinType
    /\ c # Pruned => c.nHeight > 0 /\ c.vout # <<>> /\ c.vout[Len(c.vout)] # NullOut

\* An available output is one that a transaction has.
LEMMA AvailableIs ==
    ASSUME NEW c \in CoinType, NEW m, IsAvailable(c, m)
    PROVE  m \in Nat /\ c.vout[m] \in CTxOut
<1>1. c.vout \in Vouts /\ m \in DOMAIN c.vout /\ c.vout[m] # NullOut
    BY DEF CoinType, IsAvailable
<1> QED
    BY <1>1 DEF Vouts

\* Max of a bounded set of numbers.
LEMMA MaxOf ==
    ASSUME NEW m \in Nat, NEW I \in SUBSET (0 .. m), I # {}
    PROVE  Max(I) \in I /\ \A i \in I : i <= Max(I)
<1> DEFINE Below == {m - i : i \in I}
<1>1. Below \in SUBSET Nat /\ Below # {}
    <2>1. \A i \in I : m - i \in Nat
        OBVIOUS
    <2>2. PICK i \in I : TRUE
        OBVIOUS
    <2> QED
        BY <2>1, <2>2
<1>2. PICK k \in Below : \A j \in Below : k <= j
    <2> HIDE DEF Below
    <2> QED
        BY <1>1, SmallestExists
<1>3. PICK x \in I : k = m - x
    BY <1>2
<1>4. \A i \in I : x >= i
    BY <1>2, <1>3
<1>5. \E y \in I : \A i \in I : y >= i
    BY <1>4
<1>6. Max(I) \in I /\ \A i \in I : Max(I) >= i
    BY <1>5 DEF Max
<1> QED
    BY <1>6

\* SpentVout marks output n and cuts the spent tail off.
LEMMA SpentVoutIs ==
    ASSUME NEW vout \in Vouts, NEW n
    PROVE  LET w == SpentVout(vout, n)
           IN  /\ w \in Vouts /\ Len(w) <= Len(vout)
               /\ \A i \in 1 .. Len(w) : w[i] = IF i = n THEN NullOut ELSE vout[i]
               /\ \A i \in DOMAIN vout : i > Len(w) => i = n \/ vout[i] = NullOut
               /\ w # <<>> => w[Len(w)] # NullOut
<1> DEFINE marked == [vout EXCEPT ![n] = NullOut]
           I == {i \in 1 .. Len(marked) : marked[i] # NullOut}
           last == IF I # {} THEN Max(I) ELSE 0
           w == SubSeq(marked, 1, last)
<1>1. /\ marked \in Vouts /\ Len(marked) = Len(vout) /\ Len(vout) \in Nat
      /\ DOMAIN vout = 1 .. Len(vout)
      /\ \A i \in 1 .. Len(vout) : marked[i] = IF i = n THEN NullOut ELSE vout[i]
    <2>1. vout \in [1 .. Len(vout) -> CTxOut \cup {NullOut}] /\ Len(vout) \in Nat
        BY DEF Vouts
    <2>2. /\ marked \in [1 .. Len(vout) -> CTxOut \cup {NullOut}]
          /\ \A i \in 1 .. Len(vout) : marked[i] = IF i = n THEN NullOut ELSE vout[i]
        BY <2>1
    <2> HIDE DEF marked
    <2>3. marked \in Vouts /\ Len(marked) = Len(vout)
        BY <2>1, <2>2 DEF Vouts
    <2> QED
        BY <2>1, <2>2, <2>3
<1>2. SpentVout(vout, n) = w
    BY DEF SpentVout, SelectLastInSeq
<1> HIDE DEF marked
<1>3. /\ last \in 0 .. Len(vout)
      /\ \A i \in I : i <= last
      /\ last # 0 => marked[last] # NullOut
    <2>1. CASE I = {}
        BY <1>1, <2>1
    <2>2. CASE I # {}
        <3>1. I \in SUBSET (0 .. Len(vout))
            BY <1>1
        <3>2. Max(I) \in I /\ \A i \in I : i <= Max(I)
            <4> HIDE DEF I
            <4> QED
                BY <1>1, <2>2, <3>1, MaxOf
        <3> QED
            BY <1>1, <2>2, <3>2
    <2> QED
        BY <2>1, <2>2
<1> HIDE DEF last
<1>4. /\ w \in Vouts /\ Len(w) = last
      /\ \A i \in 1 .. last : w[i] = marked[i]
    BY <1>1, <1>3 DEF Vouts
<1>5. \A i \in 1 .. Len(vout) : i > last => marked[i] = NullOut
    BY <1>1, <1>3
<1> HIDE DEF w, I
<1>6. w # <<>> => last # 0
    BY <1>4
<1> QED
    BY <1>1, <1>2, <1>3, <1>4, <1>5, <1>6

\* Spending output n leaves the coins normal and the other outputs as they were.
LEMMA SpendIs ==
    ASSUME NEW c, Normal(c), NEW n, IsAvailable(c, n)
    PROVE  LET d == Spend(c, n)
           IN  /\ Normal(d)
               /\ \A m : IsAvailable(d, m) <=> IsAvailable(c, m) /\ m # n
               /\ \A m : IsAvailable(d, m) =>
                    /\ d.vout[m] = c.vout[m]
                    /\ d.nHeight = c.nHeight /\ d.fCoinBase = c.fCoinBase
<1> DEFINE w == SpentVout(c.vout, n)
<1>1. /\ c \in CoinType /\ c.vout \in Vouts /\ n \in DOMAIN c.vout /\ c.nHeight > 0
      /\ c.vout # <<>> /\ c.vout[Len(c.vout)] # NullOut
    BY DEF Normal, IsAvailable, Pruned, CoinType
<1>2. /\ w \in Vouts /\ Len(w) <= Len(c.vout)
      /\ \A i \in 1 .. Len(w) : w[i] = IF i = n THEN NullOut ELSE c.vout[i]
      /\ \A i \in DOMAIN c.vout : i > Len(w) => i = n \/ c.vout[i] = NullOut
      /\ w # <<>> => w[Len(w)] # NullOut
    BY <1>1, SpentVoutIs
<1> HIDE DEF w
<1>3. /\ DOMAIN w = 1 .. Len(w) /\ Len(w) \in Nat
      /\ DOMAIN c.vout = 1 .. Len(c.vout) /\ Len(c.vout) \in Nat
    BY <1>1, <1>2 DEF Vouts
<1>4. \A m : m \in DOMAIN w /\ w[m] # NullOut <=> IsAvailable(c, m) /\ m # n
    BY <1>2, <1>3 DEF IsAvailable
<1>5. CASE w = <<>>
    <2>1. Spend(c, n) = Pruned
        BY <1>5 DEF Spend, w
    <2>2. Normal(Pruned) /\ \A m : ~IsAvailable(Pruned, m)
        <3>1. <<>> \in Vouts /\ Pruned.vout = <<>>
            BY DEF Pruned, Vouts
        <3> QED
            BY <3>1 DEF Normal, Pruned, IsAvailable, CoinType
    <2>3. \A m : ~(IsAvailable(c, m) /\ m # n)
        BY <1>4, <1>5
    <2> QED
        BY <2>1, <2>2, <2>3
<1>6. CASE w # <<>>
    <2> DEFINE d == [c EXCEPT !.vout = w]
    <2>1. Spend(c, n) = d
        BY <1>6 DEF Spend, w
    <2>2. d \in CoinType /\ d.vout = w /\ d.nHeight = c.nHeight /\ d.fCoinBase = c.fCoinBase
        BY <1>1, <1>2 DEF CoinType
    <2> HIDE DEF d
    <2>3. Normal(d)
        BY <1>1, <1>2, <1>6, <2>2 DEF Normal
    <2>4. \A m : IsAvailable(d, m) <=> IsAvailable(c, m) /\ m # n
        BY <1>4, <2>2 DEF IsAvailable
    <2>5. \A m : IsAvailable(d, m) => d.vout[m] = c.vout[m]
        BY <1>2, <1>3, <2>2 DEF IsAvailable
    <2> QED
        BY <2>1, <2>2, <2>3, <2>4, <2>5
<1> QED
    BY <1>5, <1>6

UndoType == [txout : CTxOut, nHeight : Nat, fCoinBase : BOOLEAN]

\* The larger of two numbers.
LEMMA MaxOfTwo ==
    ASSUME NEW i \in Nat, NEW j \in Nat
    PROVE  Max({i, j}) = IF i >= j THEN i ELSE j
<1>1. {i, j} \in SUBSET (0 .. i + j) /\ i + j \in Nat
    OBVIOUS
<1>2. Max({i, j}) \in {i, j} /\ \A x \in {i, j} : x <= Max({i, j})
    BY <1>1, MaxOf
<1> QED
    BY <1>2

\* Spending has the right type whatever output it is given.
LEMMA SpendType ==
    ASSUME NEW c \in CoinType, NEW n
    PROVE  Spend(c, n) \in CoinType
<1>1. SpentVout(c.vout, n) \in Vouts
    BY SpentVoutIs DEF CoinType
<1>2. Pruned \in CoinType
    BY DEF Pruned, CoinType, Vouts
<1> QED
    BY <1>1, <1>2 DEF Spend, CoinType

\* So has restoring an output.
LEMMA RestoreType ==
    ASSUME NEW c \in CoinType, NEW n \in Nat, NEW undo \in UndoType
    PROVE  RestoreOutput(c, n, undo) \in CoinType
<1> DEFINE from == IF undo.nHeight # 0
                   THEN [fCoinBase |-> undo.fCoinBase, nHeight |-> undo.nHeight, vout |-> <<>>]
                   ELSE c
           size == Max({n, Len(from.vout)})
           vout == [i \in 1..size |-> IF i = n THEN undo.txout
                                      ELSE IF i <= Len(from.vout) THEN from.vout[i] ELSE NullOut]
<1>1. from \in CoinType /\ from.vout \in Seq(CTxOut \cup {NullOut})
    BY DEF CoinType, UndoType, Vouts
<1>2. RestoreOutput(c, n, undo) = [from EXCEPT !.vout = vout]
    BY DEF RestoreOutput
<1> HIDE DEF from
<1>3. Len(from.vout) \in Nat
    BY <1>1
<1>4. size \in Nat
    BY <1>3, MaxOfTwo
<1> HIDE DEF size
<1>5. \A i \in 1 .. size : vout[i] \in CTxOut \cup {NullOut}
    BY <1>1, <1>3 DEF UndoType
<1>6. vout \in Vouts
    BY <1>4, <1>5 DEF Vouts
<1> QED
    BY <1>1, <1>2, <1>6 DEF CoinType

\* The undo data of an output restores the coins as they were, and without a complaint.
LEMMA RestoreIs ==
    ASSUME NEW c, Normal(c), NEW n, IsAvailable(c, n)
    PROVE  /\ SpendUndo(c, n) \in UndoType
           /\ RestoreOutput(Spend(c, n), n, SpendUndo(c, n)) = c
           /\ RestoresCleanly(Spend(c, n), n, SpendUndo(c, n))
<1> DEFINE w == SpentVout(c.vout, n)
           d == Spend(c, n)
           undo == SpendUndo(c, n)
<1>1. /\ c \in CoinType /\ c.vout \in Vouts /\ n \in DOMAIN c.vout /\ c.nHeight > 0
      /\ c.vout # <<>> /\ c.vout[Len(c.vout)] # NullOut /\ c.vout[n] # NullOut
      /\ c.nHeight \in Nat /\ c.fCoinBase \in BOOLEAN
    BY DEF Normal, IsAvailable, Pruned, CoinType
<1>2. /\ w \in Vouts /\ Len(w) <= Len(c.vout)
      /\ \A i \in 1 .. Len(w) : w[i] = IF i = n THEN NullOut ELSE c.vout[i]
      /\ \A i \in DOMAIN c.vout : i > Len(w) => i = n \/ c.vout[i] = NullOut
      /\ w # <<>> => w[Len(w)] # NullOut
    BY <1>1, SpentVoutIs
<1>3. /\ undo.txout = c.vout[n]
      /\ undo.nHeight = IF w = <<>> THEN c.nHeight ELSE 0
      /\ undo.fCoinBase = (w = <<>> /\ c.fCoinBase)
      /\ undo \in UndoType
    <2>1. c.vout[n] \in CTxOut
        BY <1>1 DEF Vouts
    <2> QED
        BY <1>1, <2>1 DEF SpendUndo, UndoType
<1>4. d = IF w = <<>> THEN Pruned ELSE [c EXCEPT !.vout = w]
    BY DEF Spend
<1>5. /\ DOMAIN w = 1 .. Len(w) /\ Len(w) \in Nat /\ w = <<>> <=> Len(w) = 0
      /\ DOMAIN c.vout = 1 .. Len(c.vout) /\ Len(c.vout) \in Nat /\ Len(c.vout) >= n
      /\ n \in Nat \ {0}
    BY <1>1, <1>2 DEF Vouts
<1>6. Len(c.vout) = IF n >= Len(w) THEN n ELSE Len(w)
    BY <1>1, <1>2, <1>5
<1>7. ~IsAvailable(d, n)
    BY SpendIs
<1>8. undo.nHeight # 0 <=> d = Pruned
    <2>1. w # <<>> => [c EXCEPT !.vout = w].vout = w
        BY <1>1 DEF CoinType
    <2>2. w # <<>> => d # Pruned
        BY <1>4, <2>1 DEF Pruned
    <2> QED
        BY <1>1, <1>3, <1>4, <2>2
<1> DEFINE from == IF undo.nHeight # 0
                   THEN [fCoinBase |-> undo.fCoinBase, nHeight |-> undo.nHeight, vout |-> <<>>]
                   ELSE d
           size == Max({n, Len(from.vout)})
           vout == [i \in 1..size |-> IF i = n THEN undo.txout
                                      ELSE IF i <= Len(from.vout) THEN from.vout[i] ELSE NullOut]
<1>9. RestoreOutput(d, n, undo) = [from EXCEPT !.vout = vout]
    BY DEF RestoreOutput
<1> HIDE DEF w, d, undo
<1>10. /\ from = [fCoinBase |-> c.fCoinBase, nHeight |-> c.nHeight, vout |-> w]
       /\ from.vout = w
    <2>1. CASE w = <<>>
        BY <1>1, <1>3, <2>1
    <2>2. CASE w # <<>>
        <3>1. d = [fCoinBase |-> c.fCoinBase, nHeight |-> c.nHeight, vout |-> w]
            BY <1>1, <1>4, <2>2 DEF CoinType
        <3> QED
            BY <1>3, <2>2, <3>1
    <2> QED
        BY <2>1, <2>2
<1> HIDE DEF from
<1>11. size = Len(c.vout)
    BY <1>5, <1>6, <1>10, MaxOfTwo
<1> HIDE DEF size
<1>12. vout = c.vout
    <2>1. \A i \in 1 .. Len(c.vout) : vout[i] = c.vout[i]
        BY <1>2, <1>3, <1>5, <1>10, <1>11
    <2>2. vout \in [1 .. Len(c.vout) -> {vout[i] : i \in 1 .. Len(c.vout)}]
        BY <1>11
    <2>3. c.vout \in [1 .. Len(c.vout) -> CTxOut \cup {NullOut}]
        BY <1>1 DEF Vouts
    <2> HIDE DEF vout
    <2> QED
        BY <2>1, <2>2, <2>3
<1> HIDE DEF vout
<1>13. RestoreOutput(d, n, undo) = c
    BY <1>1, <1>9, <1>10, <1>12 DEF CoinType
<1>14. RestoresCleanly(d, n, undo)
    BY <1>7, <1>8 DEF RestoresCleanly
<1> QED
    BY <1>3, <1>13, <1>14 DEF d, undo

-----------------------------------------------------------------------------
\* Coins of all transactions, and the inputs of one

AllCoins == [Txids -> CoinType]

NormalCoins(coins) == coins \in AllCoins /\ \A t \in Txids : Normal(coins[t])

Undos == {SpendUndo(c, n) : c \in CoinType, n \in Nat}

SpentType == [coins : AllCoins, txundo : Seq(Undos)]

\* Without an unspent output an entry is Pruned.
LEMMA NormalPruned ==
    ASSUME NEW c, Normal(c)
    PROVE  c = Pruned <=> \A m : ~IsAvailable(c, m)
<1>1. CASE c = Pruned
    BY <1>1 DEF Pruned, IsAvailable
<1>2. CASE c # Pruned
    <2>1. c.vout \in Vouts /\ c.vout # <<>> /\ c.vout[Len(c.vout)] # NullOut
        BY <1>2 DEF Normal, CoinType
    <2>2. Len(c.vout) \in DOMAIN c.vout
        BY <2>1 DEF Vouts
    <2> QED
        BY <1>2, <2>1, <2>2 DEF IsAvailable
<1> QED
    BY <1>1, <1>2

\* The outputs of a new transaction, and the coins it has.
LEMMA CoinsOfIs ==
    ASSUME NEW t \in Txids, NEW h \in Nat \ {0}
    PROVE  /\ Normal(CoinsOf(t, h))
           /\ CoinsOf(t, h).vout = TxOut[t] /\ CoinsOf(t, h).nHeight = h
           /\ CoinsOf(t, h).fCoinBase = IsCoinBase(t)
           /\ \A m : IsAvailable(CoinsOf(t, h), m) <=> m \in DOMAIN TxOut[t]
<1>1. /\ TxOut[t] \in Seq(CTxOut) /\ TxOut[t] # <<>> /\ TxOut[t] \in Vouts
      /\ \A m \in DOMAIN TxOut[t] : TxOut[t][m] # NullOut
    <2>1. TxOut[t] \in Seq(CTxOut) /\ TxOut[t] # <<>>
        BY TransactionAssumption DEF TransactionAssumption
    <2>2. TxOut[t] \in Vouts
        BY <2>1 DEF Vouts
    <2>3. \A m \in DOMAIN TxOut[t] : TxOut[t][m] \in CTxOut
        BY <2>1
    <2> QED
        BY <2>1, <2>2, <2>3, NotNull
<1>2. Len(TxOut[t]) \in DOMAIN TxOut[t]
    BY <1>1
<1>3. CoinsOf(t, h) \in CoinType
    BY <1>1 DEF CoinsOf, CoinType, IsCoinBase
<1> QED
    BY <1>1, <1>2, <1>3 DEF CoinsOf, Normal, IsAvailable

\* The prevouts of a transaction are in a sequence without repetition.
LEMMA InputType ==
    ASSUME NEW t \in Txids
    PROVE  /\ Len(TxIn[t]) \in Nat /\ DOMAIN TxIn[t] = 1 .. Len(TxIn[t])
           /\ \A i \in 1 .. Len(TxIn[t]) :
                TxIn[t][i] \in [hash : Txids, n : Nat \ {0}]
           /\ \A i, j \in 1 .. Len(TxIn[t]) : TxIn[t][i] = TxIn[t][j] => i = j
<1> DEFINE Prevout == [hash : Txids, n : Nat \ {0}]
<1>1. TxIn[t] \in Seq(Prevout) /\ IsInjective(TxIn[t])
    BY TransactionAssumption DEF TransactionAssumption
<1> HIDE DEF Prevout
<1>2. DOMAIN TxIn[t] = 1 .. Len(TxIn[t]) /\ Len(TxIn[t]) \in Nat
    BY <1>1
<1>3. \A i \in 1 .. Len(TxIn[t]) : TxIn[t][i] \in Prevout
    BY <1>1, <1>2
<1> USE DEF Prevout
<1> QED
    BY <1>1, <1>2, <1>3 DEF IsInjective

\* s has the states of UpdateCoins' loop.
SpendLoop(s, coins, t) ==
    /\ s \in [0 .. Len(TxIn[t]) -> SpentType]
    /\ s[0] = [coins |-> coins, txundo |-> <<>>]
    /\ \A i \in 1 .. Len(TxIn[t]) : s[i] = SpendInput(s[i - 1], TxIn[t][i])

\* UpdateCoins has the states of its loop, and ends by adding the transaction.
LEMMA UpdateLoop ==
    ASSUME NEW coins \in AllCoins, NEW t \in Txids, NEW h
    PROVE  \E s : /\ SpendLoop(s, coins, t)
                  /\ UpdateCoins(coins, t, h)
                      = [s[Len(TxIn[t])] EXCEPT !.coins[t] = CoinsOf(t, h)]
<1> DEFINE n == Len(TxIn[t])
           start == [coins |-> coins, txundo |-> <<>>]
           F == [x \in SpentType \X (1 .. n) |-> SpendInput(x[1], TxIn[t][x[2]])]
           Loop(g) == g = [i \in 0 .. Len(TxIn[t]) |->
                            IF i = 0 THEN [coins |-> coins, txundo |-> <<>>]
                            ELSE SpendInput(g[i - 1], TxIn[t][i])]
           spent == CHOOSE g : Loop(g)
<1>1. ASSUME NEW r \in SpentType, NEW i \in 1 .. n
      PROVE  SpendInput(r, TxIn[t][i]) \in SpentType
    <2>1. TxIn[t][i].hash \in Txids /\ TxIn[t][i].n \in Nat
        BY InputType
    <2>2. r.coins \in AllCoins /\ r.coins[TxIn[t][i].hash] \in CoinType /\ r.txundo \in Seq(Undos)
        BY <2>1 DEF SpentType, AllCoins
    <2>3. Spend(r.coins[TxIn[t][i].hash], TxIn[t][i].n) \in CoinType
        BY <2>2, SpendType
    <2>4. SpendUndo(r.coins[TxIn[t][i].hash], TxIn[t][i].n) \in Undos
        BY <2>1, <2>2 DEF Undos
    <2>5. [r.coins EXCEPT ![TxIn[t][i].hash] = Spend(@, TxIn[t][i].n)] \in AllCoins
        BY <2>2, <2>3 DEF AllCoins
    <2>6. Append(r.txundo, SpendUndo(r.coins[TxIn[t][i].hash], TxIn[t][i].n)) \in Seq(Undos)
        BY <2>2, <2>4
    <2> QED
        BY <2>5, <2>6 DEF SpendInput, SpentType
<1>2. n \in Nat /\ F \in [SpentType \X (1 .. n) -> SpentType] /\ start \in SpentType
    <2>1. start \in SpentType
        BY DEF SpentType
    <2> QED
        BY <1>1, <2>1, InputType
<1>3. \A r \in SpentType, i \in 1 .. n : F[<<r, i>>] = SpendInput(r, TxIn[t][i])
    OBVIOUS
<1>4. \A i \in 1 .. n : i - 1 \in 0 .. n
    BY <1>2
<1> HIDE DEF F, n, start, spent
<1>5. \E g : Loop(g)
    <2>1. PICK g \in [0 .. n -> SpentType] : Runs(g, n, start, F)
        <3> HIDE DEF Loop
        <3> QED
            BY <1>2, LoopExists
    <2>2. g \in [0 .. n -> SpentType] /\ g[0] = start
          /\ \A i \in 1 .. n : g[i] = SpendInput(g[i - 1], TxIn[t][i])
        BY <1>3, <1>4, <2>1 DEF Runs
    <2>3. g = [i \in 0 .. n |-> IF i = 0 THEN start ELSE SpendInput(g[i - 1], TxIn[t][i])]
        BY <1>2, <2>2
    <2> QED
        BY <2>3 DEF n, start
<1>6. Loop(spent)
    BY <1>5 DEF spent
<1>7. UpdateCoins(coins, t, h) = [spent[n] EXCEPT !.coins[t] = CoinsOf(t, h)]
    BY DEF UpdateCoins, spent, n
<1>8. DOMAIN spent = 0 .. n /\ spent[0] = start
    BY <1>2, <1>6 DEF n, start
<1>9. \A i \in 1 .. n : spent[i] = SpendInput(spent[i - 1], TxIn[t][i])
    BY <1>2, <1>6 DEF n
<1>10. \A i \in 0 .. n : spent[i] \in SpentType
    <2> HIDE DEF Loop
    <2>1. \A i \in 1 .. n : spent[i - 1] \in SpentType => spent[i] = F[<<spent[i - 1], i>>]
        BY <1>3, <1>9
    <2> QED
        BY <1>2, <1>8, <2>1, LoopType
<1>11. spent \in [0 .. n -> SpentType]
    BY <1>6, <1>8, <1>10
<1>12. SpendLoop(spent, coins, t)
    BY <1>8, <1>9, <1>11 DEF start, n, SpendLoop
<1> QED
    BY <1>7, <1>12 DEF n

-----------------------------------------------------------------------------
\* Spending the inputs of a transaction

\* d has the outputs of coins but those at the points.
Without(d, coins, points) ==
    /\ NormalCoins(d)
    /\ \A t \in Txids : \A m :
        IsAvailable(d[t], m) <=> IsAvailable(coins[t], m) /\ [hash |-> t, n |-> m] \notin points
    /\ \A t \in Txids : \A m :
        IsAvailable(d[t], m) =>
            /\ d[t].vout[m] = coins[t].vout[m]
            /\ d[t].nHeight = coins[t].nHeight /\ d[t].fCoinBase = coins[t].fCoinBase

\* Spending one more available output.
LEMMA SpendWithout ==
    ASSUME NEW d, NEW coins, NEW points, Without(d, coins, points),
           NEW in \in [hash : Txids, n : Nat \ {0}], IsAvailable(d[in.hash], in.n)
    PROVE  Without([d EXCEPT ![in.hash] = Spend(@, in.n)], coins, points \cup {in})
<1> DEFINE h == in.hash
           e == [d EXCEPT ![h] = Spend(@, in.n)]
<1>1. d \in AllCoins /\ h \in Txids /\ in = [hash |-> h, n |-> in.n]
      /\ \A t \in Txids : Normal(d[t])
    BY DEF Without, NormalCoins
<1>2. LET c == Spend(d[h], in.n)
      IN  /\ Normal(c)
          /\ \A m : IsAvailable(c, m) <=> IsAvailable(d[h], m) /\ m # in.n
          /\ \A m : IsAvailable(c, m) =>
               /\ c.vout[m] = d[h].vout[m]
               /\ c.nHeight = d[h].nHeight /\ c.fCoinBase = d[h].fCoinBase
    BY <1>1, SpendIs
<1>3. /\ e[h] = Spend(d[h], in.n) /\ \A t \in Txids \ {h} : e[t] = d[t]
      /\ e \in AllCoins
    BY <1>1, <1>2 DEF AllCoins, Normal
<1> HIDE DEF e
<1>4. NormalCoins(e)
    BY <1>1, <1>2, <1>3 DEF NormalCoins
<1>5. ASSUME NEW t \in Txids, NEW m
      PROVE  /\ IsAvailable(e[t], m) <=> IsAvailable(d[t], m) /\ [hash |-> t, n |-> m] # in
             /\ IsAvailable(e[t], m) =>
                    /\ e[t].vout[m] = d[t].vout[m]
                    /\ e[t].nHeight = d[t].nHeight /\ e[t].fCoinBase = d[t].fCoinBase
    <2>1. [hash |-> t, n |-> m] = in <=> t = h /\ m = in.n
        BY <1>1
    <2>2. CASE t = h
        BY <1>2, <1>3, <2>1, <2>2
    <2>3. CASE t # h
        BY <1>3, <2>1, <2>3
    <2> QED
        BY <2>2, <2>3
<1>6. \A t \in Txids : \A m :
        IsAvailable(e[t], m) <=>
            IsAvailable(coins[t], m) /\ [hash |-> t, n |-> m] \notin points \cup {in}
    BY <1>5 DEF Without
<1>7. \A t \in Txids : \A m :
        IsAvailable(e[t], m) =>
            /\ e[t].vout[m] = coins[t].vout[m]
            /\ e[t].nHeight = coins[t].nHeight /\ e[t].fCoinBase = coins[t].fCoinBase
    BY <1>5 DEF Without
<1> QED
    BY <1>4, <1>6, <1>7 DEF Without, e

\* All inputs of t are there.
HasInputs(coins, t) ==
    \A i \in DOMAIN TxIn[t] : IsAvailable(coins[TxIn[t][i].hash], TxIn[t][i].n)

\* Before turn k + 1 of UpdateCoins' loop the outputs of the first k inputs are gone, and
\* the undo data has their last coins.
SpentAt(s, coins, t, k) ==
    /\ Without(s[k].coins, coins, {TxIn[t][j] : j \in 1 .. k})
    /\ Len(s[k].txundo) = k
    /\ \A j \in 1 .. k :
        s[k].txundo[j] = SpendUndo(s[j - 1].coins[TxIn[t][j].hash], TxIn[t][j].n)
    /\ k < Len(TxIn[t]) => IsAvailable(s[k].coins[TxIn[t][k + 1].hash], TxIn[t][k + 1].n)

\* UpdateCoins' loop spends the inputs one after the other, and nothing else.
LEMMA SpendsAll ==
    ASSUME NEW coins, NormalCoins(coins), NEW t \in Txids, HasInputs(coins, t),
           NEW s, SpendLoop(s, coins, t)
    PROVE  \A k \in 0 .. Len(TxIn[t]) : SpentAt(s, coins, t, k)
<1> DEFINE n == Len(TxIn[t])
           vin == TxIn[t]
           Gone(k) == {vin[j] : j \in 1 .. k}
           Undo(j) == SpendUndo(s[j - 1].coins[vin[j].hash], vin[j].n)
           P(k) == /\ Without(s[k].coins, coins, Gone(k))
                   /\ Len(s[k].txundo) = k
                   /\ \A j \in 1 .. k : s[k].txundo[j] = Undo(j)
                   /\ k < n => IsAvailable(s[k].coins[vin[k + 1].hash], vin[k + 1].n)
           T == {k \in 0 .. n : P(k)}
<1>0. /\ n \in Nat /\ DOMAIN vin = 1 .. n
      /\ \A i \in 1 .. n : vin[i] \in [hash : Txids, n : Nat \ {0}]
      /\ \A i, j \in 1 .. n : vin[i] = vin[j] => i = j
    BY InputType
<1>s. /\ s \in [0 .. n -> SpentType]
      /\ s[0] = [coins |-> coins, txundo |-> <<>>]
      /\ \A i \in 1 .. n : s[i] = SpendInput(s[i - 1], vin[i])
    BY DEF SpendLoop
<1>a. \A i \in 1 .. n : vin[i].hash \in Txids /\ vin[i] = [hash |-> vin[i].hash, n |-> vin[i].n]
    BY <1>0
<1>b. \A i \in 1 .. n : IsAvailable(coins[vin[i].hash], vin[i].n)
    BY <1>0 DEF HasInputs
<1>c. \A k \in 0 .. n : s[k].txundo \in Seq(Undos) /\ s[k].coins \in AllCoins
    BY <1>s DEF SpentType
<1>n. ASSUME NEW k \in 0 .. n, Without(s[k].coins, coins, Gone(k)), k < n
      PROVE  IsAvailable(s[k].coins[vin[k + 1].hash], vin[k + 1].n)
    <2>1. k + 1 \in 1 .. n
        BY <1>0, <1>n
    <2>2. vin[k + 1] \notin Gone(k)
        BY <1>0, <2>1
    <2> HIDE DEF Gone, vin
    <2>3. [hash |-> vin[k + 1].hash, n |-> vin[k + 1].n] \notin Gone(k)
        BY <1>a, <2>1, <2>2
    <2> QED
        BY <1>a, <1>b, <1>n, <2>1, <2>3 DEF Without
<1> HIDE DEF vin, n
<1>1. 0 \in T
    <2>1. s[0].coins = coins /\ s[0].txundo = <<>> /\ Gone(0) = {}
        BY <1>s
    <2>2. Without(s[0].coins, coins, Gone(0))
        <3> HIDE DEF Gone
        <3> QED
            BY <2>1 DEF Without
    <2>3. 0 \in 0 .. n
        BY <1>0
    <2>4. 0 < n => IsAvailable(s[0].coins[vin[0 + 1].hash], vin[0 + 1].n)
        <3> HIDE DEF Gone
        <3> QED
            BY <1>n, <2>2, <2>3
    <2> QED
        BY <2>1, <2>2, <2>3, <2>4
<1>2. ASSUME NEW k \in 0 .. n, k \in T, k < n PROVE k + 1 \in T
    <2>1. k + 1 \in 1 .. n /\ k + 1 \in 0 .. n /\ (k + 1) - 1 = k /\ k \in Nat
        BY <1>0, <1>2
    <2>2. s[k + 1] = SpendInput(s[k], vin[k + 1])
        BY <1>s, <2>1
    <2>3. P(k)
        BY <1>2
    <2>4. /\ s[k + 1].coins = [s[k].coins EXCEPT ![vin[k + 1].hash] = Spend(@, vin[k + 1].n)]
          /\ s[k + 1].txundo = Append(s[k].txundo, Undo(k + 1))
        BY <2>1, <2>2 DEF SpendInput
    <2>5. Gone(k + 1) = Gone(k) \cup {vin[k + 1]}
        BY <2>1
    <2> HIDE DEF Gone, Undo
    <2>6. Without(s[k + 1].coins, coins, Gone(k + 1))
        <3> DEFINE d == s[k].coins
                   in == vin[k + 1]
                   points == Gone(k)
        <3>1. /\ Without(d, coins, points) /\ in \in [hash : Txids, n : Nat \ {0}]
              /\ IsAvailable(d[in.hash], in.n)
            BY <1>0, <1>2, <2>1, <2>3
        <3>2. /\ s[k + 1].coins = [d EXCEPT ![in.hash] = Spend(@, in.n)]
              /\ Gone(k + 1) = points \cup {in}
            BY <2>4, <2>5
        <3> HIDE DEF d, in, points
        <3>3. Without([d EXCEPT ![in.hash] = Spend(@, in.n)], coins, points \cup {in})
            BY <3>1, SpendWithout
        <3> QED
            BY <3>2, <3>3
    <2>7. Len(s[k + 1].txundo) = k + 1
          /\ \A j \in 1 .. k + 1 : s[k + 1].txundo[j] = Undo(j)
        BY <1>c, <2>1, <2>3, <2>4
    <2>8. k + 1 < n => IsAvailable(s[k + 1].coins[vin[(k + 1) + 1].hash], vin[(k + 1) + 1].n)
        BY <1>n, <2>1, <2>6
    <2> QED
        BY <2>1, <2>6, <2>7, <2>8
<1>3. 0 .. n \subseteq T
    <2> HIDE DEF T
    <2> QED
        BY <1>0, <1>1, <1>2, InductionTo
<1> QED
    BY <1>3 DEF vin, n, SpentAt

-----------------------------------------------------------------------------
\* A transaction undone

\* What a loop's states are, given a function that has them.
Follows(h, g, n) == h[0] = g[0] /\ \A i \in 1 .. n : h[i - 1] = g[i - 1] => h[i] = g[i]

\* A loop that follows g has g's states.
LEMMA LoopIs ==
    ASSUME NEW n \in Nat, NEW g, NEW h, Follows(h, g, n)
    PROVE  \A i \in 0 .. n : h[i] = g[i]
<1> DEFINE T == {i \in 0 .. n : h[i] = g[i]}
<1>1. 0 \in T
    BY DEF Follows
<1>2. ASSUME NEW k \in 0 .. n, k \in T, k < n PROVE k + 1 \in T
    <2>1. k + 1 \in 1 .. n /\ (k + 1) - 1 = k
        BY <1>2
    <2> QED
        BY <1>2, <2>1 DEF Follows
<1>3. 0 .. n \subseteq T
    <2> HIDE DEF T
    <2> QED
        BY <1>1, <1>2, InductionTo
<1> QED
    BY <1>3

\* What UpdateCoins leaves when t's inputs are there and t is not.
LEMMA UpdateIs ==
    ASSUME NEW coins, NormalCoins(coins), NEW t \in Txids, HasInputs(coins, t),
           coins[t] = Pruned, NEW h \in Nat \ {0}
    PROVE  LET d == UpdateCoins(coins, t, h).coins
           IN  /\ NormalCoins(d)
               /\ d[t] = CoinsOf(t, h)
               /\ \A i \in DOMAIN TxIn[t] : TxIn[t][i].hash # t
               /\ \A x \in Txids \ {t} : \A m :
                    /\ IsAvailable(d[x], m) <=>
                        IsAvailable(coins[x], m) /\ [hash |-> x, n |-> m] \notin ToSet(TxIn[t])
                    /\ IsAvailable(d[x], m) =>
                        /\ d[x].vout[m] = coins[x].vout[m]
                        /\ d[x].nHeight = coins[x].nHeight
                        /\ d[x].fCoinBase = coins[x].fCoinBase
<1> DEFINE n == Len(TxIn[t])
<1>1. coins \in AllCoins
    BY DEF NormalCoins
<1>2. PICK s : SpendLoop(s, coins, t) /\ UpdateCoins(coins, t, h) = [s[n] EXCEPT !.coins[t] = CoinsOf(t, h)]
    BY <1>1, UpdateLoop
<1>3. n \in Nat /\ n \in 0 .. n /\ DOMAIN TxIn[t] = 1 .. n
    BY InputType
<1>4. ToSet(TxIn[t]) = {TxIn[t][j] : j \in 1 .. n}
    BY <1>3 DEF ToSet
<1>5. Without(s[n].coins, coins, ToSet(TxIn[t]))
    <2>1. SpentAt(s, coins, t, n)
        BY <1>2, <1>3, SpendsAll
    <2> QED
        BY <1>4, <2>1 DEF SpentAt
<1> DEFINE d == UpdateCoins(coins, t, h).coins
           c == s[n].coins
<1>6. s[n] \in SpentType /\ c \in [Txids -> CoinType]
    <2>1. s[n] \in SpentType
        BY <1>2, <1>3 DEF SpendLoop
    <2> QED
        BY <2>1 DEF SpentType, AllCoins
<1>7. d = [c EXCEPT ![t] = CoinsOf(t, h)]
    BY <1>2, <1>6 DEF SpentType
<1>8. Normal(CoinsOf(t, h)) /\ CoinsOf(t, h) \in CoinType
    BY CoinsOfIs DEF Normal
<1> HIDE DEF c, d
<1>9. d \in AllCoins /\ d[t] = CoinsOf(t, h) /\ \A x \in Txids \ {t} : d[x] = c[x]
    BY <1>6, <1>7, <1>8 DEF AllCoins
<1>10. NormalCoins(d)
    BY <1>5, <1>8, <1>9 DEF NormalCoins, Without, c
<1>11. \A i \in DOMAIN TxIn[t] : TxIn[t][i].hash # t
    BY DEF HasInputs, IsAvailable, Pruned
<1>12. ASSUME NEW x \in Txids \ {t}, NEW m
       PROVE  /\ IsAvailable(d[x], m) <=>
                    IsAvailable(coins[x], m) /\ [hash |-> x, n |-> m] \notin ToSet(TxIn[t])
              /\ IsAvailable(d[x], m) =>
                    /\ d[x].vout[m] = coins[x].vout[m]
                    /\ d[x].nHeight = coins[x].nHeight
                    /\ d[x].fCoinBase = coins[x].fCoinBase
    <2>1. d[x] = c[x] /\ x \in Txids
        BY <1>9
    <2> QED
        BY <1>5, <2>1 DEF Without, c
<1> QED
    BY <1>9, <1>10, <1>11, <1>12 DEF d

\* Undoing transaction i of a block with the undo data UpdateCoins made of it takes
\* UpdateCoins back.
LEMMA TxUndone ==
    ASSUME NEW coins, NormalCoins(coins), NEW b \in Blocks, Height[b] \in Nat \ {0},
           NEW i, BlockTxs[b][i] \in Txids, HasInputs(coins, BlockTxs[b][i]),
           coins[BlockTxs[b][i]] = Pruned, NEW vtxundo,
           TxIn[BlockTxs[b][i]] # <<>> =>
                vtxundo[i - 1] = UpdateCoins(coins, BlockTxs[b][i], Height[b]).txundo
    PROVE  DisconnectTx([coins  |-> UpdateCoins(coins, BlockTxs[b][i], Height[b]).coins,
                         fClean |-> TRUE], b, vtxundo, i)
            = [coins |-> coins, fClean |-> TRUE]
<1> DEFINE t == BlockTxs[b][i]
           vin == TxIn[t]
           n == Len(vin)
           h == Height[b]
           u == UpdateCoins(coins, t, h)
           end == [coins |-> u.coins, fClean |-> TRUE]
<1>1. coins \in AllCoins /\ t \in Txids
    BY DEF NormalCoins
<1>p. PICK s : SpendLoop(s, coins, t) /\ u = [s[n] EXCEPT !.coins[t] = CoinsOf(t, h)]
    <2> HIDE DEF t, h
    <2> QED
        BY <1>1, UpdateLoop
<1>2. /\ s \in [0 .. n -> SpentType]
      /\ s[0] = [coins |-> coins, txundo |-> <<>>]
      /\ \A k \in 1 .. n : s[k] = SpendInput(s[k - 1], vin[k])
      /\ u = [s[n] EXCEPT !.coins[t] = CoinsOf(t, h)]
    BY <1>p DEF SpendLoop
<1>3. /\ n \in Nat /\ n \in 0 .. n /\ DOMAIN vin = 1 .. n
      /\ \A k \in 1 .. n : vin[k] \in [hash : Txids, n : Nat \ {0}]
    BY <1>1, InputType
<1>4. \A k \in 0 .. n :
            /\ Without(s[k].coins, coins, {vin[j] : j \in 1 .. k})
            /\ Len(s[k].txundo) = k
            /\ \A j \in 1 .. k : s[k].txundo[j] = SpendUndo(s[j - 1].coins[vin[j].hash], vin[j].n)
            /\ k < n => IsAvailable(s[k].coins[vin[k + 1].hash], vin[k + 1].n)
    <2>1. \A k \in 0 .. n : SpentAt(s, coins, t, k)
        BY <1>1, <1>p, SpendsAll
    <2> QED
        BY <2>1 DEF SpentAt
<1> HIDE DEF u, n, vin, t, h
<1>5. /\ s[n] \in SpentType /\ s[n].coins \in [Txids -> CoinType]
      /\ u.coins = [s[n].coins EXCEPT ![t] = CoinsOf(t, h)] /\ u.txundo = s[n].txundo
    BY <1>2, <1>3 DEF SpentType, AllCoins
<1>6. /\ s[n].coins[t] = Pruned /\ Normal(s[n].coins[t])
    <2>1. \A m : ~IsAvailable(coins[t], m)
        BY DEF t, IsAvailable, Pruned
    <2>2. Without(s[n].coins, coins, {vin[j] : j \in 1 .. n})
        BY <1>3, <1>4
    <2>3. Normal(s[n].coins[t]) /\ \A m : ~IsAvailable(s[n].coins[t], m)
        BY <1>1, <2>1, <2>2 DEF Without, NormalCoins
    <2> QED
        BY <2>3, NormalPruned
<1>7. RemoveOutputs(end, t, h) = [coins |-> s[n].coins, fClean |-> TRUE]
    <2>1. end.coins = u.coins /\ end.fClean = TRUE
        OBVIOUS
    <2>2. end.coins[t] = CoinsOf(t, h)
        BY <1>1, <1>5
    <2>3. [end.coins EXCEPT ![t] = Pruned] = s[n].coins
        BY <1>1, <1>5, <1>6
    <2> HIDE DEF end
    <2> QED
        BY <2>1, <2>2, <2>3 DEF RemoveOutputs
<1> DEFINE back(k) == [coins |-> s[n - k].coins, fClean |-> TRUE]
<1>8. ASSUME NEW k \in 1 .. n
      PROVE  RestoreInput(back(k - 1), vin[n - k + 1], vtxundo[i - 1][n - k + 1]) = back(k)
    <2> DEFINE j == n - k + 1
               x == vin[j].hash
               m == vin[j].n
               c == s[j - 1].coins[x]
    <2>1. j \in 1 .. n /\ j - 1 \in 0 .. n /\ j - 1 < n /\ n - (k - 1) = j /\ n - k = j - 1
          /\ j \in 0 .. n /\ (j - 1) + 1 = j
        BY <1>3
    <2>2. x \in Txids
        BY <1>3, <2>1
    <2>3. /\ NormalCoins(s[j - 1].coins) /\ Normal(c) /\ IsAvailable(c, m)
        BY <1>4, <2>1, <2>2 DEF Without, NormalCoins
    <2>4. s[j].coins = [s[j - 1].coins EXCEPT ![x] = Spend(c, m)]
        <3>1. s[j] = SpendInput(s[j - 1], vin[j])
            BY <1>2, <2>1
        <3> QED
            BY <3>1 DEF SpendInput
    <2>5. vtxundo[i - 1][j] = SpendUndo(c, m)
        <3>1. vin # <<>>
            BY <1>3, <2>1
        <3>2. vtxundo[i - 1] = u.txundo
            BY <3>1 DEF vin, t, u, h
        <3>3. s[n].txundo[j] = SpendUndo(s[j - 1].coins[vin[j].hash], vin[j].n)
            <4> HIDE DEF j
            <4> QED
                BY <1>3, <1>4, <2>1
        <3> QED
            BY <1>5, <3>2, <3>3
    <2> HIDE DEF j, x, m, c
    <2>6. /\ RestoreOutput(Spend(c, m), m, SpendUndo(c, m)) = c
          /\ RestoresCleanly(Spend(c, m), m, SpendUndo(c, m))
        BY <2>3, RestoreIs
    <2>7. s[j - 1].coins \in [Txids -> CoinType]
        BY <2>3 DEF NormalCoins, AllCoins
    <2>8. s[j].coins[x] = Spend(c, m)
        BY <2>2, <2>4, <2>7
    <2>9. [s[j].coins EXCEPT ![x] = RestoreOutput(s[j].coins[x], m, SpendUndo(c, m))] = s[j - 1].coins
        BY <2>2, <2>4, <2>6, <2>7, <2>8 DEF c
    <2>10. RestoreInput([coins |-> s[j].coins, fClean |-> TRUE], vin[j], SpendUndo(c, m))
            = [coins |-> s[j - 1].coins, fClean |-> TRUE]
        BY <2>6, <2>8, <2>9 DEF RestoreInput, x, m
    <2>11. back(k - 1) = [coins |-> s[j].coins, fClean |-> TRUE]
           /\ back(k) = [coins |-> s[j - 1].coins, fClean |-> TRUE]
        BY <2>1
    <2> HIDE DEF back
    <2> QED
        BY <2>5, <2>10, <2>11 DEF j
<1> DEFINE Loop(g) == g = [k \in 0 .. Len(TxIn[t]) |->
                            IF k = 0 THEN RemoveOutputs(end, t, Height[b])
                            ELSE LET j == Len(TxIn[t]) - k + 1
                                 IN  RestoreInput(g[k - 1], TxIn[t][j], vtxundo[i - 1][j])]
           g0 == [k \in 0 .. n |-> back(k)]
           restored == CHOOSE g : Loop(g)
<1>9. DisconnectTx(end, b, vtxundo, i) = restored[n]
    BY DEF DisconnectTx, t, n, vin
<1>10. back(0) = [coins |-> s[n].coins, fClean |-> TRUE]
       /\ back(n) = [coins |-> coins, fClean |-> TRUE]
    <2>1. n - 0 = n /\ n - n = 0
        BY <1>3
    <2>2. s[0].coins = coins
        BY <1>2
    <2> QED
        BY <2>1, <2>2
<1> HIDE DEF back, end
<1>11. Loop(g0)
    <2>1. \A k \in 1 .. n : g0[k - 1] = back(k - 1) /\ k # 0 /\ k - 1 \in 0 .. n
        BY <1>3
    <2>2. g0 = [k \in 0 .. n |-> IF k = 0 THEN RemoveOutputs(end, t, h)
                                 ELSE RestoreInput(g0[k - 1], vin[n - k + 1], vtxundo[i - 1][n - k + 1])]
        BY <1>3, <1>7, <1>8, <1>10, <2>1
    <2> HIDE DEF g0
    <2> QED
        BY <2>2 DEF n, vin, h
<1> HIDE DEF g0
<1>12. Loop(restored)
    BY <1>11 DEF restored
<1> HIDE DEF restored
<1>13. restored = [k \in 0 .. n |-> IF k = 0 THEN RemoveOutputs(end, t, h)
                                 ELSE RestoreInput(restored[k - 1], vin[n - k + 1], vtxundo[i - 1][n - k + 1])]
    BY <1>12 DEF n, vin, h
<1> HIDE DEF Loop
<1>14. restored[0] = back(0) /\ \A k \in 1 .. n : restored[k - 1] = back(k - 1) => restored[k] = back(k)
    <2>1. 0 \in 0 .. n
        BY <1>3
    <2>2. restored[0] = RemoveOutputs(end, t, h)
        BY <1>13, <2>1
    <2>3. ASSUME NEW k \in 1 .. n, restored[k - 1] = back(k - 1) PROVE restored[k] = back(k)
        <3>1. k \in 0 .. n /\ k # 0
            BY <1>3
        <3>2. restored[k] = RestoreInput(restored[k - 1], vin[n - k + 1], vtxundo[i - 1][n - k + 1])
            BY <1>13, <3>1
        <3> QED
            BY <1>8, <2>3, <3>2
    <2> QED
        BY <1>7, <1>10, <2>2, <2>3
<1>15. g0[0] = back(0) /\ \A k \in 1 .. n : g0[k] = back(k) /\ g0[k - 1] = back(k - 1)
    BY <1>3 DEF g0
<1>16. \A k \in 0 .. n : restored[k] = g0[k]
    <2>1. Follows(restored, g0, n)
        BY <1>14, <1>15 DEF Follows
    <2> QED
        BY <1>3, <2>1, LoopIs
<1>17. restored[n] = back(n)
    BY <1>3, <1>16 DEF g0
<1> QED
    BY <1>9, <1>10, <1>17 DEF t, u, h, end

-----------------------------------------------------------------------------
\* The outputs coins make available

\* The output m of t in coins, as Utxo has it.
Out(coins, t, m) ==
    [hash |-> t, n |-> m,
     nValue |-> coins[t].vout[m].nValue, fP2SH |-> coins[t].vout[m].fP2SH,
     nHeight |-> coins[t].nHeight, fCoinBase |-> coins[t].fCoinBase]

\* Unspent has the available outputs of each transaction.
LEMMA UnspentIs ==
    ASSUME NEW coins \in AllCoins, NEW out
    PROVE  out \in Unspent(coins) <=>
                \E t \in Txids : \E m \in Nat : IsAvailable(coins[t], m) /\ out = Out(coins, t, m)
<1>1. DOMAIN coins = Txids /\ \A t \in Txids : coins[t].vout \in Vouts
    BY DEF AllCoins, CoinType
<1>2. \A t \in Txids : DOMAIN coins[t].vout \subseteq Nat
    BY <1>1 DEF Vouts
<1>3. \A t \in Txids, m \in Nat : IsAvailable(coins[t], m) => m \in DOMAIN coins[t].vout
    BY DEF IsAvailable
<1> QED
    BY <1>1, <1>2, <1>3 DEF Unspent, Out

\* The point of an unspent output determines it.
LEMMA UnspentAt ==
    ASSUME NEW coins \in AllCoins, NEW t \in Txids, NEW m \in Nat
    PROVE  /\ IsAvailable(coins[t], m) => Out(coins, t, m) \in Unspent(coins)
           /\ \A out \in Unspent(coins) :
                [hash |-> out.hash, n |-> out.n] = [hash |-> t, n |-> m] =>
                    IsAvailable(coins[t], m) /\ out = Out(coins, t, m)
<1>1. IsAvailable(coins[t], m) => Out(coins, t, m) \in Unspent(coins)
    BY UnspentIs
<1>2. ASSUME NEW out \in Unspent(coins),
             [hash |-> out.hash, n |-> out.n] = [hash |-> t, n |-> m]
      PROVE  IsAvailable(coins[t], m) /\ out = Out(coins, t, m)
    <2>1. PICK x \in Txids : \E y \in Nat : IsAvailable(coins[x], y) /\ out = Out(coins, x, y)
        BY UnspentIs
    <2>2. PICK y \in Nat : IsAvailable(coins[x], y) /\ out = Out(coins, x, y)
        BY <2>1
    <2>3. out.hash = x /\ out.n = y
        BY <2>2 DEF Out
    <2>4. out.hash = t /\ out.n = m
        BY <1>2
    <2> QED
        BY <2>2, <2>3, <2>4
<1> QED
    BY <1>1, <1>2

\* A point of TxIn.
LEMMA InputsAre ==
    ASSUME NEW t \in Txids
    PROVE  /\ \A i \in DOMAIN TxIn[t] :
                /\ TxIn[t][i] \in ToSet(TxIn[t]) /\ TxIn[t][i].hash \in Txids
                /\ TxIn[t][i].n \in Nat
                /\ TxIn[t][i] = [hash |-> TxIn[t][i].hash, n |-> TxIn[t][i].n]
           /\ \A in \in ToSet(TxIn[t]) : \E i \in DOMAIN TxIn[t] : in = TxIn[t][i]
BY InputType DEF ToSet

\* HaveInputs succeeds when every prevout names an output of Unspent.
LEMMA HasInputsIs ==
    ASSUME NEW coins \in AllCoins, NEW t \in Txids
    PROVE  HasInputs(coins, t) <=>
                \A in \in ToSet(TxIn[t]) :
                    \E out \in InputsOf(Unspent(coins), t) : [hash |-> out.hash, n |-> out.n] = in
<1>1. ASSUME HasInputs(coins, t), NEW in \in ToSet(TxIn[t])
      PROVE  \E out \in InputsOf(Unspent(coins), t) : [hash |-> out.hash, n |-> out.n] = in
    <2>1. PICK i \in DOMAIN TxIn[t] : in = TxIn[t][i]
        BY InputsAre
    <2>2. /\ in.hash \in Txids /\ in.n \in Nat /\ in = [hash |-> in.hash, n |-> in.n]
          /\ IsAvailable(coins[in.hash], in.n)
        BY <1>1, <2>1, InputsAre DEF HasInputs
    <2> DEFINE out == Out(coins, in.hash, in.n)
    <2>3. out \in Unspent(coins)
        BY <2>2, UnspentAt
    <2>4. [hash |-> out.hash, n |-> out.n] = in
        BY <2>2 DEF Out
    <2> QED
        BY <2>3, <2>4 DEF InputsOf
<1>2. ASSUME \A in \in ToSet(TxIn[t]) :
                \E out \in InputsOf(Unspent(coins), t) : [hash |-> out.hash, n |-> out.n] = in,
             NEW i \in DOMAIN TxIn[t]
      PROVE  IsAvailable(coins[TxIn[t][i].hash], TxIn[t][i].n)
    <2>1. TxIn[t][i] \in ToSet(TxIn[t]) /\ TxIn[t][i].hash \in Txids /\ TxIn[t][i].n \in Nat
          /\ TxIn[t][i] = [hash |-> TxIn[t][i].hash, n |-> TxIn[t][i].n]
        BY InputsAre
    <2>2. PICK out \in Unspent(coins) : [hash |-> out.hash, n |-> out.n] = TxIn[t][i]
        BY <1>2, <2>1 DEF InputsOf
    <2> QED
        BY <2>1, <2>2, UnspentAt
<1> QED
    BY <1>1, <1>2 DEF HasInputs

\* What an input names is the output of Unspent at its point.
LEMMA SourceIs ==
    ASSUME NEW coins \in AllCoins, NEW t \in Txids, HasInputs(coins, t), NEW i \in DOMAIN TxIn[t]
    PROVE  LET from == OutputFor(coins, TxIn[t][i])
               out == Source(Unspent(coins), TxIn[t][i])
           IN  from \in CTxOut /\ out.nValue = from.nValue /\ out.fP2SH = from.fP2SH
<1> DEFINE x == TxIn[t][i].hash
           m == TxIn[t][i].n
           out == Source(Unspent(coins), TxIn[t][i])
<1>1. /\ x \in Txids /\ m \in Nat /\ TxIn[t][i] = [hash |-> x, n |-> m]
      /\ IsAvailable(coins[x], m) /\ OutputFor(coins, TxIn[t][i]) = coins[x].vout[m]
    BY InputsAre DEF HasInputs, OutputFor
<1> HIDE DEF x, m
<1>2. Out(coins, x, m) \in Unspent(coins)
      /\ [hash |-> Out(coins, x, m).hash, n |-> Out(coins, x, m).n] = TxIn[t][i]
    BY <1>1, UnspentAt DEF Out
<1>3. out \in Unspent(coins) /\ [hash |-> out.hash, n |-> out.n] = TxIn[t][i]
    BY <1>2 DEF Source
<1>4. out = Out(coins, x, m)
    BY <1>1, <1>3, UnspentAt
<1>5. out.nValue = coins[x].vout[m].nValue /\ out.fP2SH = coins[x].vout[m].fP2SH
    BY <1>4 DEF Out
<1>6. coins[x].vout[m] \in CTxOut
    <2>1. coins[x] \in CoinType
        BY <1>1 DEF AllCoins
    <2> QED
        BY <1>1, <2>1, AvailableIs
<1> QED
    BY <1>1, <1>5, <1>6

\* What the outputs of a transaction pay.
LEMMA OutValues ==
    ASSUME NEW t \in Txids
    PROVE  [m \in DOMAIN TxOut[t] |-> TxOut[t][m].nValue] \in Seq(Nat)
<1>1. TxOut[t] \in Seq(CTxOut)
    BY TransactionAssumption DEF TransactionAssumption
<1>2. Len(TxOut[t]) \in Nat /\ DOMAIN TxOut[t] = 1 .. Len(TxOut[t])
      /\ \A m \in 1 .. Len(TxOut[t]) : TxOut[t][m] \in CTxOut
    BY <1>1
<1>3. \A m \in 1 .. Len(TxOut[t]) : TxOut[t][m].nValue \in Nat
    BY <1>2, NotNull
<1> QED
    BY <1>2, <1>3

\* What the inputs are worth, and so the fee.
LEMMA ValueInIs ==
    ASSUME NEW coins \in AllCoins, NEW t \in Txids, HasInputs(coins, t)
    PROVE  /\ Spent(Unspent(coins), t) = ValueIn(coins, t)
           /\ Fee(Unspent(coins), t) = ValueIn(coins, t) - ValueOut(t)
           /\ ValueIn(coins, t) \in Int /\ ValueOut(t) \in Int
           /\ Fee(Unspent(coins), t) \in Int
<1> DEFINE vin == TxIn[t]
           values == [i \in DOMAIN vin |-> OutputFor(coins, vin[i]).nValue]
           sources == [i \in DOMAIN vin |-> Source(Unspent(coins), vin[i]).nValue]
           outs == [m \in DOMAIN TxOut[t] |-> TxOut[t][m].nValue]
<1>1. ASSUME NEW i \in DOMAIN vin
      PROVE  /\ Source(Unspent(coins), vin[i]).nValue = OutputFor(coins, vin[i]).nValue
             /\ OutputFor(coins, vin[i]).nValue \in Int
    BY SourceIs, NotNull
<1>2. sources = values
    BY <1>1
<1>3. values \in Seq(Int) /\ outs \in Seq(Int)
    <2>1. DOMAIN vin = 1 .. Len(vin) /\ Len(vin) \in Nat
        BY InputType
    <2>2. outs \in Seq(Nat)
        BY OutValues
    <2> HIDE DEF outs
    <2>3. outs \in Seq(Int)
        BY <2>2
    <2>4. \A i \in 1 .. Len(vin) : values[i] \in Int
        BY <1>1, <2>1
    <2>5. values \in [1 .. Len(vin) -> Int]
        BY <2>1, <2>4
    <2> HIDE DEF values
    <2> QED
        BY <2>1, <2>3, <2>5
<1>4. /\ ValueIn(coins, t) = Sum(values) /\ ValueOut(t) = Sum(outs)
      /\ Spent(Unspent(coins), t) = Sum(sources)
      /\ Fee(Unspent(coins), t) = Sum(sources) - Sum(outs)
    BY DEF ValueIn, ValueOut, Fee, Spent
<1>5. ASSUME NEW v \in Seq(Int) PROVE Sum(v) \in Int
    <2>1. PICK total \in [0 .. Len(v) -> Int] : Sum(v) = total[Len(v)]
        BY SumLoop
    <2> QED
        BY <2>1
<1> HIDE DEF values, sources, outs
<1> QED
    BY <1>2, <1>3, <1>4, <1>5

\* The operations in the scripts that some inputs of a transaction redeem.
LEMMA RedeemedIs ==
    ASSUME NEW t \in Txids, NEW redeems
    PROVE  Sum([i \in DOMAIN TxIn[t] |-> IF i \in redeems THEN RedeemSigOps[t][i] ELSE 0]) \in Nat
<1> DEFINE count == [i \in DOMAIN TxIn[t] |-> IF i \in redeems THEN RedeemSigOps[t][i] ELSE 0]
<1>1. /\ RedeemSigOps[t] \in Seq(Nat) /\ DOMAIN RedeemSigOps[t] = DOMAIN TxIn[t]
      /\ Len(TxIn[t]) \in Nat /\ DOMAIN TxIn[t] = 1 .. Len(TxIn[t])
    BY InputType, TransactionAssumption DEF TransactionAssumption
<1>2. \A i \in 1 .. Len(TxIn[t]) : RedeemSigOps[t][i] \in Nat
    BY <1>1
<1>3. count \in Seq(Nat)
    BY <1>1, <1>2
<1> HIDE DEF count
<1>4. Sum(count) \in Nat
    BY <1>3, SumNat
<1> QED
    BY <1>4 DEF count

\* The signature operations ConnectBlock counts for a transaction are the ones it costs.
LEMMA SigOpsIs ==
    ASSUME NEW coins \in AllCoins, NEW t \in Txids, HasInputs(coins, t)
    PROVE  SigOpCost(Unspent(coins), t) = SigOps[t] + GetP2SHSigOpCount(coins, t)
<1>1. \A i \in DOMAIN TxIn[t] :
        Source(Unspent(coins), TxIn[t][i]).fP2SH = OutputFor(coins, TxIn[t][i]).fP2SH
    BY SourceIs
<1>2. [i \in DOMAIN TxIn[t] |->
            IF Source(Unspent(coins), TxIn[t][i]).fP2SH THEN RedeemSigOps[t][i] ELSE 0]
        = [i \in DOMAIN TxIn[t] |->
            IF OutputFor(coins, TxIn[t][i]).fP2SH THEN RedeemSigOps[t][i] ELSE 0]
    BY <1>1
<1> QED
    BY <1>2 DEF SigOpCost, GetP2SHSigOpCount

\* Neither is ever negative.
LEMMA SigOpsType ==
    ASSUME NEW t \in Txids
    PROVE  /\ SigOps[t] \in Nat
           /\ \A coins : GetP2SHSigOpCount(coins, t) \in Nat
           /\ \A unspent : SigOpCost(unspent, t) \in Nat
<1>1. SigOps[t] \in Nat
    BY TransactionAssumption DEF TransactionAssumption
<1>2. ASSUME NEW coins PROVE GetP2SHSigOpCount(coins, t) \in Nat
    <2> DEFINE redeems == {i \in DOMAIN TxIn[t] : OutputFor(coins, TxIn[t][i]).fP2SH}
    <2>1. [i \in DOMAIN TxIn[t] |->
                IF OutputFor(coins, TxIn[t][i]).fP2SH THEN RedeemSigOps[t][i] ELSE 0]
            = [i \in DOMAIN TxIn[t] |-> IF i \in redeems THEN RedeemSigOps[t][i] ELSE 0]
        OBVIOUS
    <2> HIDE DEF redeems
    <2> QED
        BY <2>1, RedeemedIs DEF GetP2SHSigOpCount
<1>3. ASSUME NEW unspent PROVE SigOpCost(unspent, t) \in Nat
    <2> DEFINE redeems == {i \in DOMAIN TxIn[t] : Source(unspent, TxIn[t][i]).fP2SH}
               count == [i \in DOMAIN TxIn[t] |-> IF i \in redeems THEN RedeemSigOps[t][i] ELSE 0]
    <2>1. [i \in DOMAIN TxIn[t] |->
                IF Source(unspent, TxIn[t][i]).fP2SH THEN RedeemSigOps[t][i] ELSE 0] = count
        OBVIOUS
    <2>2. SigOpCost(unspent, t) = SigOps[t] + Sum(count)
        BY <2>1 DEF SigOpCost
    <2> HIDE DEF redeems
    <2>3. Sum(count) \in Nat
        BY RedeemedIs
    <2> HIDE DEF count
    <2> QED
        BY <1>1, <2>2, <2>3
<1> QED
    BY <1>1, <1>2, <1>3

\* CheckInputs asks of t what the rules do.
LEMMA CheckInputsIs ==
    ASSUME NEW coins \in AllCoins, NEW t \in Txids, NEW b \in Blocks
    PROVE  /\ CheckInputs(coins, t, Height[b]) => HasInputs(coins, t)
           /\ CheckInputs(coins, t, Height[b]) /\ t \notin BadScripts <=>
                ValidSpend(Unspent(coins), b, t)
<1> DEFINE ins == InputsOf(Unspent(coins), t)
           Mature1 == \A i \in DOMAIN TxIn[t] :
                        coins[TxIn[t][i].hash].fCoinBase =>
                            Height[b] - coins[TxIn[t][i].hash].nHeight >= COINBASE_MATURITY
           Mature2 == \A out \in ins : out.fCoinBase => Height[b] - out.nHeight >= COINBASE_MATURITY
<1>1. CheckInputs(coins, t, Height[b]) <=>
        /\ HasInputs(coins, t) /\ Mature1
        /\ ValueIn(coins, t) <= MAX_MONEY /\ ValueIn(coins, t) - ValueOut(t) >= MIN_TX_FEE
    BY DEF CheckInputs, HasInputs
<1>2. ValidSpend(Unspent(coins), b, t) <=>
        /\ HasInputs(coins, t) /\ Mature2 /\ Spent(Unspent(coins), t) <= MAX_MONEY
        /\ Fee(Unspent(coins), t) >= MIN_TX_FEE /\ t \notin BadScripts
    BY HasInputsIs DEF ValidSpend
<1>3. ASSUME HasInputs(coins, t), Mature1, NEW out \in ins, out.fCoinBase
      PROVE  Height[b] - out.nHeight >= COINBASE_MATURITY
    <2>1. out \in Unspent(coins) /\ [hash |-> out.hash, n |-> out.n] \in ToSet(TxIn[t])
        BY DEF InputsOf
    <2>2. PICK i \in DOMAIN TxIn[t] : [hash |-> out.hash, n |-> out.n] = TxIn[t][i]
        BY <2>1, InputsAre
    <2>3. /\ TxIn[t][i].hash \in Txids /\ TxIn[t][i].n \in Nat
          /\ TxIn[t][i] = [hash |-> TxIn[t][i].hash, n |-> TxIn[t][i].n]
        BY InputsAre
    <2>4. out = Out(coins, TxIn[t][i].hash, TxIn[t][i].n)
        BY <2>1, <2>2, <2>3, UnspentAt
    <2>5. out.nHeight = coins[TxIn[t][i].hash].nHeight
          /\ out.fCoinBase = coins[TxIn[t][i].hash].fCoinBase
        BY <2>4 DEF Out
    <2> QED
        BY <1>3, <2>5
<1>4. ASSUME HasInputs(coins, t), Mature2, NEW i \in DOMAIN TxIn[t],
             coins[TxIn[t][i].hash].fCoinBase
      PROVE  Height[b] - coins[TxIn[t][i].hash].nHeight >= COINBASE_MATURITY
    <2> DEFINE out == Out(coins, TxIn[t][i].hash, TxIn[t][i].n)
    <2>1. /\ TxIn[t][i].hash \in Txids /\ TxIn[t][i].n \in Nat
          /\ TxIn[t][i] = [hash |-> TxIn[t][i].hash, n |-> TxIn[t][i].n]
          /\ TxIn[t][i] \in ToSet(TxIn[t])
          /\ IsAvailable(coins[TxIn[t][i].hash], TxIn[t][i].n)
        BY <1>4, InputsAre DEF HasInputs
    <2>2. out \in Unspent(coins)
        BY <2>1, UnspentAt
    <2>3. out.hash = TxIn[t][i].hash /\ out.n = TxIn[t][i].n
          /\ out.nHeight = coins[TxIn[t][i].hash].nHeight
          /\ out.fCoinBase = coins[TxIn[t][i].hash].fCoinBase
        BY DEF Out
    <2> HIDE DEF out
    <2>4. out \in ins
        BY <2>1, <2>2, <2>3 DEF InputsOf
    <2> QED
        BY <1>4, <2>3, <2>4
<1> HIDE DEF Mature1, Mature2
<1>5. HasInputs(coins, t) => (Mature1 <=> Mature2)
    <2> USE DEF Mature1, Mature2
    <2> HIDE DEF ins
    <2> QED
        BY <1>3, <1>4
<1> QED
    BY <1>1, <1>2, <1>5, ValueInIs

\* Normal coins with the same outputs are the same.
LEMMA NormalEqual ==
    ASSUME NEW c, NEW d, Normal(c), Normal(d),
           \A m : IsAvailable(c, m) <=> IsAvailable(d, m),
           \A m : IsAvailable(c, m) =>
                /\ c.vout[m] = d.vout[m]
                /\ c.nHeight = d.nHeight /\ c.fCoinBase = d.fCoinBase
    PROVE  c = d
<1>1. CASE c = Pruned \/ d = Pruned
    BY <1>1, NormalPruned
<1>2. CASE c # Pruned /\ d # Pruned
    <2>1. /\ c \in CoinType /\ c.vout \in Vouts /\ c.vout # <<>>
          /\ c.vout[Len(c.vout)] # NullOut
          /\ d \in CoinType /\ d.vout \in Vouts /\ d.vout # <<>>
          /\ d.vout[Len(d.vout)] # NullOut
        BY <1>2 DEF Normal, CoinType
    <2>2. /\ DOMAIN c.vout = 1 .. Len(c.vout) /\ Len(c.vout) \in Nat \ {0}
          /\ DOMAIN d.vout = 1 .. Len(d.vout) /\ Len(d.vout) \in Nat \ {0}
          /\ \A m \in 1 .. Len(c.vout) : c.vout[m] \in CTxOut \cup {NullOut}
          /\ \A m \in 1 .. Len(d.vout) : d.vout[m] \in CTxOut \cup {NullOut}
        BY <2>1 DEF Vouts
    <2>3. IsAvailable(c, Len(c.vout)) /\ IsAvailable(d, Len(d.vout))
        BY <2>1, <2>2 DEF IsAvailable
    <2>4. Len(c.vout) = Len(d.vout)
        <3>1. Len(c.vout) \in 1 .. Len(d.vout) /\ Len(d.vout) \in 1 .. Len(c.vout)
            BY <2>2, <2>3 DEF IsAvailable
        <3> QED
            BY <2>2, <3>1
    <2>5. \A m \in 1 .. Len(c.vout) : c.vout[m] = d.vout[m]
        BY <2>2, <2>4 DEF IsAvailable
    <2>6. c.vout = d.vout
        <3>1. c.vout \in [1 .. Len(c.vout) -> CTxOut \cup {NullOut}]
              /\ d.vout \in [1 .. Len(c.vout) -> CTxOut \cup {NullOut}]
            BY <2>1, <2>4 DEF Vouts
        <3> QED
            BY <2>5, <3>1
    <2>7. c.nHeight = d.nHeight /\ c.fCoinBase = d.fCoinBase
        BY <2>3
    <2> QED
        BY <2>1, <2>6, <2>7 DEF CoinType
<1> QED
    BY <1>1, <1>2

\* So the unspent outputs determine the coins.
LEMMA UnspentDetermines ==
    ASSUME NEW c, NEW d, NormalCoins(c), NormalCoins(d), NEW t \in Txids,
           \A out : out.hash = t => (out \in Unspent(c) <=> out \in Unspent(d))
    PROVE  c[t] = d[t]
<1>1. c \in AllCoins /\ d \in AllCoins /\ Normal(c[t]) /\ Normal(d[t])
    BY DEF NormalCoins
<1>2. ASSUME NEW x \in AllCoins, NEW y \in AllCoins, NEW m, IsAvailable(x[t], m),
             \A out : out.hash = t /\ out \in Unspent(x) => out \in Unspent(y)
      PROVE  IsAvailable(y[t], m) /\ Out(x, t, m) = Out(y, t, m)
    <2>1. x[t].vout \in Vouts
        BY DEF AllCoins, CoinType
    <2>2. m \in Nat
        BY <1>2, <2>1 DEF IsAvailable, Vouts
    <2>3. Out(x, t, m) \in Unspent(x) /\ Out(x, t, m).hash = t /\ Out(x, t, m).n = m
        BY <1>2, <2>2, UnspentAt DEF Out
    <2>4. Out(x, t, m) \in Unspent(y)
        BY <1>2, <2>3
    <2> QED
        BY <2>2, <2>3, <2>4, UnspentAt
<1>3. \A m : IsAvailable(c[t], m) <=> IsAvailable(d[t], m)
    BY <1>1, <1>2
<1>4. ASSUME NEW m, IsAvailable(c[t], m)
      PROVE  /\ c[t].vout[m] = d[t].vout[m]
             /\ c[t].nHeight = d[t].nHeight /\ c[t].fCoinBase = d[t].fCoinBase
    <2>1. Out(c, t, m) = Out(d, t, m)
        BY <1>1, <1>2, <1>4
    <2>2. /\ c[t].vout[m].nValue = d[t].vout[m].nValue /\ c[t].vout[m].fP2SH = d[t].vout[m].fP2SH
          /\ c[t].nHeight = d[t].nHeight /\ c[t].fCoinBase = d[t].fCoinBase
        BY <2>1 DEF Out
    <2>3. c[t].vout[m] \in CTxOut /\ d[t].vout[m] \in CTxOut
        BY <1>1, <1>3, <1>4, AvailableIs DEF Normal
    <2>4. c[t].vout[m] = d[t].vout[m]
        BY <2>2, <2>3 DEF CTxOut
    <2> QED
        BY <2>2, <2>4
<1> QED
    BY <1>1, <1>3, <1>4, NormalEqual

\* The outputs UpdateCoins leaves.
LEMMA UpdateUnspent ==
    ASSUME NEW coins, NormalCoins(coins), NEW t \in Txids, HasInputs(coins, t),
           coins[t] = Pruned, NEW h \in Nat \ {0}
    PROVE  Unspent(UpdateCoins(coins, t, h).coins)
            = {out \in Unspent(coins) : [hash |-> out.hash, n |-> out.n] \notin ToSet(TxIn[t])}
                \cup OutputsOf(t, h)
<1> DEFINE d == UpdateCoins(coins, t, h).coins
           Kept == {out \in Unspent(coins) : [hash |-> out.hash, n |-> out.n] \notin ToSet(TxIn[t])}
<1>1. /\ NormalCoins(d)
      /\ d[t] = CoinsOf(t, h)
      /\ \A x \in Txids \ {t} : \A m :
           /\ IsAvailable(d[x], m) <=>
                IsAvailable(coins[x], m) /\ [hash |-> x, n |-> m] \notin ToSet(TxIn[t])
           /\ IsAvailable(d[x], m) =>
                /\ d[x].vout[m] = coins[x].vout[m]
                /\ d[x].nHeight = coins[x].nHeight
                /\ d[x].fCoinBase = coins[x].fCoinBase
    BY UpdateIs
<1> HIDE DEF d
<1>2. d \in AllCoins /\ coins \in AllCoins
    BY <1>1 DEF NormalCoins
<1>3. /\ CoinsOf(t, h).vout = TxOut[t] /\ CoinsOf(t, h).nHeight = h
      /\ CoinsOf(t, h).fCoinBase = IsCoinBase(t)
      /\ \A m : IsAvailable(CoinsOf(t, h), m) <=> m \in DOMAIN TxOut[t]
      /\ DOMAIN TxOut[t] \subseteq Nat
    <2>1. TxOut[t] \in Seq(CTxOut)
        BY TransactionAssumption DEF TransactionAssumption
    <2> QED
        BY <2>1, CoinsOfIs
<1>4. \A m : Out(d, t, m) = [hash |-> t, n |-> m,
                             nValue |-> TxOut[t][m].nValue, fP2SH |-> TxOut[t][m].fP2SH,
                             nHeight |-> h, fCoinBase |-> IsCoinBase(t)]
    BY <1>1, <1>3 DEF Out
<1>5. \A x \in Txids \ {t} : \A m : IsAvailable(d[x], m) => Out(d, x, m) = Out(coins, x, m)
    BY <1>1 DEF Out
<1>6. ASSUME NEW out \in Unspent(d) PROVE out \in Kept \cup OutputsOf(t, h)
    <2>1. PICK x \in Txids : \E m \in Nat : IsAvailable(d[x], m) /\ out = Out(d, x, m)
        BY <1>2, UnspentIs
    <2>2. PICK m \in Nat : IsAvailable(d[x], m) /\ out = Out(d, x, m)
        BY <2>1
    <2>3. CASE x = t
        BY <1>1, <1>3, <1>4, <2>2, <2>3 DEF OutputsOf
    <2>4. CASE x # t
        <3>1. out = Out(coins, x, m) /\ IsAvailable(coins[x], m)
              /\ [hash |-> x, n |-> m] \notin ToSet(TxIn[t])
            BY <1>1, <1>5, <2>2, <2>4
        <3>2. out \in Unspent(coins) /\ out.hash = x /\ out.n = m
            BY <1>2, <3>1, UnspentAt DEF Out
        <3> QED
            BY <3>1, <3>2
    <2> QED
        BY <2>3, <2>4
<1>7. ASSUME NEW out \in Kept PROVE out \in Unspent(d)
    <2>1. PICK x \in Txids : \E m \in Nat : IsAvailable(coins[x], m) /\ out = Out(coins, x, m)
        BY <1>2, UnspentIs
    <2>2. PICK m \in Nat : IsAvailable(coins[x], m) /\ out = Out(coins, x, m)
        BY <2>1
    <2>3. x # t
        BY <2>2 DEF IsAvailable, Pruned
    <2>4. out.hash = x /\ out.n = m
        BY <2>2 DEF Out
    <2>5. IsAvailable(d[x], m)
        BY <1>1, <1>7, <2>2, <2>3, <2>4
    <2>6. out = Out(d, x, m)
        BY <1>5, <2>2, <2>3, <2>5
    <2> QED
        BY <1>2, <2>5, <2>6, UnspentAt
<1>8. ASSUME NEW out \in OutputsOf(t, h) PROVE out \in Unspent(d)
    <2>1. PICK m \in DOMAIN TxOut[t] : out = Out(d, t, m)
        BY <1>4 DEF OutputsOf
    <2>2. IsAvailable(d[t], m) /\ m \in Nat
        BY <1>1, <1>3
    <2> QED
        BY <1>2, <2>1, <2>2, UnspentAt
<1> QED
    BY <1>6, <1>7, <1>8 DEF d

\* One more transaction of the block, when no input names its outputs.
LEMMA AfterOneMore ==
    ASSUME NEW unspent, NEW b, NEW ts, NEW t,
           \A in \in Points(ts) \cup ToSet(TxIn[t]) : in.hash # t
    PROVE  After(unspent, b, ts \cup {t})
            = {out \in After(unspent, b, ts) : [hash |-> out.hash, n |-> out.n] \notin ToSet(TxIn[t])}
                \cup OutputsOf(t, Height[b])
<1>1. UNION {OutputsOf(x, Height[b]) : x \in ts \cup {t}}
        = (UNION {OutputsOf(x, Height[b]) : x \in ts}) \cup OutputsOf(t, Height[b])
    OBVIOUS
<1>2. Points(ts \cup {t}) = Points(ts) \cup ToSet(TxIn[t])
    BY DEF Points
<1>3. \A out \in OutputsOf(t, Height[b]) : out.hash = t
    BY DEF OutputsOf
<1>4. \A out \in OutputsOf(t, Height[b]) :
        [hash |-> out.hash, n |-> out.n] \notin Points(ts) \cup ToSet(TxIn[t])
    BY <1>3
<1> QED
    BY <1>1, <1>2, <1>4 DEF After

-----------------------------------------------------------------------------
\* The loop over the transactions of a block

\* A block has transactions, all different, and the first alone is its coinbase.
LEMMA BlockIs ==
    ASSUME NEW b \in Blocks \ {Genesis}
    PROVE  LET vtx == BlockTxs[b]
           IN  /\ Len(vtx) \in Nat \ {0} /\ DOMAIN vtx = 1 .. Len(vtx)
               /\ \A i \in 1 .. Len(vtx) : vtx[i] \in Txids /\ (IsCoinBase(vtx[i]) <=> i = 1)
               /\ \A i, j \in 1 .. Len(vtx) : vtx[i] = vtx[j] => i = j
               /\ Height[b] \in Nat \ {0}
<1>1. /\ BlockTxs[b] \in Seq(Txids) /\ BlockTxs[b] # <<>> /\ IsInjective(BlockTxs[b])
      /\ \A i \in DOMAIN BlockTxs[b] : TxIn[BlockTxs[b][i]] = <<>> <=> i = 1
    BY TransactionAssumption DEF TransactionAssumption
<1>2. Height[b] \in Nat \ {0}
    BY ParentBelow, BlockTreeAssumption DEF BlockTreeAssumption
<1>3. Len(BlockTxs[b]) \in Nat \ {0} /\ DOMAIN BlockTxs[b] = 1 .. Len(BlockTxs[b])
    BY <1>1
<1>4. \A i \in 1 .. Len(BlockTxs[b]) : BlockTxs[b][i] \in Txids
    BY <1>1, <1>3
<1> QED
    BY <1>1, <1>2, <1>3, <1>4 DEF IsCoinBase, IsInjective

FirstTxs(b, i) == {BlockTxs[b][j] : j \in 1 .. i}

\* s is the state of ConnectBlock's loop with the first i transactions of b connected.
HasConnected(s, coins, b, i) ==
    /\ s.fOk /\ s.nSigOps \in Nat
    /\ NormalCoins(s.coins)
    /\ Unspent(s.coins) = After(Unspent(coins), b, FirstTxs(b, i))
    /\ \A j \in i + 1 .. Len(BlockTxs[b]) :
        /\ s.coins[BlockTxs[b][j]] = Pruned
        /\ \A in \in Points(FirstTxs(b, i)) : in.hash # BlockTxs[b][j]

\* What the count of signature operations comes to with t.
SigOpsWith(s, t) == s.nSigOps + SigOps[t] + GetP2SHSigOpCount(s.coins, t)

\* Transaction i of b passes in state s.
Passes(s, b, i) ==
    /\ i = 1 \/ CheckInputs(s.coins, BlockTxs[b][i], Height[b])
    /\ SigOpsWith(s, BlockTxs[b][i]) <= MAX_BLOCK_SIGOPS

\* One turn of the loop.
LEMMA ConnectTxIs ==
    ASSUME NEW b \in Blocks \ {Genesis}, NEW coins, NEW s,
           NEW i \in 1 .. Len(BlockTxs[b]), HasConnected(s, coins, b, i - 1)
    PROVE  LET t == BlockTxs[b][i]
               e == ConnectTx(s, t, Height[b])
           IN  /\ e.fOk \in BOOLEAN
               /\ e.fOk <=> Passes(s, b, i)
               /\ e.fOk =>
                    /\ HasConnected(e, coins, b, i)
                    /\ e.nSigOps = SigOpsWith(s, t)
                    /\ HasInputs(s.coins, t) /\ s.coins[t] = Pruned /\ NormalCoins(s.coins)
                    /\ e.coins = UpdateCoins(s.coins, t, Height[b]).coins
                    /\ e.vtxundo = IF i = 1 THEN s.vtxundo
                                   ELSE Append(s.vtxundo, UpdateCoins(s.coins, t, Height[b]).txundo)
                    /\ e.nFees = IF i = 1 THEN s.nFees
                                 ELSE s.nFees + ValueIn(s.coins, t) - ValueOut(t)
<1> DEFINE t == BlockTxs[b][i]
           h == Height[b]
           n == Len(BlockTxs[b])
           e == ConnectTx(s, t, h)
           u == UpdateCoins(s.coins, t, h)
<1>1. /\ n \in Nat \ {0} /\ \A j \in 1 .. n : BlockTxs[b][j] \in Txids
      /\ \A j, k \in 1 .. n : BlockTxs[b][j] = BlockTxs[b][k] => j = k
      /\ t \in Txids /\ h \in Nat \ {0} /\ (IsCoinBase(t) <=> i = 1) /\ b \in Blocks
      /\ i \in Nat /\ i - 1 \in Nat /\ i \in (i - 1) + 1 .. n
    BY BlockIs
<1>2. s.fOk /\ NormalCoins(s.coins) /\ s.coins[t] = Pruned /\ s.coins \in AllCoins
    BY <1>1 DEF HasConnected, NormalCoins
<1> HIDE DEF t, h, n
<1> DEFINE pass == /\ i = 1 \/ CheckInputs(s.coins, t, h)
                   /\ SigOpsWith(s, t) <= MAX_BLOCK_SIGOPS
<1>0. SigOpsWith(s, t) > MAX_BLOCK_SIGOPS <=> ~(SigOpsWith(s, t) <= MAX_BLOCK_SIGOPS)
    <2>1. MAX_BLOCK_SIGOPS \in Nat
        BY TransactionAssumption DEF TransactionAssumption
    <2>2. SigOpsWith(s, t) \in Nat
        BY <1>1, SigOpsType DEF SigOpsWith, HasConnected
    <2> QED
        BY <2>1, <2>2
<1>3. CASE ~pass
    <2>1. e = [s EXCEPT !.fOk = FALSE]
        BY <1>0, <1>1, <1>3 DEF ConnectTx, SigOpsWith
    <2>2. e.fOk = FALSE
        BY <2>1, <1>2
    <2>3. ~Passes(s, b, i)
        BY <1>3 DEF Passes, t, h
    <2> QED
        BY <2>2, <2>3 DEF t, h
<1>4. CASE pass
    <2>1. HasInputs(s.coins, t)
        <3>1. CASE i = 1
            BY <1>1, <3>1 DEF HasInputs, IsCoinBase
        <3>2. CASE i # 1
            BY <1>1, <1>2, <1>4, <3>2, CheckInputsIs DEF h
        <3> QED
            BY <3>1, <3>2
    <2>2. /\ e.fOk /\ e.coins = u.coins /\ e.nSigOps = SigOpsWith(s, t)
          /\ e.vtxundo = IF i = 1 THEN s.vtxundo ELSE Append(s.vtxundo, u.txundo)
          /\ e.nFees = IF i = 1 THEN s.nFees ELSE s.nFees + ValueIn(s.coins, t) - ValueOut(t)
        <3> HIDE DEF u
        <3>1. CASE i = 1
            BY <1>0, <1>1, <1>2, <1>4, <3>1 DEF ConnectTx, SigOpsWith, u
        <3>2. CASE i # 1
            BY <1>0, <1>1, <1>2, <1>4, <3>2 DEF ConnectTx, SigOpsWith, u
        <3> QED
            BY <3>1, <3>2
    <2>3. /\ NormalCoins(u.coins)
          /\ \A x \in Txids \ {t} : \A m :
                IsAvailable(u.coins[x], m) <=>
                    IsAvailable(s.coins[x], m) /\ [hash |-> x, n |-> m] \notin ToSet(TxIn[t])
        BY <1>1, <1>2, <2>1, UpdateIs
    <2>4. Unspent(u.coins)
            = {out \in Unspent(s.coins) : [hash |-> out.hash, n |-> out.n] \notin ToSet(TxIn[t])}
                \cup OutputsOf(t, h)
        BY <1>1, <1>2, <2>1, UpdateUnspent
    <2> HIDE DEF e, u
    <2>5. FirstTxs(b, i) = FirstTxs(b, i - 1) \cup {t}
        BY <1>1 DEF FirstTxs, t
    <2>6. Points(FirstTxs(b, i)) = Points(FirstTxs(b, i - 1)) \cup ToSet(TxIn[t])
        BY <2>5 DEF Points
    <2>7. \A j \in i .. n : \A in \in ToSet(TxIn[t]) : in.hash # BlockTxs[b][j]
        <3> SUFFICES ASSUME NEW j \in i .. n, NEW in \in ToSet(TxIn[t])
                     PROVE  in.hash # BlockTxs[b][j]
            OBVIOUS
        <3>1. s.coins[BlockTxs[b][j]] = Pruned
            BY <1>1 DEF HasConnected, n
        <3>2. IsAvailable(s.coins[in.hash], in.n)
            <4>1. PICK k \in DOMAIN TxIn[t] : in = TxIn[t][k]
                BY <1>1, InputsAre
            <4> QED
                BY <2>1, <4>1 DEF HasInputs
        <3> QED
            BY <3>1, <3>2 DEF IsAvailable, Pruned
    <2>8. \A j \in i + 1 .. n : \A in \in Points(FirstTxs(b, i)) : in.hash # BlockTxs[b][j]
        <3> SUFFICES ASSUME NEW j \in i + 1 .. n, NEW in \in Points(FirstTxs(b, i))
                     PROVE  in.hash # BlockTxs[b][j]
            OBVIOUS
        <3>1. j \in i .. n /\ (i - 1) + 1 = i
            BY <1>1
        <3>2. CASE in \in ToSet(TxIn[t])
            BY <2>7, <3>1, <3>2
        <3>3. CASE in \in Points(FirstTxs(b, i - 1))
            BY <3>1, <3>3 DEF HasConnected, n
        <3> QED
            BY <2>6, <3>2, <3>3
    <2>9. \A in \in Points(FirstTxs(b, i - 1)) \cup ToSet(TxIn[t]) : in.hash # t
        BY <1>1, <2>7 DEF HasConnected, n, t
    <2>10. Unspent(u.coins) = After(Unspent(coins), b, FirstTxs(b, i))
        <3> DEFINE unspent == Unspent(coins)
                   ts == FirstTxs(b, i - 1)
        <3>1. Unspent(s.coins) = After(unspent, b, ts)
            BY DEF HasConnected
        <3> HIDE DEF unspent, ts
        <3>2. After(unspent, b, ts \cup {t})
                = {out \in After(unspent, b, ts) : [hash |-> out.hash, n |-> out.n] \notin ToSet(TxIn[t])}
                    \cup OutputsOf(t, Height[b])
            BY <2>9, AfterOneMore DEF ts
        <3> QED
            BY <2>4, <2>5, <3>1, <3>2 DEF unspent, ts, h
    <2>11. ASSUME NEW j \in i + 1 .. n PROVE u.coins[BlockTxs[b][j]] = Pruned
        <3> DEFINE x == BlockTxs[b][j]
        <3>1. x \in Txids \ {t}
            BY <1>1 DEF t
        <3>2. s.coins[x] = Pruned
            BY <1>1 DEF HasConnected, n
        <3>3. Normal(u.coins[x]) /\ \A m : ~IsAvailable(u.coins[x], m)
            <4>1. \A m : ~IsAvailable(s.coins[x], m)
                BY <3>2 DEF IsAvailable, Pruned
            <4> HIDE DEF x
            <4>2. \A m : ~IsAvailable(u.coins[x], m)
                BY <2>3, <3>1, <4>1
            <4> QED
                BY <2>3, <3>1, <4>2 DEF NormalCoins
        <3> QED
            BY <3>3, NormalPruned
    <2>12. e.nSigOps \in Nat
        BY <1>1, <2>2, SigOpsType DEF SigOpsWith, HasConnected
    <2>13. HasConnected(e, coins, b, i)
        BY <2>2, <2>3, <2>8, <2>10, <2>11, <2>12 DEF HasConnected, n
    <2>14. Passes(s, b, i)
        BY <1>4 DEF Passes, t, h
    <2> QED
        BY <1>2, <2>1, <2>2, <2>13, <2>14 DEF t, h, e, u
<1> QED
    BY <1>3, <1>4

ConnectType ==
    [fOk : BOOLEAN, nSigOps : Nat, coins : AllCoins, vtxundo : Seq(Seq(Undos)),
     nFees : Int, nSupply : Int]

\* UpdateCoins keeps the coins' type, and its undo data has the type of SpendUndo's.
LEMMA UpdateType ==
    ASSUME NEW coins \in AllCoins, NEW t \in Txids, NEW h \in Nat \ {0}
    PROVE  UpdateCoins(coins, t, h).coins \in AllCoins /\ UpdateCoins(coins, t, h).txundo \in Seq(Undos)
<1> DEFINE n == Len(TxIn[t])
<1>1. PICK s : SpendLoop(s, coins, t) /\ UpdateCoins(coins, t, h) = [s[n] EXCEPT !.coins[t] = CoinsOf(t, h)]
    BY UpdateLoop
<1>2. n \in 0 .. n
    BY InputType
<1>3. s[n] \in SpentType
    BY <1>1, <1>2 DEF SpendLoop
<1>4. CoinsOf(t, h) \in CoinType
    BY CoinsOfIs DEF Normal
<1> HIDE DEF n
<1>5. /\ UpdateCoins(coins, t, h).coins = [s[n].coins EXCEPT ![t] = CoinsOf(t, h)]
      /\ UpdateCoins(coins, t, h).txundo = s[n].txundo
    BY <1>1, <1>3 DEF SpentType
<1> QED
    BY <1>3, <1>4, <1>5 DEF SpentType, AllCoins

\* ConnectBlock's loop keeps its state's type.
LEMMA ConnectTxType ==
    ASSUME NEW s \in ConnectType, NEW t \in Txids, NEW h \in Nat \ {0}
    PROVE  ConnectTx(s, t, h) \in ConnectType
<1> DEFINE u == UpdateCoins(s.coins, t, h)
           nValueIn == IF IsCoinBase(t) THEN 0 ELSE ValueIn(s.coins, t)
           e == ConnectTx(s, t, h)
<1>1. s.coins \in AllCoins /\ s.vtxundo \in Seq(Seq(Undos)) /\ s.nFees \in Int /\ s.nSupply \in Int
    BY DEF ConnectType
<1>2. u.coins \in AllCoins /\ u.txundo \in Seq(Undos)
    BY <1>1, UpdateType
<1> DEFINE nSigOps == SigOpsWith(s, t)
           stops == ~s.fOk \/ (~IsCoinBase(t) /\ ~CheckInputs(s.coins, t, h)) \/ nSigOps > MAX_BLOCK_SIGOPS
<1>0. nSigOps \in Nat
    BY SigOpsType DEF SigOpsWith, ConnectType
<1>3. CASE stops
    <2>1. e = [s EXCEPT !.fOk = FALSE]
        BY <1>3 DEF ConnectTx, SigOpsWith
    <2> HIDE DEF e
    <2>2. e \in ConnectType
        BY <2>1 DEF ConnectType
    <2> QED
        BY <2>2 DEF e
<1>4. CASE ~stops
    <2>1. HasInputs(s.coins, t)
        <3>1. CASE IsCoinBase(t)
            BY <3>1 DEF HasInputs, IsCoinBase
        <3>2. CASE ~IsCoinBase(t)
            BY <1>4, <3>2 DEF HasInputs, CheckInputs
        <3> QED
            BY <3>1, <3>2
    <2>2. nValueIn \in Int /\ ValueOut(t) \in Int
        BY <1>1, <2>1, ValueInIs
    <2>3. e = [fOk     |-> TRUE,
               nSigOps |-> nSigOps,
               coins   |-> u.coins,
               vtxundo |-> IF IsCoinBase(t) THEN s.vtxundo ELSE Append(s.vtxundo, u.txundo),
               nFees   |-> IF IsCoinBase(t) THEN s.nFees ELSE s.nFees + nValueIn - ValueOut(t),
               nSupply |-> s.nSupply + ValueOut(t) - nValueIn]
        <3> HIDE DEF u, nValueIn
        <3> QED
            BY <1>4 DEF ConnectTx, SigOpsWith, u, nValueIn
    <2> HIDE DEF u, nValueIn, e, nSigOps
    <2>4. s.vtxundo \in Seq(Seq(Undos)) /\ Append(s.vtxundo, u.txundo) \in Seq(Seq(Undos))
        <3> DEFINE Q == Seq(Undos)
        <3>1. s.vtxundo \in Seq(Q) /\ u.txundo \in Q
            BY <1>1, <1>2
        <3> HIDE DEF Q
        <3>2. Append(s.vtxundo, u.txundo) \in Seq(Q)
            BY <3>1
        <3> QED
            BY <3>1, <3>2 DEF Q
    <2>5. s.nFees + nValueIn - ValueOut(t) \in Int /\ s.nSupply + ValueOut(t) - nValueIn \in Int
        BY <1>1, <2>2
    <2>6. e \in ConnectType
        BY <1>0, <1>1, <1>2, <2>3, <2>4, <2>5 DEF ConnectType
    <2> QED
        BY <2>6 DEF e
<1> QED
    BY <1>3, <1>4

ConnectStart(coins, b) ==
    [fOk |-> OverwritesNone(coins, b), coins |-> coins, vtxundo |-> <<>>, nSigOps |-> 0,
     nFees |-> 0, nSupply |-> 0]

\* s has the states of ConnectBlock's loop.
ConnectLoop(s, coins, b) ==
    /\ s \in [0 .. Len(BlockTxs[b]) -> ConnectType]
    /\ s[0] = ConnectStart(coins, b)
    /\ \A i \in 1 .. Len(BlockTxs[b]) : s[i] = ConnectTx(s[i - 1], BlockTxs[b][i], Height[b])

ConnectResult(end, b) ==
    [fOk     |-> end.fOk,
     fValid  |-> /\ end.fOk
                 /\ ValueOut(BlockTxs[b][1]) <= Subsidy + end.nFees
                 /\ \A i \in DOMAIN BlockTxs[b] : BlockTxs[b][i] \notin BadScripts,
     coins   |-> end.coins,
     vtxundo |-> end.vtxundo,
     nSupply |-> end.nSupply]

\* ConnectBlock has the states of its loop, and its result is the last one's.
LEMMA ConnectLoopExists ==
    ASSUME NEW coins \in AllCoins, NEW b \in Blocks \ {Genesis}
    PROVE  \E s : /\ ConnectLoop(s, coins, b)
                  /\ ConnectBlock(coins, b) = ConnectResult(s[Len(BlockTxs[b])], b)
<1> DEFINE n == Len(BlockTxs[b])
           start == ConnectStart(coins, b)
           F == [x \in ConnectType \X (1 .. n) |-> ConnectTx(x[1], BlockTxs[b][x[2]], Height[b])]
           Loop(g) == g = [i \in 0 .. Len(BlockTxs[b]) |->
                            IF i = 0
                            THEN [fOk |-> OverwritesNone(coins, b), coins |-> coins,
                                  vtxundo |-> <<>>, nSigOps |-> 0, nFees |-> 0, nSupply |-> 0]
                            ELSE ConnectTx(g[i - 1], BlockTxs[b][i], Height[b])]
           after == CHOOSE g : Loop(g)
<1>1. n \in Nat /\ F \in [ConnectType \X (1 .. n) -> ConnectType] /\ start \in ConnectType
    <2>1. start \in ConnectType
        BY DEF ConnectType, ConnectStart, OverwritesNone
    <2> QED
        BY <2>1, BlockIs, ConnectTxType
<1>2. \A r \in ConnectType, i \in 1 .. n : F[<<r, i>>] = ConnectTx(r, BlockTxs[b][i], Height[b])
    OBVIOUS
<1>3. \A i \in 1 .. n : i - 1 \in 0 .. n
    BY <1>1
<1> HIDE DEF F, n, start, after
<1>4. \E g : Loop(g)
    <2>1. PICK g \in [0 .. n -> ConnectType] : Runs(g, n, start, F)
        <3> HIDE DEF Loop
        <3> QED
            BY <1>1, LoopExists
    <2>2. g \in [0 .. n -> ConnectType] /\ g[0] = start
          /\ \A i \in 1 .. n : g[i] = ConnectTx(g[i - 1], BlockTxs[b][i], Height[b])
        BY <1>2, <1>3, <2>1 DEF Runs
    <2>3. g = [i \in 0 .. n |-> IF i = 0 THEN start ELSE ConnectTx(g[i - 1], BlockTxs[b][i], Height[b])]
        BY <1>1, <2>2
    <2> QED
        BY <2>3 DEF n, start, ConnectStart
<1>5. Loop(after)
    BY <1>4 DEF after
<1>6. ConnectBlock(coins, b) = ConnectResult(after[n], b)
    BY DEF ConnectBlock, ConnectResult, after, n
<1>7. DOMAIN after = 0 .. n /\ after[0] = start
    BY <1>1, <1>5 DEF n, start, ConnectStart
<1>8. \A i \in 1 .. n : after[i] = ConnectTx(after[i - 1], BlockTxs[b][i], Height[b])
    <2>1. after = [i \in 0 .. n |-> IF i = 0 THEN start ELSE ConnectTx(after[i - 1], BlockTxs[b][i], Height[b])]
        BY <1>5 DEF n, start, ConnectStart
    <2> HIDE DEF Loop
    <2>2. \A i \in 1 .. n : i \in 0 .. n /\ i # 0
        BY <1>1
    <2> QED
        BY <2>1, <2>2
<1>9. \A i \in 0 .. n : after[i] \in ConnectType
    <2> HIDE DEF Loop
    <2>1. \A i \in 1 .. n : after[i - 1] \in ConnectType => after[i] = F[<<after[i - 1], i>>]
        BY <1>2, <1>8
    <2> QED
        BY <1>1, <1>7, <2>1, LoopType
<1>10. after \in [0 .. n -> ConnectType]
    BY <1>5, <1>7, <1>9
<1>11. ConnectLoop(after, coins, b)
    BY <1>7, <1>8, <1>10 DEF ConnectLoop, n, start
<1> QED
    BY <1>6, <1>11 DEF n

\* The loop completes up to turn i exactly when nothing is overwritten and each
\* transaction passes; then the state is as HasConnected says.
ConnectedTo(s, coins, b, i) ==
    /\ s[i].fOk => HasConnected(s[i], coins, b, i)
    /\ s[i].fOk <=>
        /\ OverwritesNone(coins, b)
        /\ \A j \in 1 .. i : Passes(s[j - 1], b, j)
    /\ s[i].fOk => \A j \in 0 .. i : s[j].fOk

\* While ConnectBlock's loop goes on it has connected every transaction so far.
LEMMA ConnectedAll ==
    ASSUME NEW b \in Blocks \ {Genesis}, NEW coins, NormalCoins(coins),
           NEW s, ConnectLoop(s, coins, b)
    PROVE  \A i \in 0 .. Len(BlockTxs[b]) : ConnectedTo(s, coins, b, i)
<1> DEFINE n == Len(BlockTxs[b])
           T == {i \in 0 .. n : ConnectedTo(s, coins, b, i)}
<1>1. n \in Nat /\ \A i \in 1 .. n : BlockTxs[b][i] \in Txids
    BY BlockIs
<1>2. /\ \A i \in 0 .. n : s[i] \in ConnectType
      /\ s[0] = ConnectStart(coins, b)
      /\ \A i \in 1 .. n : s[i] = ConnectTx(s[i - 1], BlockTxs[b][i], Height[b])
    BY DEF ConnectLoop
<1>3. 0 \in T
    <2>1. s[0].fOk = OverwritesNone(coins, b) /\ s[0].coins = coins
        BY <1>2 DEF ConnectStart
    <2>2. FirstTxs(b, 0) = {} /\ Points(FirstTxs(b, 0)) = {}
        BY DEF FirstTxs, Points
    <2>3. After(Unspent(coins), b, FirstTxs(b, 0)) = Unspent(coins)
        BY <2>2 DEF After
    <2>4. ASSUME s[0].fOk PROVE HasConnected(s[0], coins, b, 0)
        <3>1. \A j \in 1 .. n : coins[BlockTxs[b][j]] = Pruned
            BY <2>1, <2>4, BlockIs DEF OverwritesNone
        <3> QED
            BY <1>2, <2>1, <2>2, <2>3, <2>4, <3>1 DEF HasConnected, ConnectStart
    <2>5. ConnectedTo(s, coins, b, 0)
        BY <2>1, <2>4 DEF ConnectedTo
    <2> QED
        BY <1>1, <2>5
<1>4. ASSUME NEW k \in 0 .. n, k \in T, k < n PROVE k + 1 \in T
    <2> DEFINE i == k + 1
               t == BlockTxs[b][i]
    <2>1. i \in 1 .. n /\ i \in 0 .. n /\ i - 1 = k /\ k \in Nat
        BY <1>1, <1>4
    <2>2. ConnectedTo(s, coins, b, k)
        BY <1>4
    <2>3. s[i] = ConnectTx(s[k], t, Height[b]) /\ s[i].fOk \in BOOLEAN /\ s[k].fOk \in BOOLEAN
        BY <1>2, <2>1 DEF ConnectType
    <2> HIDE DEF t
    <2>4. CASE ~s[k].fOk
        <3>1. ~s[i].fOk
            <4>1. s[i] = [s[k] EXCEPT !.fOk = FALSE] /\ s[k] \in ConnectType
                BY <1>2, <2>3, <2>4 DEF ConnectTx
            <4> HIDE DEF i
            <4> QED
                BY <4>1 DEF ConnectType
        <3>2. ConnectedTo(s, coins, b, i)
            <4>1. \A j \in 1 .. k : j \in 1 .. i
                BY <2>1
            <4> HIDE DEF i
            <4> QED
                BY <2>2, <2>4, <3>1, <4>1 DEF ConnectedTo
        <3> QED
            BY <2>1, <3>2
    <2>5. CASE s[k].fOk
        <3>1. HasConnected(s[k], coins, b, i - 1)
            BY <2>1, <2>2, <2>5 DEF ConnectedTo
        <3>2. /\ s[i].fOk <=> Passes(s[k], b, i)
              /\ s[i].fOk => HasConnected(s[i], coins, b, i)
            <4> HIDE DEF i
            <4> QED
                BY <2>1, <2>3, <3>1, ConnectTxIs DEF t
        <3>3. s[i].fOk => \A j \in 0 .. i : s[j].fOk
            BY <2>1, <2>2, <2>5 DEF ConnectedTo
        <3>4. (\A j \in 1 .. i : Passes(s[j - 1], b, j))
                <=> (\A j \in 1 .. k : Passes(s[j - 1], b, j)) /\ Passes(s[k], b, i)
            BY <2>1
        <3> HIDE DEF i
        <3>5. ConnectedTo(s, coins, b, i)
            BY <2>2, <2>5, <3>2, <3>3, <3>4 DEF ConnectedTo
        <3> QED
            BY <2>1, <3>5 DEF i
    <2> QED
        BY <2>4, <2>5
<1>5. 0 .. n \subseteq T
    <2> HIDE DEF T
    <2> QED
        BY <1>1, <1>3, <1>4, InductionTo
<1> QED
    BY <1>5

-----------------------------------------------------------------------------
\* ConnectBlock is exact

\* The BIP30 test finds no transaction of the block among the unspent outputs.
LEMMA OverwritesNoneIs ==
    ASSUME NEW b \in Blocks \ {Genesis}, NEW coins, NormalCoins(coins)
    PROVE  OverwritesNone(coins, b) <=>
                ToSet(BlockTxs[b]) \cap {out.hash : out \in Unspent(coins)} = {}
<1>1. coins \in AllCoins
    BY DEF NormalCoins
<1>2. ASSUME NEW t \in Txids
      PROVE  coins[t] = Pruned <=> t \notin {out.hash : out \in Unspent(coins)}
    <2>1. coins[t] = Pruned <=> \A m : ~IsAvailable(coins[t], m)
        BY NormalPruned DEF NormalCoins
    <2>2. ASSUME NEW out \in Unspent(coins), out.hash = t PROVE \E m : IsAvailable(coins[t], m)
        <3>1. PICK x \in Txids : \E m \in Nat : IsAvailable(coins[x], m) /\ out = Out(coins, x, m)
            BY <1>1, UnspentIs
        <3>2. x = t
            BY <2>2, <3>1 DEF Out
        <3> QED
            BY <3>1, <3>2
    <2>3. ASSUME NEW m, IsAvailable(coins[t], m) PROVE \E out \in Unspent(coins) : out.hash = t
        <3>1. coins[t].vout \in Vouts
            BY <1>1 DEF AllCoins, CoinType
        <3>2. m \in Nat
            BY <2>3, <3>1 DEF IsAvailable, Vouts
        <3>3. Out(coins, t, m) \in Unspent(coins) /\ Out(coins, t, m).hash = t
            BY <1>1, <2>3, <3>2, UnspentAt DEF Out
        <3> QED
            BY <3>3
    <2> QED
        BY <2>1, <2>2, <2>3
<1>3. /\ DOMAIN BlockTxs[b] = 1 .. Len(BlockTxs[b])
      /\ \A i \in 1 .. Len(BlockTxs[b]) : BlockTxs[b][i] \in Txids
    BY BlockIs
<1>4. ToSet(BlockTxs[b]) = {BlockTxs[b][i] : i \in DOMAIN BlockTxs[b]}
    BY DEF ToSet
<1> DEFINE hashes == {out.hash : out \in Unspent(coins)}
<1>5. \A i \in DOMAIN BlockTxs[b] : coins[BlockTxs[b][i]] = Pruned <=> BlockTxs[b][i] \notin hashes
    BY <1>2, <1>3
<1> HIDE DEF hashes
<1>6. OverwritesNone(coins, b) <=> ToSet(BlockTxs[b]) \cap hashes = {}
    BY <1>4, <1>5 DEF OverwritesNone
<1> QED
    BY <1>6 DEF hashes

\* The outputs before transaction i of b.
Before(coins, b, i) == After(Unspent(coins), b, FirstTxs(b, i - 1))

\* What ConnectBlock's loop has done when it has completed.
LEMMA LoopComplete ==
    ASSUME NEW b \in Blocks \ {Genesis}, NEW coins, NormalCoins(coins),
           NEW s, ConnectLoop(s, coins, b), s[Len(BlockTxs[b])].fOk
    PROVE  /\ \A i \in 0 .. Len(BlockTxs[b]) : HasConnected(s[i], coins, b, i)
           /\ \A i \in 1 .. Len(BlockTxs[b]) :
                LET t == BlockTxs[b][i]
                    c == s[i - 1].coins
                IN  /\ HasInputs(c, t) /\ c[t] = Pruned /\ NormalCoins(c)
                    /\ Unspent(c) = Before(coins, b, i)
                    /\ Passes(s[i - 1], b, i) /\ s[i].nSigOps = SigOpsWith(s[i - 1], t)
                    /\ s[i].coins = UpdateCoins(c, t, Height[b]).coins
                    /\ s[i].vtxundo = IF i = 1 THEN s[i - 1].vtxundo
                                      ELSE Append(s[i - 1].vtxundo, UpdateCoins(c, t, Height[b]).txundo)
                    /\ s[i].nFees = IF i = 1 THEN s[i - 1].nFees
                                    ELSE s[i - 1].nFees + ValueIn(c, t) - ValueOut(t)
<1> DEFINE n == Len(BlockTxs[b])
<1>1. n \in Nat /\ n \in 0 .. n
    BY BlockIs
<1>2. \A i \in 0 .. n : ConnectedTo(s, coins, b, i)
    BY ConnectedAll
<1>3. \A i \in 0 .. n : s[i].fOk
    BY <1>1, <1>2 DEF ConnectedTo
<1>4. \A i \in 0 .. n : HasConnected(s[i], coins, b, i)
    BY <1>2, <1>3 DEF ConnectedTo
<1>5. ASSUME NEW i \in 1 .. n
      PROVE  LET t == BlockTxs[b][i]
                 c == s[i - 1].coins
             IN  /\ HasInputs(c, t) /\ c[t] = Pruned /\ NormalCoins(c)
                 /\ Unspent(c) = Before(coins, b, i)
                 /\ Passes(s[i - 1], b, i) /\ s[i].nSigOps = SigOpsWith(s[i - 1], t)
                 /\ s[i].coins = UpdateCoins(c, t, Height[b]).coins
                 /\ s[i].vtxundo = IF i = 1 THEN s[i - 1].vtxundo
                                   ELSE Append(s[i - 1].vtxundo, UpdateCoins(c, t, Height[b]).txundo)
                 /\ s[i].nFees = IF i = 1 THEN s[i - 1].nFees
                                 ELSE s[i - 1].nFees + ValueIn(c, t) - ValueOut(t)
    <2>1. i - 1 \in 0 .. n /\ i \in 0 .. n
        BY <1>1
    <2>2. HasConnected(s[i - 1], coins, b, i - 1) /\ s[i].fOk
        BY <1>3, <1>4, <2>1
    <2>3. s[i] = ConnectTx(s[i - 1], BlockTxs[b][i], Height[b])
        BY DEF ConnectLoop
    <2>4. Unspent(s[i - 1].coins) = Before(coins, b, i)
        BY <2>2 DEF HasConnected, Before
    <2> DEFINE r == s[i - 1]
               e == s[i]
               t == BlockTxs[b][i]
    <2> HIDE DEF n, r, e
    <2>5. /\ e = ConnectTx(r, t, Height[b]) /\ HasConnected(r, coins, b, i - 1) /\ e.fOk
          /\ i \in 1 .. Len(BlockTxs[b])
        BY <2>2, <2>3 DEF r, e, n
    <2>6. /\ Passes(r, b, i) /\ e.nSigOps = SigOpsWith(r, t)
          /\ HasInputs(r.coins, t) /\ r.coins[t] = Pruned /\ NormalCoins(r.coins)
          /\ e.coins = UpdateCoins(r.coins, t, Height[b]).coins
          /\ e.vtxundo = IF i = 1 THEN r.vtxundo
                         ELSE Append(r.vtxundo, UpdateCoins(r.coins, t, Height[b]).txundo)
          /\ e.nFees = IF i = 1 THEN r.nFees ELSE r.nFees + ValueIn(r.coins, t) - ValueOut(t)
        BY <2>5, ConnectTxIs
    <2> QED
        BY <2>4, <2>6 DEF r, e
<1> QED
    BY <1>4, <1>5

\* nFees adds up the fees.
LEMMA FeesAre ==
    ASSUME NEW b \in Blocks \ {Genesis}, NEW coins, NormalCoins(coins),
           NEW s, ConnectLoop(s, coins, b), s[Len(BlockTxs[b])].fOk
    PROVE  s[Len(BlockTxs[b])].nFees
            = Sum([i \in DOMAIN BlockTxs[b] |->
                    IF i = 1 THEN 0 ELSE Fee(Before(coins, b, i), BlockTxs[b][i])])
<1> DEFINE n == Len(BlockTxs[b])
           values == [i \in DOMAIN BlockTxs[b] |->
                        IF i = 1 THEN 0 ELSE Fee(Before(coins, b, i), BlockTxs[b][i])]
<1>1. /\ n \in Nat \ {0} /\ DOMAIN BlockTxs[b] = 1 .. n
      /\ \A i \in 1 .. n : BlockTxs[b][i] \in Txids
    BY BlockIs
<1>2. ASSUME NEW i \in 1 .. n
      PROVE  values[i] \in Int /\ (s[i - 1].nFees \in Int => s[i].nFees = s[i - 1].nFees + values[i])
    <2> DEFINE t == BlockTxs[b][i]
               c == s[i - 1].coins
    <2>1. /\ HasInputs(c, t) /\ c \in AllCoins /\ Unspent(c) = Before(coins, b, i)
          /\ s[i].nFees = IF i = 1 THEN s[i - 1].nFees
                          ELSE s[i - 1].nFees + ValueIn(c, t) - ValueOut(t)
        <3>1. /\ HasInputs(c, t) /\ NormalCoins(c) /\ Unspent(c) = Before(coins, b, i)
              /\ s[i].nFees = IF i = 1 THEN s[i - 1].nFees
                              ELSE s[i - 1].nFees + ValueIn(c, t) - ValueOut(t)
            BY LoopComplete
        <3> QED
            BY <3>1 DEF NormalCoins
    <2>2. values[i] = IF i = 1 THEN 0 ELSE Fee(Before(coins, b, i), t)
        BY <1>1
    <2>3. t \in Txids
        BY <1>1
    <2> HIDE DEF values, t, c
    <2>4. /\ Fee(Before(coins, b, i), t) = ValueIn(c, t) - ValueOut(t)
          /\ ValueIn(c, t) \in Int /\ ValueOut(t) \in Int
        BY <2>1, <2>3, ValueInIs
    <2> QED
        BY <2>1, <2>2, <2>4
<1>3. values \in Seq(Int) /\ Len(values) = n
    <2>1. values \in [1 .. n -> Int]
        BY <1>1, <1>2
    <2> HIDE DEF values
    <2> QED
        BY <1>1, <2>1
<1>4. PICK total \in [0 .. n -> Int] :
        /\ total[0] = 0
        /\ \A i \in 1 .. n : total[i] = total[i - 1] + values[i]
        /\ Sum(values) = total[n]
    <2> HIDE DEF values
    <2> QED
        BY <1>3, SumLoop
<1>5. s[0].nFees = 0
    BY DEF ConnectLoop, ConnectStart
<1> DEFINE fees == [i \in 0 .. n |-> s[i].nFees]
<1>6. Follows(fees, total, n)
    <2>1. fees[0] = total[0]
        BY <1>1, <1>4, <1>5
    <2>2. ASSUME NEW i \in 1 .. n, fees[i - 1] = total[i - 1] PROVE fees[i] = total[i]
        <3>1. i - 1 \in 0 .. n /\ i \in 0 .. n
            BY <1>1
        <3>2. fees[i - 1] = s[i - 1].nFees /\ fees[i] = s[i].nFees
            BY <3>1
        <3> HIDE DEF fees, values
        <3> QED
            BY <1>2, <1>4, <2>2, <3>1, <3>2
    <2> HIDE DEF fees
    <2> QED
        BY <2>1, <2>2 DEF Follows
<1>7. fees[n] = total[n]
    <2> HIDE DEF fees
    <2> QED
        BY <1>1, <1>6, LoopIs
<1> QED
    BY <1>1, <1>4, <1>7

\* What the transactions of b cost in signature operations.
CostOf(coins, b, i) == SigOpCost(Before(coins, b, i), BlockTxs[b][i])

\* total has the cost of the transactions up to each.
CostTotals(total, coins, b) ==
    /\ total \in [0 .. Len(BlockTxs[b]) -> Int]
    /\ total[0] = 0
    /\ \A i \in 1 .. Len(BlockTxs[b]) : total[i] = total[i - 1] + CostOf(coins, b, i)
    /\ Sum([i \in DOMAIN BlockTxs[b] |-> CostOf(coins, b, i)]) = total[Len(BlockTxs[b])]

\* There are such totals, and none exceeds the whole cost.
LEMMA CostsAre ==
    ASSUME NEW b \in Blocks \ {Genesis}, NEW coins
    PROVE  \E total :
                /\ CostTotals(total, coins, b)
                /\ \A i \in 0 .. Len(BlockTxs[b]) : total[i] <= total[Len(BlockTxs[b])]
<1> DEFINE n == Len(BlockTxs[b])
           costs == [i \in DOMAIN BlockTxs[b] |-> CostOf(coins, b, i)]
<1>1. n \in Nat /\ DOMAIN BlockTxs[b] = 1 .. n /\ \A i \in 1 .. n : BlockTxs[b][i] \in Txids
    BY BlockIs
<1>2. \A i \in 1 .. n : CostOf(coins, b, i) \in Nat /\ costs[i] = CostOf(coins, b, i)
    BY <1>1, SigOpsType DEF CostOf
<1>3. costs \in Seq(Int) /\ Len(costs) = n
    <2>1. DOMAIN costs = 1 .. n /\ costs = [i \in DOMAIN costs |-> costs[i]]
        BY <1>1
    <2>2. \A i \in 1 .. n : costs[i] \in Int
        BY <1>2
    <2> HIDE DEF costs
    <2>3. costs \in [1 .. n -> Int]
        BY <2>1, <2>2
    <2> QED
        BY <1>1, <2>3
<1> HIDE DEF costs
<1>4. PICK total \in [0 .. n -> Int] :
        /\ total[0] = 0
        /\ \A i \in 1 .. n : total[i] = total[i - 1] + costs[i]
        /\ Sum(costs) = total[n]
    BY <1>3, SumLoop
<1>5. CostTotals(total, coins, b)
    BY <1>2, <1>4 DEF CostTotals, costs
<1>6. ASSUME NEW i \in 1 .. n PROVE total[i] - total[i - 1] \in Nat
    <2>1. i - 1 \in 0 .. n
        BY <1>1
    <2>2. total[i - 1] \in Int /\ costs[i] \in Nat
        BY <1>2, <1>4, <2>1
    <2> QED
        BY <1>4, <2>2
<1> HIDE DEF n
<1>7. \A i \in 0 .. n : total[i] <= total[n]
    BY <1>1, <1>4, <1>6, SumGrows
<1> QED
    BY <1>5, <1>7 DEF n

\* A turn of the loop counts the cost of its transaction.
LEMMA TurnCounts ==
    ASSUME NEW b \in Blocks \ {Genesis}, NEW coins, NEW s,
           NEW i \in 1 .. Len(BlockTxs[b]), HasConnected(s, coins, b, i - 1),
           HasInputs(s.coins, BlockTxs[b][i])
    PROVE  SigOpsWith(s, BlockTxs[b][i]) = s.nSigOps + CostOf(coins, b, i)
<1> DEFINE t == BlockTxs[b][i]
<1>1. t \in Txids
    BY BlockIs
<1> HIDE DEF t
<1>2. s.coins \in AllCoins /\ Unspent(s.coins) = Before(coins, b, i) /\ s.nSigOps \in Nat
    BY DEF HasConnected, NormalCoins, Before
<1>3. SigOpCost(Unspent(s.coins), t) = SigOps[t] + GetP2SHSigOpCount(s.coins, t)
    BY <1>1, <1>2, SigOpsIs DEF t
<1>4. SigOps[t] \in Nat /\ GetP2SHSigOpCount(s.coins, t) \in Nat
    BY <1>1, SigOpsType
<1>5. CostOf(coins, b, i) = SigOps[t] + GetP2SHSigOpCount(s.coins, t)
    BY <1>2, <1>3 DEF CostOf, t
<1>6. SigOpsWith(s, t) = (s.nSigOps + SigOps[t]) + GetP2SHSigOpCount(s.coins, t)
    BY DEF SigOpsWith
<1>7. SigOpsWith(s, t) = s.nSigOps + CostOf(coins, b, i)
    BY <1>2, <1>4, <1>5, <1>6
<1> QED
    BY <1>7 DEF t

\* So nSigOps adds up the costs, for as long as the loop goes on.
LEMMA SigOpsAre ==
    ASSUME NEW b \in Blocks \ {Genesis}, NEW coins, NormalCoins(coins),
           NEW s, ConnectLoop(s, coins, b), NEW total, CostTotals(total, coins, b)
    PROVE  \A k \in 0 .. Len(BlockTxs[b]) : s[k].fOk => s[k].nSigOps = total[k]
<1> DEFINE n == Len(BlockTxs[b])
           T == {k \in 0 .. n : s[k].fOk => s[k].nSigOps = total[k]}
<1>1. /\ n \in Nat /\ b \in Blocks
      /\ \A i \in 1 .. n : BlockTxs[b][i] \in Txids /\ (IsCoinBase(BlockTxs[b][i]) <=> i = 1)
    BY BlockIs
<1>2. \A i \in 0 .. n : ConnectedTo(s, coins, b, i)
    BY ConnectedAll
<1>3. 0 \in T
    BY <1>1 DEF ConnectLoop, ConnectStart, CostTotals
<1>4. ASSUME NEW k \in 0 .. n, k \in T, k < n PROVE k + 1 \in T
    <2> DEFINE i == k + 1
    <2>1. i \in 1 .. n /\ i \in 0 .. n /\ i - 1 = k
        BY <1>1, <1>4
    <2>2. ASSUME s[i].fOk PROVE s[i].nSigOps = total[i]
        <3>1. \A j \in 0 .. i : s[j].fOk
            BY <1>2, <2>1, <2>2 DEF ConnectedTo
        <3>2. s[k].fOk
            BY <1>1, <1>4, <3>1
        <3>3. HasConnected(s[k], coins, b, k) /\ s[k].nSigOps = total[k]
            BY <1>2, <1>4, <3>2 DEF ConnectedTo
        <3>4. s[i] = ConnectTx(s[k], BlockTxs[b][i], Height[b])
            BY <2>1 DEF ConnectLoop
        <3> DEFINE r == s[k]
                   e == s[i]
                   t == BlockTxs[b][i]
        <3>5. e = ConnectTx(r, t, Height[b]) /\ HasConnected(r, coins, b, i - 1) /\ e.fOk
            BY <2>1, <2>2, <3>3, <3>4
        <3> HIDE DEF r, e, i
        <3>6. e.nSigOps = SigOpsWith(r, t) /\ HasInputs(r.coins, t)
            BY <2>1, <3>5, ConnectTxIs
        <3>7. SigOpsWith(r, t) = r.nSigOps + CostOf(coins, b, i)
            BY <2>1, <3>5, <3>6, TurnCounts
        <3>8. total[i] = total[k] + CostOf(coins, b, i)
            BY <2>1 DEF CostTotals
        <3> QED
            BY <3>3, <3>6, <3>7, <3>8 DEF r, e
    <2> QED
        BY <2>1, <2>2
<1>5. 0 .. n \subseteq T
    <2> HIDE DEF T
    <2> QED
        BY <1>1, <1>3, <1>4, InductionTo
<1> QED
    BY <1>5

\* The loop completes exactly when the transactions may be spent and do not cost too much.
LEMMA LoopCompletes ==
    ASSUME NEW b \in Blocks \ {Genesis}, NEW coins, NormalCoins(coins),
           NEW s, ConnectLoop(s, coins, b)
    PROVE  /\ s[Len(BlockTxs[b])].fOk /\ (\A i \in DOMAIN BlockTxs[b] : BlockTxs[b][i] \notin BadScripts)
            <=> /\ OverwritesNone(coins, b)
                /\ \A i \in 2 .. Len(BlockTxs[b]) : ValidSpend(Before(coins, b, i), b, BlockTxs[b][i])
                /\ Sum([i \in DOMAIN BlockTxs[b] |-> CostOf(coins, b, i)]) <= MAX_BLOCK_SIGOPS
<1> DEFINE n == Len(BlockTxs[b])
           Good == \A i \in DOMAIN BlockTxs[b] : BlockTxs[b][i] \notin BadScripts
           Spends == \A i \in 2 .. n : ValidSpend(Before(coins, b, i), b, BlockTxs[b][i])
           Cost == Sum([i \in DOMAIN BlockTxs[b] |-> CostOf(coins, b, i)])
<1>1. /\ n \in Nat \ {0} /\ DOMAIN BlockTxs[b] = 1 .. n /\ b \in Blocks
      /\ \A i \in 1 .. n : BlockTxs[b][i] \in Txids /\ (IsCoinBase(BlockTxs[b][i]) <=> i = 1)
    BY BlockIs
<1>2. BlockTxs[b][1] \notin BadScripts
    <2>1. BadScripts \subseteq {t \in Txids : TxIn[t] # <<>>}
        BY TransactionAssumption DEF TransactionAssumption
    <2> QED
        BY <1>1, <2>1 DEF IsCoinBase
<1>3. \A i \in 0 .. n : ConnectedTo(s, coins, b, i)
    BY ConnectedAll
<1>4. PICK total : /\ CostTotals(total, coins, b)
                   /\ \A i \in 0 .. n : total[i] <= total[n]
    BY CostsAre
<1>5. /\ \A i \in 0 .. n : total[i] \in Int
      /\ \A i \in 1 .. n : total[i] = total[i - 1] + CostOf(coins, b, i)
      /\ Cost = total[n]
      /\ MAX_BLOCK_SIGOPS \in Nat
    BY <1>4, TransactionAssumption DEF CostTotals, TransactionAssumption
<1>6. \A k \in 0 .. n : s[k].fOk => s[k].nSigOps = total[k]
    BY <1>4, SigOpsAre
<1> HIDE DEF Cost
<1>7. ASSUME NEW i \in 1 .. n, s[i - 1].fOk
      PROVE  /\ i # 1 => (CheckInputs(s[i - 1].coins, BlockTxs[b][i], Height[b])
                            /\ BlockTxs[b][i] \notin BadScripts
                            <=> ValidSpend(Before(coins, b, i), b, BlockTxs[b][i]))
             /\ i = 1 \/ CheckInputs(s[i - 1].coins, BlockTxs[b][i], Height[b]) =>
                    SigOpsWith(s[i - 1], BlockTxs[b][i]) = total[i]
    <2>1. i - 1 \in 0 .. n
        BY <1>1
    <2>2. HasConnected(s[i - 1], coins, b, i - 1) /\ s[i - 1].nSigOps = total[i - 1]
        BY <1>3, <1>6, <1>7, <2>1 DEF ConnectedTo
    <2>3. Unspent(s[i - 1].coins) = Before(coins, b, i) /\ s[i - 1].coins \in AllCoins
        BY <2>2 DEF HasConnected, Before, NormalCoins
    <2> DEFINE r == s[i - 1]
               c == s[i - 1].coins
               t == BlockTxs[b][i]
    <2>4. t \in Txids /\ (IsCoinBase(t) <=> i = 1) /\ i \in 1 .. Len(BlockTxs[b])
        BY <1>1
    <2>5. HasConnected(r, coins, b, i - 1) /\ c = r.coins
        BY <2>2
    <2> HIDE DEF r, c, t, n
    <2>6. /\ CheckInputs(c, t, Height[b]) => HasInputs(c, t)
          /\ CheckInputs(c, t, Height[b]) /\ t \notin BadScripts <=> ValidSpend(Unspent(c), b, t)
        BY <1>1, <2>3, <2>4, CheckInputsIs DEF c, t
    <2>7. ASSUME i = 1 \/ CheckInputs(c, t, Height[b]) PROVE SigOpsWith(r, t) = total[i]
        <3>1. HasInputs(r.coins, t)
            <4>1. CASE i = 1
                BY <2>4, <4>1 DEF HasInputs, IsCoinBase
            <4>2. CASE i # 1
                BY <2>5, <2>6, <2>7, <4>2
            <4> QED
                BY <4>1, <4>2
        <3>2. SigOpsWith(r, t) = r.nSigOps + CostOf(coins, b, i)
            BY <2>4, <2>5, <3>1, TurnCounts DEF t
        <3> QED
            BY <1>5, <2>2, <3>2 DEF r
    <2> QED
        BY <2>3, <2>6, <2>7 DEF r, c, t
<1>8. ASSUME s[n].fOk, Good PROVE OverwritesNone(coins, b) /\ Spends /\ Cost <= MAX_BLOCK_SIGOPS
    <2>1. n \in 0 .. n /\ ConnectedTo(s, coins, b, n)
        BY <1>1, <1>3
    <2>2. /\ OverwritesNone(coins, b)
          /\ \A j \in 1 .. n : Passes(s[j - 1], b, j)
          /\ \A j \in 0 .. n : s[j].fOk
        BY <1>8, <2>1 DEF ConnectedTo
    <2>3. ASSUME NEW i \in 2 .. n PROVE ValidSpend(Before(coins, b, i), b, BlockTxs[b][i])
        <3>1. i \in 1 .. n /\ i # 1 /\ i - 1 \in 0 .. n
            BY <1>1
        <3>2. CheckInputs(s[i - 1].coins, BlockTxs[b][i], Height[b]) /\ s[i - 1].fOk
            BY <2>2, <3>1 DEF Passes
        <3>3. BlockTxs[b][i] \notin BadScripts
            BY <1>1, <1>8, <3>1
        <3> QED
            BY <1>7, <3>1, <3>2, <3>3
    <2>4. Cost <= MAX_BLOCK_SIGOPS
        <3>1. n \in 1 .. n /\ n - 1 \in 0 .. n
            BY <1>1
        <3>2. Passes(s[n - 1], b, n) /\ s[n - 1].fOk
            BY <2>2, <3>1
        <3>3. SigOpsWith(s[n - 1], BlockTxs[b][n]) = total[n]
            BY <1>7, <3>1, <3>2 DEF Passes
        <3> QED
            BY <1>5, <3>2, <3>3 DEF Passes
    <2> QED
        BY <2>2, <2>3, <2>4
<1>9. ASSUME OverwritesNone(coins, b), Spends, Cost <= MAX_BLOCK_SIGOPS PROVE s[n].fOk /\ Good
    <2> DEFINE T == {i \in 0 .. n : s[i].fOk}
    <2>1. 0 \in T
        BY <1>1, <1>9 DEF ConnectLoop, ConnectStart
    <2>2. ASSUME NEW k \in 0 .. n, k \in T, k < n PROVE k + 1 \in T
        <3>1. k + 1 \in 0 .. n /\ k + 1 \in 1 .. n /\ (k + 1) - 1 = k
              /\ (k + 1 # 1 => k + 1 \in 2 .. n)
            BY <1>1, <2>2
        <3> DEFINE i == k + 1
        <3>2. s[k].fOk /\ ConnectedTo(s, coins, b, k) /\ ConnectedTo(s, coins, b, i)
            BY <1>3, <2>2, <3>1
        <3> HIDE DEF i
        <3>3. \A j \in 1 .. k : Passes(s[j - 1], b, j)
            BY <3>2 DEF ConnectedTo
        <3>4. i \in 1 .. n /\ i - 1 = k /\ (i # 1 => i \in 2 .. n) /\ s[i - 1].fOk
            BY <3>1, <3>2 DEF i
        <3>5. i = 1 \/ CheckInputs(s[i - 1].coins, BlockTxs[b][i], Height[b])
            BY <1>7, <1>9, <3>4
        <3>6. SigOpsWith(s[i - 1], BlockTxs[b][i]) = total[i]
            BY <1>7, <3>4, <3>5
        <3>7. total[i] <= MAX_BLOCK_SIGOPS
            <4>1. i \in 0 .. n /\ n \in 0 .. n
                BY <1>1, <3>4
            <4>2. total[i] <= total[n] /\ total[n] <= MAX_BLOCK_SIGOPS
                BY <1>4, <1>5, <1>9, <4>1
            <4> QED
                BY <1>5, <4>1, <4>2
        <3>8. Passes(s[k], b, i)
            BY <3>4, <3>5, <3>6, <3>7 DEF Passes
        <3>9. \A j \in 1 .. i : j \in 1 .. k \/ (j = i /\ j - 1 = k)
            BY <2>2, <3>4
        <3>10. \A j \in 1 .. i : Passes(s[j - 1], b, j)
            BY <3>3, <3>8, <3>9
        <3>11. s[i].fOk
            BY <1>9, <3>2, <3>10 DEF ConnectedTo
        <3> QED
            BY <3>1, <3>11 DEF i
    <2>3. 0 .. n \subseteq T
        <3> HIDE DEF T, n
        <3> QED
            BY <1>1, <2>1, <2>2, InductionTo
    <2>4. s[n].fOk
        BY <1>1, <2>3
    <2>5. \A i \in 2 .. n : BlockTxs[b][i] \notin BadScripts
        BY <1>9 DEF ValidSpend
    <2>6. Good
        <3>1. \A i \in 1 .. n : i = 1 \/ i \in 2 .. n
            BY <1>1
        <3> QED
            BY <1>1, <1>2, <2>5, <3>1
    <2> QED
        BY <2>4, <2>6
<1> QED
    BY <1>8, <1>9 DEF Cost

\* ConnectBlock accepts exactly the blocks that are valid on its coins.
THEOREM ConnectBlockExact ==
    ASSUME NEW b \in Blocks \ {Genesis}, NEW coins, NormalCoins(coins)
    PROVE  ConnectBlock(coins, b).fValid <=> ValidOn(Unspent(coins), b)
<1> DEFINE n == Len(BlockTxs[b])
           vtx == BlockTxs[b]
<1>1. PICK s : ConnectLoop(s, coins, b) /\ ConnectBlock(coins, b) = ConnectResult(s[n], b)
    BY ConnectLoopExists DEF NormalCoins
<1> DEFINE Good == \A i \in DOMAIN vtx : vtx[i] \notin BadScripts
           Spends == \A i \in 2 .. n : ValidSpend(Before(coins, b, i), b, vtx[i])
           Cost == Sum([i \in DOMAIN vtx |-> CostOf(coins, b, i)])
           Fees == Sum([i \in DOMAIN vtx |-> IF i = 1 THEN 0 ELSE Fee(Before(coins, b, i), vtx[i])])
<1>2. ConnectBlock(coins, b).fValid <=> s[n].fOk /\ ValueOut(vtx[1]) <= Subsidy + s[n].nFees /\ Good
    BY <1>1 DEF ConnectResult
<1>3. ValidOn(Unspent(coins), b) <=>
        /\ OverwritesNone(coins, b) /\ Spends /\ Cost <= MAX_BLOCK_SIGOPS
        /\ ValueOut(vtx[1]) <= Subsidy + Fees
    BY OverwritesNoneIs DEF ValidOn, Before, FirstTxs, CostOf
<1>4. s[n].fOk /\ Good <=> OverwritesNone(coins, b) /\ Spends /\ Cost <= MAX_BLOCK_SIGOPS
    BY <1>1, LoopCompletes
<1>5. s[n].fOk => s[n].nFees = Fees
    BY <1>1, FeesAre
<1> HIDE DEF Good, Spends, Cost, Fees
<1> QED
    BY <1>2, <1>3, <1>4, <1>5

-----------------------------------------------------------------------------
\* DisconnectBlock undoes ConnectBlock

\* The undo data of one transaction.
LEMMA UpdateUndoType ==
    ASSUME NEW coins, NormalCoins(coins), NEW t \in Txids, HasInputs(coins, t), NEW h
    PROVE  UpdateCoins(coins, t, h).txundo \in Seq(UndoType)
<1> DEFINE n == Len(TxIn[t])
<1>1. coins \in AllCoins
    BY DEF NormalCoins
<1>2. PICK s : SpendLoop(s, coins, t) /\ UpdateCoins(coins, t, h) = [s[n] EXCEPT !.coins[t] = CoinsOf(t, h)]
    BY <1>1, UpdateLoop
<1>3. n \in Nat /\ n \in 0 .. n /\ \A j \in 1 .. n : TxIn[t][j].hash \in Txids /\ j - 1 \in 0 .. n
      /\ j - 1 < n /\ (j - 1) + 1 = j
    BY InputType
<1>4. \A k \in 0 .. n : SpentAt(s, coins, t, k)
    BY <1>2, SpendsAll
<1> HIDE DEF n
<1>5. s[n] \in SpentType /\ UpdateCoins(coins, t, h).txundo = s[n].txundo
    <2>1. s[n] \in SpentType
        BY <1>2, <1>3 DEF SpendLoop, n
    <2> QED
        BY <1>2, <2>1 DEF SpentType
<1>6. s[n].txundo \in Seq(Undos) /\ Len(s[n].txundo) = n
      /\ \A j \in 1 .. n : s[n].txundo[j] = SpendUndo(s[j - 1].coins[TxIn[t][j].hash], TxIn[t][j].n)
    <2>1. SpentAt(s, coins, t, n)
        BY <1>3, <1>4
    <2>2. s[n].txundo \in Seq(Undos)
        BY <1>5 DEF SpentType
    <2> QED
        BY <2>1, <2>2 DEF SpentAt
<1>7. ASSUME NEW j \in 1 .. n PROVE s[n].txundo[j] \in UndoType
    <2>1. SpentAt(s, coins, t, j - 1)
        BY <1>3, <1>4
    <2> DEFINE c == s[j - 1].coins[TxIn[t][j].hash]
    <2>2. Normal(c) /\ IsAvailable(c, TxIn[t][j].n)
        BY <1>3, <2>1 DEF SpentAt, Without, NormalCoins, n
    <2>3. SpendUndo(c, TxIn[t][j].n) \in UndoType
        BY <2>2, RestoreIs
    <2> QED
        BY <1>6, <2>3
<1>8. s[n].txundo \in Seq(UndoType)
    <2>1. s[n].txundo \in [1 .. n -> UndoType]
        BY <1>6, <1>7
    <2> QED
        BY <1>3, <2>1
<1> QED
    BY <1>5, <1>8

\* What ConnectBlock returns of its loop's last state.
LEMMA ResultIs ==
    ASSUME NEW end, NEW b
    PROVE  /\ ConnectResult(end, b).fOk = end.fOk
           /\ ConnectResult(end, b).coins = end.coins
           /\ ConnectResult(end, b).vtxundo = end.vtxundo
           /\ ConnectResult(end, b).nSupply = end.nSupply
BY DEF ConnectResult

\* What a block leaves of coins, and its undo data.
LEMMA ConnectBlockIs ==
    ASSUME NEW b \in Blocks \ {Genesis}, NEW coins, NormalCoins(coins), ConnectBlock(coins, b).fOk
    PROVE  /\ NormalCoins(ConnectBlock(coins, b).coins)
           /\ Unspent(ConnectBlock(coins, b).coins) = After(Unspent(coins), b, ToSet(BlockTxs[b]))
           /\ ConnectBlock(coins, b).vtxundo \in Seq(Seq(UndoType))
<1> DEFINE n == Len(BlockTxs[b])
           C == ConnectBlock(coins, b)
           Q == Seq(UndoType)
<1>1. PICK s : ConnectLoop(s, coins, b) /\ C = ConnectResult(s[n], b)
    BY ConnectLoopExists DEF NormalCoins
<1>2. C.fOk = s[n].fOk /\ C.coins = s[n].coins /\ C.vtxundo = s[n].vtxundo
    <2> HIDE DEF C
    <2> QED
        BY <1>1, ResultIs
<1>3. n \in Nat /\ n \in 0 .. n /\ DOMAIN BlockTxs[b] = 1 .. n
      /\ \A i \in 1 .. n : BlockTxs[b][i] \in Txids
    BY BlockIs
<1>4. \A i \in 0 .. n : HasConnected(s[i], coins, b, i)
    BY <1>1, <1>2, LoopComplete
<1>5. HasConnected(s[n], coins, b, n) /\ FirstTxs(b, n) = ToSet(BlockTxs[b])
    BY <1>3, <1>4 DEF FirstTxs, ToSet
<1> DEFINE T == {i \in 0 .. n : s[i].vtxundo \in Seq(Q)}
<1>6. 0 \in T
    <2>1. s[0].vtxundo = <<>>
        BY <1>1 DEF ConnectLoop, ConnectStart
    <2> HIDE DEF Q
    <2>2. s[0].vtxundo \in Seq(Q)
        BY <2>1
    <2>3. 0 \in 0 .. n
        BY <1>3
    <2> QED
        BY <2>2, <2>3
<1>7. ASSUME NEW k \in 0 .. n, k \in T, k < n PROVE k + 1 \in T
    <2> DEFINE i == k + 1
               t == BlockTxs[b][i]
               u == UpdateCoins(s[i - 1].coins, t, Height[b]).txundo
    <2>1. i \in 1 .. n /\ i \in 0 .. n /\ i - 1 = k
        BY <1>3, <1>7
    <2>2. /\ HasInputs(s[i - 1].coins, t) /\ NormalCoins(s[i - 1].coins)
          /\ s[i].vtxundo = IF i = 1 THEN s[i - 1].vtxundo ELSE Append(s[i - 1].vtxundo, u)
        BY <1>1, <1>2, <2>1, LoopComplete
    <2>3. u \in Q
        BY <1>3, <2>1, <2>2, UpdateUndoType
    <2> HIDE DEF u, Q, t
    <2>4. s[i].vtxundo \in Seq(Q)
        BY <1>7, <2>1, <2>2, <2>3
    <2> QED
        BY <2>1, <2>4
<1>8. 0 .. n \subseteq T
    <2> HIDE DEF T, n
    <2> QED
        BY <1>3, <1>6, <1>7, InductionTo
<1> QED
    BY <1>2, <1>3, <1>5, <1>8 DEF HasConnected

\* ConnectBlock changes only the coins it is said to touch.
LEMMA ConnectTouches ==
    ASSUME NEW b \in Blocks \ {Genesis}, NEW coins, NormalCoins(coins), ConnectBlock(coins, b).fOk,
           NEW x \in Txids \ Touched(b)
    PROVE  ConnectBlock(coins, b).coins[x] = coins[x]
<1> DEFINE d == ConnectBlock(coins, b).coins
           ts == ToSet(BlockTxs[b])
           unspent == Unspent(coins)
<1>1. NormalCoins(d) /\ Unspent(d) = After(unspent, b, ts)
    BY ConnectBlockIs
<1>2. /\ x \notin ts
      /\ \A in \in Points(ts) : in.hash # x
    <2>1. \A t \in ts : x # t /\ \A i \in DOMAIN TxIn[t] : TxIn[t][i].hash # x
        BY DEF Touched
    <2>2. \A t \in ts : \A in \in ToSet(TxIn[t]) : in.hash # x
        BY <2>1 DEF ToSet
    <2> QED
        BY <2>1, <2>2 DEF Points
<1>3. \A t : \A out \in OutputsOf(t, Height[b]) : out.hash = t
    BY DEF OutputsOf
<1> HIDE DEF d, ts, unspent
<1>4. ASSUME NEW out, out.hash = x PROVE out \in Unspent(d) <=> out \in unspent
    <2>1. out \notin UNION {OutputsOf(t, Height[b]) : t \in ts}
        BY <1>2, <1>3, <1>4
    <2>2. [hash |-> out.hash, n |-> out.n] \notin Points(ts)
        BY <1>2, <1>4
    <2> QED
        BY <1>1, <2>1, <2>2 DEF After
<1> QED
    BY <1>1, <1>4, UnspentDetermines DEF d, unspent

\* The undo data is that of the transactions but the coinbase, in their order.
LEMMA VtxundoIs ==
    ASSUME NEW b \in Blocks \ {Genesis}, NEW coins, NormalCoins(coins),
           NEW s, ConnectLoop(s, coins, b), s[Len(BlockTxs[b])].fOk
    PROVE  \A i \in 2 .. Len(BlockTxs[b]) :
                s[Len(BlockTxs[b])].vtxundo[i - 1]
                    = UpdateCoins(s[i - 1].coins, BlockTxs[b][i], Height[b]).txundo
<1> DEFINE n == Len(BlockTxs[b])
           u(i) == UpdateCoins(s[i - 1].coins, BlockTxs[b][i], Height[b]).txundo
           P(k) == /\ Len(s[k].vtxundo) = IF k = 0 THEN 0 ELSE k - 1
                   /\ \A i \in 2 .. k : s[k].vtxundo[i - 1] = u(i)
           T == {k \in 0 .. n : P(k)}
<1>1. n \in Nat /\ n \in 0 .. n
    BY BlockIs
<1>2. \A k \in 0 .. n : s[k].vtxundo \in Seq(Seq(Undos))
    BY DEF ConnectLoop, ConnectType
<1>3. \A i \in 1 .. n :
        s[i].vtxundo = IF i = 1 THEN s[i - 1].vtxundo ELSE Append(s[i - 1].vtxundo, u(i))
    BY LoopComplete
<1> HIDE DEF u, n
<1>4. 0 \in T
    <2>1. s[0].vtxundo = <<>>
        BY DEF ConnectLoop, ConnectStart
    <2> QED
        BY <1>1, <2>1
<1>5. ASSUME NEW k \in 0 .. n, k \in T, k < n PROVE k + 1 \in T
    <2>1. k + 1 \in 1 .. n /\ k + 1 \in 0 .. n /\ (k + 1) - 1 = k /\ k \in Nat
        BY <1>1, <1>5
    <2>2. P(k) /\ s[k].vtxundo \in Seq(Seq(Undos))
        BY <1>2, <1>5
    <2>3. s[k + 1].vtxundo = IF k = 0 THEN s[k].vtxundo ELSE Append(s[k].vtxundo, u(k + 1))
        BY <1>3, <2>1
    <2>4. CASE k = 0
        BY <2>1, <2>2, <2>3, <2>4
    <2>5. CASE k # 0
        <3>1. s[k + 1].vtxundo = Append(s[k].vtxundo, u(k + 1)) /\ Len(s[k].vtxundo) = k - 1
            BY <2>2, <2>3, <2>5
        <3> DEFINE Q == Seq(Undos)
        <3>2. s[k].vtxundo \in Seq(Q)
            BY <2>2
        <3> HIDE DEF Q
        <3>3. Len(s[k + 1].vtxundo) = k
              /\ s[k + 1].vtxundo[k] = u(k + 1)
              /\ \A j \in 1 .. k - 1 : s[k + 1].vtxundo[j] = s[k].vtxundo[j]
            BY <2>1, <2>5, <3>1, <3>2
        <3>4. ASSUME NEW i \in 2 .. k + 1 PROVE s[k + 1].vtxundo[i - 1] = u(i)
            <4>1. CASE i = k + 1
                BY <2>1, <3>3, <4>1
            <4>2. CASE i # k + 1
                <5>1. i \in 2 .. k /\ i - 1 \in 1 .. k - 1
                    BY <2>1, <4>2
                <5> QED
                    BY <2>2, <3>3, <5>1
            <4> QED
                BY <4>1, <4>2
        <3>5. P(k + 1)
            BY <2>1, <2>5, <3>3, <3>4
        <3> QED
            BY <2>1, <3>5
    <2> QED
        BY <2>4, <2>5
<1>6. 0 .. n \subseteq T
    <2> HIDE DEF T
    <2> QED
        BY <1>1, <1>4, <1>5, InductionTo
<1> QED
    BY <1>1, <1>6 DEF n, u

\* DisconnectBlock takes ConnectBlock back, with its undo data.
THEOREM DisconnectsWhatWasConnected ==
    ASSUME NEW b \in Blocks \ {Genesis}, NEW coins, NormalCoins(coins), ConnectBlock(coins, b).fOk
    PROVE  DisconnectBlock(ConnectBlock(coins, b).coins, b, ConnectBlock(coins, b).vtxundo)
            = [coins |-> coins, fClean |-> TRUE]
<1> DEFINE n == Len(BlockTxs[b])
           C == ConnectBlock(coins, b)
<1>1. PICK s : ConnectLoop(s, coins, b) /\ C = ConnectResult(s[n], b)
    BY ConnectLoopExists DEF NormalCoins
<1>2. C.fOk = s[n].fOk /\ C.coins = s[n].coins /\ C.vtxundo = s[n].vtxundo /\ s[n].fOk
    <2>1. C.fOk
        OBVIOUS
    <2> HIDE DEF C
    <2> QED
        BY <1>1, <2>1, ResultIs
<1>3. n \in Nat /\ n \in 0 .. n /\ DOMAIN BlockTxs[b] = 1 .. n /\ b \in Blocks
      /\ \A i \in 1 .. n : BlockTxs[b][i] \in Txids /\ (IsCoinBase(BlockTxs[b][i]) <=> i = 1)
      /\ Height[b] \in Nat \ {0}
    BY BlockIs
<1>turns. ASSUME NEW j \in 1 .. n
       PROVE  /\ HasInputs(s[j - 1].coins, BlockTxs[b][j]) /\ NormalCoins(s[j - 1].coins)
              /\ s[j - 1].coins[BlockTxs[b][j]] = Pruned
              /\ s[j].coins = UpdateCoins(s[j - 1].coins, BlockTxs[b][j], Height[b]).coins
    BY <1>1, <1>2, LoopComplete
<1> DEFINE vtxundo == s[n].vtxundo
           back(k) == [coins |-> s[n - k].coins, fClean |-> TRUE]
<1>4. ASSUME NEW k \in 1 .. n
      PROVE  DisconnectTx(back(k - 1), b, vtxundo, n - k + 1) = back(k)
    <2> DEFINE i == n - k + 1
               t == BlockTxs[b][i]
               c == s[i - 1].coins
    <2>1. i \in 1 .. n /\ n - k = i - 1 /\ n - (k - 1) = i
        BY <1>3
    <2>2. /\ HasInputs(c, t) /\ c[t] = Pruned /\ NormalCoins(c)
          /\ s[i].coins = UpdateCoins(c, t, Height[b]).coins
        <3> HIDE DEF i
        <3> QED
            BY <1>turns, <2>1
    <2>3. t \in Txids /\ (TxIn[t] # <<>> => i \in 2 .. n)
        <3>1. t \in Txids /\ (IsCoinBase(t) <=> i = 1)
            <4> HIDE DEF i
            <4> QED
                BY <1>3, <2>1
        <3> HIDE DEF i, t, n
        <3>2. i # 1 => i \in 2 .. n
            BY <1>3, <2>1
        <3> QED
            BY <3>1, <3>2 DEF IsCoinBase
    <2>4. TxIn[t] # <<>> => vtxundo[i - 1] = UpdateCoins(c, t, Height[b]).txundo
        BY <1>1, <1>2, <2>3, VtxundoIs
    <2>5. back(k - 1) = [coins |-> UpdateCoins(c, t, Height[b]).coins, fClean |-> TRUE]
        BY <2>1, <2>2
    <2>6. back(k) = [coins |-> c, fClean |-> TRUE]
        BY <2>1
    <2> HIDE DEF back, vtxundo, c, i, n
    <2>7. DisconnectTx([coins |-> UpdateCoins(c, t, Height[b]).coins, fClean |-> TRUE], b, vtxundo, i)
            = [coins |-> c, fClean |-> TRUE]
        BY <1>3, <2>2, <2>3, <2>4, TxUndone
    <2> QED
        BY <2>5, <2>6, <2>7 DEF i
<1>5. back(0) = [coins |-> C.coins, fClean |-> TRUE] /\ back(n) = [coins |-> coins, fClean |-> TRUE]
    <2>1. s[0].coins = coins /\ n - 0 = n /\ n - n = 0
        BY <1>1, <1>3 DEF ConnectLoop, ConnectStart
    <2> QED
        BY <1>2, <2>1
<1> DEFINE Loop(g) == g = [k \in 0 .. Len(BlockTxs[b]) |->
                            IF k = 0 THEN [coins |-> C.coins, fClean |-> TRUE]
                            ELSE DisconnectTx(g[k - 1], b, C.vtxundo, Len(BlockTxs[b]) - k + 1)]
           g0 == [k \in 0 .. n |-> back(k)]
           undone == CHOOSE g : Loop(g)
<1> HIDE DEF back, C
<1>6. DisconnectBlock(C.coins, b, C.vtxundo) = undone[n]
    BY DEF DisconnectBlock
<1> HIDE DEF n, undone
<1>7. Loop(g0)
    <2>1. \A k \in 1 .. n : g0[k - 1] = back(k - 1) /\ k # 0 /\ k - 1 \in 0 .. n
        BY <1>3
    <2>2. g0 = [k \in 0 .. n |-> IF k = 0 THEN [coins |-> C.coins, fClean |-> TRUE]
                                 ELSE DisconnectTx(g0[k - 1], b, C.vtxundo, n - k + 1)]
        BY <1>2, <1>3, <1>4, <1>5, <2>1
    <2> HIDE DEF g0
    <2> QED
        BY <2>2 DEF n
<1> HIDE DEF g0
<1>8. Loop(undone)
    BY <1>7 DEF undone
<1>9. undone = [k \in 0 .. n |-> IF k = 0 THEN back(0)
                                 ELSE DisconnectTx(undone[k - 1], b, vtxundo, n - k + 1)]
    BY <1>2, <1>5, <1>8 DEF n
<1> HIDE DEF Loop, vtxundo
<1>10. Follows(undone, g0, n)
    <2>1. g0[0] = back(0) /\ \A k \in 1 .. n : g0[k] = back(k) /\ g0[k - 1] = back(k - 1)
        BY <1>3 DEF g0
    <2>2. 0 \in 0 .. n /\ \A k \in 1 .. n : k \in 0 .. n /\ k # 0
        BY <1>3
    <2>3. undone[0] = back(0)
        BY <1>9, <2>2
    <2>4. \A k \in 1 .. n : undone[k] = DisconnectTx(undone[k - 1], b, vtxundo, n - k + 1)
        BY <1>9, <2>2
    <2> QED
        BY <1>4, <2>1, <2>3, <2>4 DEF Follows
<1>11. undone[n] = g0[n] /\ g0[n] = back(n)
    BY <1>3, <1>10, LoopIs DEF g0
<1> QED
    BY <1>5, <1>6, <1>11 DEF C

-----------------------------------------------------------------------------
\* The outputs of a chain

\* What UtxoOf says of a block, given a function for its parent.
UtxoBody(g, b) == IF b = Genesis THEN {} ELSE After(g[Parent[b]], b, ToSet(BlockTxs[b]))

\* g obeys the equation of UtxoOf up to height k.
UtxoUpTo(g, k) == \A b \in Blocks : Height[b] <= k => g[b] = UtxoBody(g, b)

\* The equation has a solution up to every height,
LEMMA UtxoUpToExists ==
    ASSUME NEW k \in Nat
    PROVE  \E g : UtxoUpTo(g, k)
<1> DEFINE T == {j \in Nat : \E g : UtxoUpTo(g, j)}
<1>0. \A b \in Blocks : Height[b] \in Nat
    BY BlockTreeAssumption DEF BlockTreeAssumption
<1>p. \A b \in Blocks \ {Genesis} :
        Parent[b] \in Blocks /\ Height[Parent[b]] < Height[b] /\ Height[Parent[b]] \in Nat
    BY <1>0, ParentBelow
<1>1. 0 \in T
    <2> DEFINE g == [b \in Blocks |-> {}]
    <2>1. \A b \in Blocks : Height[b] <= 0 => b = Genesis
        BY <1>0, <1>p
    <2>2. UtxoUpTo(g, 0)
        BY <2>1 DEF UtxoUpTo, UtxoBody
    <2> HIDE DEF g
    <2> QED
        BY <2>2
<1>2. ASSUME NEW j \in T PROVE j + 1 \in T
    <2>1. PICK g : UtxoUpTo(g, j)
        OBVIOUS
    <2> DEFINE h == [b \in Blocks |-> UtxoBody(g, b)]
    <2>2. ASSUME NEW b \in Blocks, Height[b] <= j + 1 PROVE h[b] = UtxoBody(h, b)
        <3>1. CASE b = Genesis
            BY <3>1 DEF UtxoBody
        <3>2. CASE b # Genesis
            <4>1. Parent[b] \in Blocks /\ Height[Parent[b]] <= j
                BY <1>0, <1>p, <2>2, <3>2
            <4>2. g[Parent[b]] = h[Parent[b]]
                BY <2>1, <4>1 DEF UtxoUpTo
            <4>3. h[b] = UtxoBody(g, b)
                OBVIOUS
            <4> HIDE DEF h
            <4> QED
                BY <4>2, <4>3 DEF UtxoBody
        <3> QED
            BY <3>1, <3>2
    <2>3. UtxoUpTo(h, j + 1)
        <3> HIDE DEF h
        <3> QED
            BY <2>2 DEF UtxoUpTo
    <2> HIDE DEF h
    <2> QED
        BY <2>3
<1>3. T = Nat
    <2>1. T \in SUBSET Nat
        OBVIOUS
    <2> HIDE DEF T
    <2> QED
        BY <1>1, <1>2, <2>1, Induction
<1> QED
    BY <1>3

\* ... and only one.
LEMMA UtxoUpToUnique ==
    ASSUME NEW j \in Nat, NEW k \in Nat, NEW g, NEW h, UtxoUpTo(g, j), UtxoUpTo(h, k)
    PROVE  \A b \in Blocks : Height[b] <= j /\ Height[b] <= k => g[b] = h[b]
<1> DEFINE Bad == {b \in Blocks : Height[b] <= j /\ Height[b] <= k /\ g[b] # h[b]}
<1>1. ASSUME Bad # {} PROVE FALSE
    <2>1. PICK b \in Bad : \A c \in Bad : Height[b] <= Height[c]
        <3>1. Bad \in SUBSET Blocks
            OBVIOUS
        <3> HIDE DEF Bad
        <3> QED
            BY <1>1, <3>1, LowestExists
    <2>2. g[b] = UtxoBody(g, b) /\ h[b] = UtxoBody(h, b) /\ b \in Blocks
        BY DEF UtxoUpTo
    <2>3. b # Genesis
        BY <2>2 DEF UtxoBody
    <2>4. /\ Parent[b] \in Blocks /\ Height[Parent[b]] < Height[b]
          /\ Height[Parent[b]] \in Nat /\ Height[b] \in Nat
        BY <2>2, <2>3, ParentBelow, BlockTreeAssumption DEF BlockTreeAssumption
    <2>5. Parent[b] \notin Bad
        <3> HIDE DEF Bad
        <3> QED
            BY <2>1, <2>4
    <2>6. g[Parent[b]] = h[Parent[b]]
        BY <2>4, <2>5
    <2> QED
        BY <2>2, <2>6 DEF UtxoBody
<1> QED
    BY <1>1

\* UtxoOf is that solution.
LEMMA UtxoOfIs == \A b \in Blocks : UtxoOf[b] = UtxoBody(UtxoOf, b)
<1> DEFINE G(k) == CHOOSE g : UtxoUpTo(g, k)
           f == [b \in Blocks |-> G(Height[b])[b]]
           Loop(u) == u = [b \in Blocks |-> IF b = Genesis THEN {}
                                            ELSE After(u[Parent[b]], b, ToSet(BlockTxs[b]))]
<1>0. \A b \in Blocks : Height[b] \in Nat
    BY BlockTreeAssumption DEF BlockTreeAssumption
<1>1. \A k \in Nat : UtxoUpTo(G(k), k)
    BY UtxoUpToExists
<1> HIDE DEF G
<1>2. ASSUME NEW b \in Blocks PROVE f[b] = UtxoBody(f, b)
    <2>1. f[b] = UtxoBody(G(Height[b]), b)
        BY <1>0, <1>1 DEF UtxoUpTo
    <2>2. CASE b = Genesis
        BY <2>1, <2>2 DEF UtxoBody
    <2>3. CASE b # Genesis
        <3>1. /\ Parent[b] \in Blocks /\ Height[Parent[b]] < Height[b]
              /\ Height[Parent[b]] \in Nat /\ Height[b] \in Nat
            BY <1>0, <2>3, ParentBelow
        <3>2. UtxoUpTo(G(Height[b]), Height[b]) /\ UtxoUpTo(G(Height[Parent[b]]), Height[Parent[b]])
            BY <1>1, <3>1
        <3>3. Height[Parent[b]] <= Height[b] /\ Height[Parent[b]] <= Height[Parent[b]]
            BY <3>1
        <3>4. G(Height[b])[Parent[b]] = G(Height[Parent[b]])[Parent[b]]
            BY <3>1, <3>2, <3>3, UtxoUpToUnique
        <3>5. f[Parent[b]] = G(Height[Parent[b]])[Parent[b]]
            BY <3>1
        <3> HIDE DEF f
        <3> QED
            BY <2>1, <3>4, <3>5 DEF UtxoBody
    <2> QED
        BY <2>2, <2>3
<1>3. Loop(f)
    <2>1. f = [b \in Blocks |-> f[b]]
        OBVIOUS
    <2> HIDE DEF f
    <2> QED
        BY <1>2, <2>1 DEF UtxoBody
<1> HIDE DEF f
<1>4. Loop(UtxoOf)
    BY <1>3 DEF UtxoOf
<1> QED
    BY <1>4 DEF UtxoBody

\* The outputs of a chain are those of its parent's after the block.
LEMMA UtxoIs ==
    /\ Utxo(NoBlock) = {} /\ Utxo(Genesis) = {}
    /\ \A b \in Blocks \ {Genesis} : Utxo(b) = After(Utxo(Parent[b]), b, ToSet(BlockTxs[b]))
<1>1. Genesis \in Blocks /\ NoBlock \notin Blocks
    BY BlockTreeAssumption DEF BlockTreeAssumption
<1>2. \A b \in Blocks \ {Genesis} : Parent[b] \in Blocks
    BY ParentBelow
<1> QED
    BY <1>1, <1>2, UtxoOfIs DEF Utxo, UtxoBody

-----------------------------------------------------------------------------
\* The coins of a chain

\* The coins are those of the chain that ends in b.
CoinsOfChain(coins, b) == NormalCoins(coins) /\ Unspent(coins) = Utxo(b)

\* A chain has only one such function.
LEMMA CoinsUnique ==
    ASSUME NEW c, NEW d, NEW b, CoinsOfChain(c, b), CoinsOfChain(d, b)
    PROVE  c = d
<1>1. \A t \in Txids : c[t] = d[t]
    BY UnspentDetermines DEF CoinsOfChain
<1>2. c \in [Txids -> CoinType] /\ d \in [Txids -> CoinType]
    BY DEF CoinsOfChain, NormalCoins, AllCoins
<1> QED
    BY <1>1, <1>2

\* The undo data is what a connection of b to its parent's chain has left.
UndoOfBlock(undo, b) ==
    \E coins : /\ CoinsOfChain(coins, Parent[b])
               /\ ConnectBlock(coins, b).fOk
               /\ undo = ConnectBlock(coins, b).vtxundo

\* Connecting b takes the coins of its parent's chain to those of its own,
LEMMA ConnectsChain ==
    ASSUME NEW b \in Blocks \ {Genesis}, NEW coins, CoinsOfChain(coins, Parent[b]),
           ConnectBlock(coins, b).fOk
    PROVE  /\ CoinsOfChain(ConnectBlock(coins, b).coins, b)
           /\ \A x \in Txids \ Touched(b) : ConnectBlock(coins, b).coins[x] = coins[x]
           /\ UndoOfBlock(ConnectBlock(coins, b).vtxundo, b)
           /\ ConnectBlock(coins, b).vtxundo \in Seq(Seq(UndoType))
<1>1. NormalCoins(coins) /\ Unspent(coins) = Utxo(Parent[b])
    BY DEF CoinsOfChain
<1> DEFINE C == ConnectBlock(coins, b)
<1>2. NormalCoins(C.coins) /\ Unspent(C.coins) = After(Unspent(coins), b, ToSet(BlockTxs[b]))
      /\ C.vtxundo \in Seq(Seq(UndoType))
    BY <1>1, ConnectBlockIs
<1>3. \A x \in Txids \ Touched(b) : C.coins[x] = coins[x]
    BY <1>1, ConnectTouches
<1>4. C.fOk
    OBVIOUS
<1>5. UndoOfBlock(C.vtxundo, b)
    BY DEF UndoOfBlock
<1> HIDE DEF C
<1>6. CoinsOfChain(C.coins, b)
    BY <1>1, <1>2, UtxoIs DEF CoinsOfChain
<1> QED
    BY <1>2, <1>3, <1>5, <1>6 DEF C

\* ... and disconnecting it takes them back, without a complaint.
LEMMA DisconnectsChain ==
    ASSUME NEW b \in Blocks \ {Genesis}, NEW coins, CoinsOfChain(coins, b),
           NEW undo, UndoOfBlock(undo, b)
    PROVE  /\ DisconnectBlock(coins, b, undo).fClean
           /\ CoinsOfChain(DisconnectBlock(coins, b, undo).coins, Parent[b])
           /\ \A x \in Txids \ Touched(b) : DisconnectBlock(coins, b, undo).coins[x] = coins[x]
<1>1. PICK below : /\ CoinsOfChain(below, Parent[b])
                   /\ ConnectBlock(below, b).fOk
                   /\ undo = ConnectBlock(below, b).vtxundo
    BY DEF UndoOfBlock
<1>2. /\ CoinsOfChain(ConnectBlock(below, b).coins, b)
      /\ \A x \in Txids \ Touched(b) : ConnectBlock(below, b).coins[x] = below[x]
    BY <1>1, ConnectsChain
<1>3. coins = ConnectBlock(below, b).coins
    BY <1>2, CoinsUnique
<1>4. NormalCoins(below)
    BY <1>1 DEF CoinsOfChain
<1>5. DisconnectBlock(ConnectBlock(below, b).coins, b, ConnectBlock(below, b).vtxundo)
        = [coins |-> below, fClean |-> TRUE]
    BY <1>1, <1>4, DisconnectsWhatWasConnected
<1>6. DisconnectBlock(coins, b, undo) = [coins |-> below, fClean |-> TRUE]
    BY <1>1, <1>3, <1>5
<1> QED
    BY <1>1, <1>2, <1>3, <1>6

-----------------------------------------------------------------------------
\* What a set of outputs is worth

\* Induction over the subsets of a finite set.
LEMMA SubsetInduction ==
    ASSUME NEW S, IsFiniteSet(S), NEW T, {} \in T,
           \A s \in (SUBSET S) \ {{}} : (\A x \in s : s \ {x} \in T) => s \in T
    PROVE  SUBSET S \subseteq T
<1> DEFINE n == Cardinality(S)
           U == {k \in 0 .. n : \A s \in SUBSET S : Cardinality(s) = k => s \in T}
<1>1. n \in Nat
    BY FS_CardinalityType
<1>2. ASSUME NEW s \in SUBSET S
      PROVE  IsFiniteSet(s) /\ Cardinality(s) \in 0 .. n /\ (Cardinality(s) = 0 => s = {})
    <2>1. IsFiniteSet(s) /\ Cardinality(s) <= n
        BY FS_Subset
    <2>2. Cardinality(s) \in Nat
        BY <2>1, FS_CardinalityType
    <2>3. Cardinality(s) = 0 => s = {}
        BY <2>1, FS_EmptySet
    <2> QED
        BY <1>1, <2>1, <2>2, <2>3
<1> HIDE DEF n
<1>3. 0 \in U
    <2>1. 0 \in 0 .. n
        BY <1>1
    <2>2. ASSUME NEW s \in SUBSET S, Cardinality(s) = 0 PROVE s \in T
        BY <1>2, <2>2
    <2> QED
        BY <2>1, <2>2
<1>4. ASSUME NEW k \in 0 .. n, k \in U, k < n PROVE k + 1 \in U
    <2>1. ASSUME NEW s \in SUBSET S, Cardinality(s) = k + 1 PROVE s \in T
        <3>1. s # {}
            <4>1. Cardinality({}) # k + 1
                BY <1>1, FS_EmptySet
            <4> QED
                BY <2>1, <4>1
        <3>2. ASSUME NEW x \in s PROVE s \ {x} \in T
            <4>1. Cardinality(s \ {x}) = k
                <5>1. Cardinality(s \ {x}) = Cardinality(s) - 1
                    BY <1>2, FS_RemoveElement
                <5> QED
                    BY <1>1, <2>1, <5>1
            <4> QED
                BY <1>4, <4>1
        <3> QED
            BY <3>1, <3>2
    <2> QED
        BY <1>1, <1>4, <2>1
<1>5. 0 .. n \subseteq U
    <2> HIDE DEF U
    <2> QED
        BY <1>1, <1>3, <1>4, InductionTo
<1> QED
    BY <1>2, <1>5

First(s) == CHOOSE x \in s : TRUE

\* g adds up the values of every subset of S, output by output.
AddsUp(g, S) ==
    /\ g \in [SUBSET S -> Int]
    /\ g[{}] = 0
    /\ \A s \in (SUBSET S) \ {{}} : g[s] = First(s).nValue + g[s \ {First(s)}]

Valued(S) == IsFiniteSet(S) /\ \A x \in S : x.nValue \in Int

LEMMA AddsUpExists ==
    ASSUME NEW S, Valued(S)
    PROVE  \E g : AddsUp(g, S)
<1> DEFINE n == Cardinality(S)
           To(g, k) == /\ g \in [SUBSET S -> Int]
                       /\ g[{}] = 0
                       /\ \A s \in (SUBSET S) \ {{}} :
                            Cardinality(s) <= k => g[s] = First(s).nValue + g[s \ {First(s)}]
           T == {k \in 0 .. n : \E g : To(g, k)}
<1>1. n \in Nat
    BY FS_CardinalityType DEF Valued
<1>2. ASSUME NEW s \in SUBSET S
      PROVE  IsFiniteSet(s) /\ Cardinality(s) \in 0 .. n /\ (Cardinality(s) = 0 => s = {})
    <2>1. IsFiniteSet(s) /\ Cardinality(s) <= n
        BY FS_Subset DEF Valued
    <2>2. Cardinality(s) \in Nat
        BY <2>1, FS_CardinalityType
    <2>3. Cardinality(s) = 0 => s = {}
        BY <2>1, FS_EmptySet
    <2> QED
        BY <1>1, <2>1, <2>2, <2>3
<1>3. ASSUME NEW s \in (SUBSET S) \ {{}}
      PROVE  /\ First(s).nValue \in Int
             /\ s \ {First(s)} \in SUBSET S
             /\ Cardinality(s \ {First(s)}) = Cardinality(s) - 1
    <2>1. First(s) \in s
        BY DEF First
    <2> QED
        BY <1>2, <2>1, FS_RemoveElement DEF Valued
<1> HIDE DEF n
<1>4. 0 \in T
    <2> DEFINE g == [s \in SUBSET S |-> 0]
    <2>1. To(g, 0)
        BY <1>1, <1>2
    <2> HIDE DEF g, To
    <2> QED
        BY <1>1, <2>1
<1>5. ASSUME NEW k \in 0 .. n, k \in T, k < n PROVE k + 1 \in T
    <2>1. PICK g : To(g, k)
        BY <1>5
    <2> DEFINE h == [s \in SUBSET S |->
                        IF Cardinality(s) = k + 1 THEN First(s).nValue + g[s \ {First(s)}] ELSE g[s]]
    <2>2. ASSUME NEW s \in SUBSET S, Cardinality(s) # k + 1 PROVE h[s] = g[s]
        BY <2>2
    <2>3. h \in [SUBSET S -> Int]
        <3>1. ASSUME NEW s \in SUBSET S PROVE h[s] \in Int
            <4>1. CASE Cardinality(s) # k + 1
                BY <2>1, <2>2, <4>1
            <4>2. CASE Cardinality(s) = k + 1
                <5>1. s # {}
                    BY <1>1, <4>2, FS_EmptySet
                <5>2. First(s).nValue \in Int /\ g[s \ {First(s)}] \in Int
                    BY <1>3, <2>1, <5>1
                <5> QED
                    BY <4>2, <5>2
            <4> QED
                BY <4>1, <4>2
        <3> QED
            BY <3>1
    <2>4. h[{}] = 0
        <3>1. Cardinality({}) # k + 1
            BY <1>1, FS_EmptySet
        <3> QED
            BY <2>1, <2>2, <3>1
    <2>5. ASSUME NEW s \in (SUBSET S) \ {{}}, Cardinality(s) <= k + 1
          PROVE  h[s] = First(s).nValue + h[s \ {First(s)}]
        <3>1. s \ {First(s)} \in SUBSET S /\ Cardinality(s \ {First(s)}) # k + 1
              /\ Cardinality(s) \in Nat
            BY <1>1, <1>2, <1>3, <2>5
        <3>2. h[s \ {First(s)}] = g[s \ {First(s)}]
            BY <2>2, <3>1
        <3>3. CASE Cardinality(s) = k + 1
            BY <3>2, <3>3
        <3>4. CASE Cardinality(s) # k + 1
            <4>1. Cardinality(s) <= k
                BY <1>1, <2>5, <3>1, <3>4
            <4>2. g[s] = First(s).nValue + g[s \ {First(s)}]
                BY <2>1, <4>1
            <4> QED
                BY <2>2, <3>2, <3>4, <4>2
        <3> QED
            BY <3>3, <3>4
    <2>6. To(h, k + 1)
        <3> HIDE DEF h
        <3> QED
            BY <2>3, <2>4, <2>5
    <2> HIDE DEF To, h
    <2> QED
        BY <1>1, <1>5, <2>6
<1>6. n \in T
    <2>1. 0 .. n \subseteq T
        <3> HIDE DEF T
        <3> QED
            BY <1>1, <1>4, <1>5, InductionTo
    <2> HIDE DEF T
    <2> QED
        BY <1>1, <2>1
<1>7. PICK g : To(g, n)
    <2> HIDE DEF To
    <2> QED
        BY <1>6
<1>8. AddsUp(g, S)
    <2>1. \A s \in (SUBSET S) \ {{}} : Cardinality(s) <= n
        BY <1>1, <1>2
    <2> QED
        BY <1>7, <2>1 DEF AddsUp
<1> QED
    BY <1>8

\* Total is such a function's value.
LEMMA TotalIs ==
    ASSUME NEW S, Valued(S)
    PROVE  \E g : AddsUp(g, S) /\ Total(S) = g[S]
<1> DEFINE Loop(g) == g = [s \in SUBSET S |->
                            IF s = {} THEN 0
                            ELSE (CHOOSE x \in s : TRUE).nValue + g[s \ {CHOOSE x \in s : TRUE}]]
           total == CHOOSE g : Loop(g)
<1>1. Total(S) = total[S]
    BY DEF Total, MapThenSumSet, MapThenFoldSet
<1> HIDE DEF total
<1>2. ASSUME NEW g, AddsUp(g, S) PROVE Loop(g)
    <2>1. g = [s \in SUBSET S |-> g[s]]
        BY <1>2 DEF AddsUp
    <2>2. \A s \in SUBSET S : g[s] = IF s = {} THEN 0 ELSE First(s).nValue + g[s \ {First(s)}]
        BY <1>2 DEF AddsUp
    <2> QED
        BY <2>1, <2>2 DEF First
<1>3. Loop(total)
    <2> HIDE DEF Loop
    <2>1. \E g : Loop(g)
        BY <1>2, AddsUpExists
    <2> QED
        BY <2>1 DEF total
<1>4. /\ DOMAIN total = SUBSET S /\ total = [s \in SUBSET S |-> total[s]] /\ total[{}] = 0
      /\ \A s \in (SUBSET S) \ {{}} : total[s] = First(s).nValue + total[s \ {First(s)}]
    BY <1>3 DEF First
<1> HIDE DEF Loop
<1> DEFINE T == {s \in SUBSET S : total[s] \in Int}
<1>5. SUBSET S \subseteq T
    <2>1. {} \in T
        BY <1>4
    <2>2. ASSUME NEW s \in (SUBSET S) \ {{}}, \A x \in s : s \ {x} \in T PROVE s \in T
        <3> DEFINE x == First(s)
        <3>1. x \in s
            BY DEF First
        <3>2. total[s] = x.nValue + total[s \ {x}]
            BY <1>4
        <3> HIDE DEF x
        <3>3. x.nValue \in Int /\ total[s \ {x}] \in Int
            BY <2>2, <3>1 DEF Valued
        <3>4. total[s] \in Int
            BY <3>2, <3>3
        <3> QED
            BY <3>4
    <2> HIDE DEF T
    <2> QED
        BY <2>1, <2>2, SubsetInduction DEF Valued
<1>6. total \in [SUBSET S -> Int]
    BY <1>4, <1>5
<1> QED
    BY <1>1, <1>4, <1>6 DEF AddsUp

\* It is a number.
LEMMA TotalType ==
    ASSUME NEW S, Valued(S)
    PROVE  Total(S) \in Int
<1>1. PICK g : AddsUp(g, S) /\ Total(S) = g[S]
    BY TotalIs
<1> QED
    BY <1>1 DEF AddsUp

\* The order does not matter: any output may be added last.
LEMMA AnyLast ==
    ASSUME NEW S, Valued(S), NEW g, AddsUp(g, S)
    PROVE  \A s \in SUBSET S : \A y \in s : g[s] = y.nValue + g[s \ {y}]
<1> DEFINE T == {s \in SUBSET S : \A y \in s : g[s] = y.nValue + g[s \ {y}]}
<1>1. {} \in T
    OBVIOUS
<1>2. ASSUME NEW s \in (SUBSET S) \ {{}}, \A x \in s : s \ {x} \in T PROVE s \in T
    <2> DEFINE x == First(s)
    <2>1. x \in s
        BY DEF First
    <2>2. g[s] = x.nValue + g[s \ {x}]
        BY DEF AddsUp
    <2> HIDE DEF x
    <2>3. ASSUME NEW y \in s, y # x PROVE g[s] = y.nValue + g[s \ {y}]
        <3>1. g[s \ {x}] = y.nValue + g[(s \ {x}) \ {y}]
            BY <1>2, <2>1, <2>3
        <3>2. g[s \ {y}] = x.nValue + g[(s \ {y}) \ {x}]
            BY <1>2, <2>1, <2>3
        <3> DEFINE r == (s \ {x}) \ {y}
        <3>3. r = (s \ {y}) \ {x} /\ r \in SUBSET S
            OBVIOUS
        <3>4. g[s \ {x}] = y.nValue + g[r] /\ g[s \ {y}] = x.nValue + g[r]
            BY <3>1, <3>2, <3>3
        <3> HIDE DEF r
        <3>5. x.nValue \in Int /\ y.nValue \in Int /\ g[r] \in Int
            BY <2>1, <3>3 DEF Valued, AddsUp
        <3> QED
            BY <2>2, <3>4, <3>5
    <2> QED
        BY <2>2, <2>3
<1>3. SUBSET S \subseteq T
    <2> HIDE DEF T
    <2> QED
        BY <1>1, <1>2, SubsetInduction DEF Valued
<1> QED
    BY <1>3

\* One more output.
LEMMA TotalWith ==
    ASSUME NEW S, Valued(S), NEW x, x \notin S, x.nValue \in Int
    PROVE  /\ Valued(S \cup {x})
           /\ Total(S) \in Int
           /\ Total(S \cup {x}) = Total(S) + x.nValue
<1> DEFINE R == S \cup {x}
<1>1. Valued(R)
    BY FS_AddElement DEF Valued
<1>2. PICK g : AddsUp(g, S) /\ Total(S) = g[S]
    BY TotalIs
<1>3. PICK h : AddsUp(h, R) /\ Total(R) = h[R]
    <2> HIDE DEF R
    <2> QED
        BY <1>1, TotalIs
<1>4. h[R] = x.nValue + h[S]
    <2>1. x \in R /\ R \in SUBSET R /\ R \ {x} = S
        OBVIOUS
    <2> HIDE DEF R
    <2> QED
        BY <1>1, <1>3, <2>1, AnyLast
<1> DEFINE T == {s \in SUBSET S : g[s] = h[s]}
<1>5. SUBSET S \subseteq T
    <2>1. {} \in T
        BY <1>2, <1>3 DEF AddsUp
    <2>2. ASSUME NEW s \in (SUBSET S) \ {{}}, \A y \in s : s \ {y} \in T PROVE s \in T
        <3>1. First(s) \in s
            BY DEF First
        <3>2. s \in SUBSET R
            OBVIOUS
        <3> HIDE DEF R
        <3> QED
            BY <1>2, <1>3, <2>2, <3>1, <3>2 DEF AddsUp
    <2> HIDE DEF T
    <2> QED
        BY <2>1, <2>2, SubsetInduction DEF Valued
<1>6. g[S] = h[S] /\ g[S] \in Int
    BY <1>2, <1>5 DEF AddsUp
<1> QED
    BY <1>1, <1>2, <1>3, <1>4, <1>6

\* The first k of the outputs that q lists.
Listed(q, k) == {q[i] : i \in 1 .. k}

\* The outputs of R add v to what S is worth.
Adds(S, R, v) == Valued(S \cup R) /\ Total(S \cup R) = Total(S) + v

\* A list of different outputs adds the sum of its values.
LEMMA TotalOfList ==
    ASSUME NEW n \in Nat, NEW q, NEW values \in Seq(Int), Len(values) = n,
           \A i \in 1 .. n : q[i].nValue = values[i],
           \A i, j \in 1 .. n : q[i] = q[j] => i = j,
           NEW S, Valued(S), \A i \in 1 .. n : q[i] \notin S
    PROVE  Adds(S, Listed(q, n), Sum(values))
<1>1. PICK total \in [0 .. n -> Int] :
        /\ total[0] = 0
        /\ \A i \in 1 .. n : total[i] = total[i - 1] + values[i]
        /\ Sum(values) = total[n]
    BY SumLoop
<1> DEFINE Up(k) == S \cup Listed(q, k)
           T == {k \in 0 .. n : Valued(Up(k)) /\ Total(Up(k)) = Total(S) + total[k]}
<1>2. Total(S) \in Int
    <2>1. PICK g : AddsUp(g, S) /\ Total(S) = g[S]
        BY TotalIs
    <2> QED
        BY <2>1 DEF AddsUp
<1>3. 0 \in T
    <2>1. Up(0) = S
        BY DEF Listed
    <2>2. 0 \in 0 .. n
        OBVIOUS
    <2> HIDE DEF Up
    <2> QED
        BY <1>1, <1>2, <2>1, <2>2
<1>4. ASSUME NEW k \in 0 .. n, k \in T, k < n PROVE k + 1 \in T
    <2> DEFINE x == q[k + 1]
    <2>1. k + 1 \in 1 .. n /\ k + 1 \in 0 .. n /\ (k + 1) - 1 = k
        BY <1>4
    <2>2. Up(k + 1) = Up(k) \cup {x}
        <3>1. 1 .. k + 1 = (1 .. k) \cup {k + 1}
            BY <2>1
        <3>2. Listed(q, k + 1) = Listed(q, k) \cup {x}
            <4>1. Listed(q, k + 1) = {q[i] : i \in (1 .. k) \cup {k + 1}}
                BY <3>1 DEF Listed
            <4>2. {q[i] : i \in (1 .. k) \cup {k + 1}} = {q[i] : i \in 1 .. k} \cup {q[k + 1]}
                OBVIOUS
            <4> QED
                BY <4>1, <4>2 DEF Listed
        <3> HIDE DEF x
        <3> QED
            BY <3>2
    <2>3. x \notin Up(k)
        <3>1. \A i \in 1 .. k : i \in 1 .. n /\ i # k + 1
            BY <2>1
        <3> QED
            BY <2>1, <3>1 DEF Listed
    <2>4. x.nValue = values[k + 1] /\ x.nValue \in Int
        BY <2>1
    <2> HIDE DEF Up, x
    <2>5. /\ Valued(Up(k) \cup {x})
          /\ Total(Up(k)) \in Int
          /\ Total(Up(k) \cup {x}) = Total(Up(k)) + x.nValue
        BY <1>4, <2>3, <2>4, TotalWith
    <2>6. total[k + 1] = total[k] + x.nValue /\ total[k] \in Int
        BY <1>1, <2>1, <2>4
    <2>7. Total(Up(k + 1)) = Total(S) + total[k + 1]
        <3>1. Total(Up(k)) = Total(S) + total[k]
            BY <1>4
        <3>2. Total(Up(k + 1)) = Total(Up(k)) + x.nValue
            BY <2>2, <2>5
        <3>3. \A u, v, w \in Int : (u + v) + w = u + (v + w)
            OBVIOUS
        <3> HIDE DEF T
        <3> QED
            BY <1>2, <2>4, <2>6, <3>1, <3>2, <3>3
    <2> QED
        BY <2>1, <2>2, <2>5, <2>7
<1>5. n \in T
    <2>1. 0 .. n \subseteq T
        <3> HIDE DEF T
        <3> QED
            BY <1>3, <1>4, InductionTo
    <2> HIDE DEF T
    <2> QED
        BY <2>1
<1> QED
    BY <1>1, <1>5 DEF Adds

\* The outputs of a transaction are worth ValueOut.
LEMMA OutputsAdd ==
    ASSUME NEW t \in Txids, NEW h, NEW S, Valued(S), \A out \in S : out.hash # t
    PROVE  Adds(S, OutputsOf(t, h), ValueOut(t))
<1> DEFINE n == Len(TxOut[t])
           q == [i \in 1 .. n |-> [hash |-> t, n |-> i, nValue |-> TxOut[t][i].nValue,
                                   fP2SH |-> TxOut[t][i].fP2SH,
                                   nHeight |-> h, fCoinBase |-> IsCoinBase(t)]]
           values == [m \in DOMAIN TxOut[t] |-> TxOut[t][m].nValue]
<1>1. TxOut[t] \in Seq(CTxOut) /\ values \in Seq(Nat)
    BY OutValues, TransactionAssumption DEF TransactionAssumption
<1>2. n \in Nat /\ DOMAIN TxOut[t] = 1 .. n
    BY <1>1
<1>3. OutputsOf(t, h) = Listed(q, n)
    BY <1>2 DEF OutputsOf, Listed
<1>4. \A i \in 1 .. n : q[i].nValue = values[i] /\ q[i].n = i /\ q[i].hash = t
    BY <1>2
<1>5. Len(values) = n /\ values \in Seq(Int)
    <2>1. DOMAIN values = 1 .. n
        BY <1>2
    <2> HIDE DEF values
    <2> QED
        BY <1>1, <1>2, <2>1
<1>8. ValueOut(t) = Sum(values)
    BY DEF ValueOut
<1>6. /\ \A i, j \in 1 .. n : q[i] = q[j] => i = j
      /\ \A i \in 1 .. n : q[i] \notin S
      /\ \A i \in 1 .. n : q[i].nValue = values[i]
    <2>1. \A i \in 1 .. n : \A out \in S : q[i] # out
        <3> HIDE DEF q, values
        <3> QED
            BY <1>4
    <2> HIDE DEF q, values, n
    <2> QED
        BY <1>4, <2>1
<1> HIDE DEF q, n, values
<1>7. Adds(S, Listed(q, n), Sum(values))
    BY <1>2, <1>5, <1>6, TotalOfList
<1> QED
    BY <1>3, <1>7, <1>8

\* Spending its inputs takes ValueIn away.
LEMMA InputsAdd ==
    ASSUME NEW coins \in AllCoins, NEW t \in Txids, HasInputs(coins, t), Valued(Unspent(coins))
    PROVE  LET kept == {out \in Unspent(coins) : [hash |-> out.hash, n |-> out.n] \notin ToSet(TxIn[t])}
           IN  Valued(kept) /\ Total(Unspent(coins)) = Total(kept) + ValueIn(coins, t)
<1> DEFINE vin == TxIn[t]
           n == Len(vin)
           kept == {out \in Unspent(coins) : [hash |-> out.hash, n |-> out.n] \notin ToSet(vin)}
           q == [i \in 1 .. n |-> Out(coins, vin[i].hash, vin[i].n)]
           values == [i \in DOMAIN vin |-> OutputFor(coins, vin[i]).nValue]
<1>1. n \in Nat /\ DOMAIN vin = 1 .. n /\ \A i, j \in 1 .. n : vin[i] = vin[j] => i = j
    BY InputType
<1>2. ASSUME NEW i \in 1 .. n
      PROVE  /\ q[i] \in Unspent(coins) /\ [hash |-> q[i].hash, n |-> q[i].n] = vin[i]
             /\ q[i].nValue = values[i] /\ vin[i] \in ToSet(vin)
    <2>1. /\ vin[i].hash \in Txids /\ vin[i].n \in Nat /\ vin[i] \in ToSet(vin)
          /\ vin[i] = [hash |-> vin[i].hash, n |-> vin[i].n]
          /\ IsAvailable(coins[vin[i].hash], vin[i].n)
        BY <1>1, InputsAre DEF HasInputs
    <2>2. q[i] = Out(coins, vin[i].hash, vin[i].n) /\ values[i] = coins[vin[i].hash].vout[vin[i].n].nValue
        <3>1. i \in DOMAIN vin
            BY <1>1
        <3>2. values[i] = OutputFor(coins, vin[i]).nValue
            BY <3>1
        <3> QED
            BY <3>2 DEF OutputFor
    <2> HIDE DEF q, values
    <2>3. q[i] \in Unspent(coins)
        BY <2>1, <2>2, UnspentAt
    <2>4. q[i].hash = vin[i].hash /\ q[i].n = vin[i].n /\ q[i].nValue = values[i]
        BY <2>2 DEF Out
    <2> QED
        BY <2>1, <2>3, <2>4
<1>3. ASSUME NEW out \in Unspent(coins), [hash |-> out.hash, n |-> out.n] \in ToSet(vin)
      PROVE  \E i \in 1 .. n : out = q[i]
    <2>1. PICK i \in 1 .. n : [hash |-> out.hash, n |-> out.n] = vin[i]
        <3> DEFINE in == [hash |-> out.hash, n |-> out.n]
        <3>1. in \in ToSet(vin)
            BY <1>3
        <3> HIDE DEF in
        <3>2. \E i \in DOMAIN vin : in = vin[i]
            BY <3>1, InputsAre
        <3> QED
            BY <1>1, <3>2 DEF in
    <2>2. vin[i].hash \in Txids /\ vin[i].n \in Nat /\ vin[i] = [hash |-> vin[i].hash, n |-> vin[i].n]
        BY <1>1, InputsAre
    <2>3. out = Out(coins, vin[i].hash, vin[i].n)
        BY <2>1, <2>2, UnspentAt
    <2> QED
        BY <2>3
<1>4. values \in Seq(Int) /\ Len(values) = n
    <2>1. ASSUME NEW i \in 1 .. n PROVE values[i] \in Int
        BY <1>2 DEF Valued
    <2>2. values \in [1 .. n -> Int]
        BY <1>1, <2>1
    <2> HIDE DEF values
    <2> QED
        BY <1>1, <2>2
<1>5. ValueIn(coins, t) = Sum(values)
    BY DEF ValueIn
<1> HIDE DEF q, values, n
<1>6. Unspent(coins) = kept \cup Listed(q, n)
    BY <1>2, <1>3 DEF Listed
<1>7. /\ \A i, j \in 1 .. n : q[i] = q[j] => i = j
      /\ \A i \in 1 .. n : q[i] \notin kept
      /\ \A i \in 1 .. n : q[i].nValue = values[i]
    BY <1>1, <1>2
<1>8. Valued(kept)
    BY FS_Subset DEF Valued
<1> HIDE DEF kept
<1>9. Adds(kept, Listed(q, n), Sum(values))
    BY <1>1, <1>4, <1>7, <1>8, TotalOfList
<1> QED
    BY <1>5, <1>6, <1>8, <1>9 DEF kept, Adds

-----------------------------------------------------------------------------
\* What a block adds to the money supply

\* UpdateCoins adds what t pays out to the value of the outputs and takes its inputs away.
LEMMA UpdateTotal ==
    ASSUME NEW coins, NormalCoins(coins), NEW t \in Txids, HasInputs(coins, t),
           coins[t] = Pruned, NEW h \in Nat \ {0}, Valued(Unspent(coins))
    PROVE  LET d == UpdateCoins(coins, t, h).coins
           IN  /\ Valued(Unspent(d))
               /\ Total(Unspent(d)) = Total(Unspent(coins)) + ValueOut(t) - ValueIn(coins, t)
<1> DEFINE d == UpdateCoins(coins, t, h).coins
           kept == {out \in Unspent(coins) : [hash |-> out.hash, n |-> out.n] \notin ToSet(TxIn[t])}
<1>1. coins \in AllCoins
    BY DEF NormalCoins
<1>2. Valued(kept) /\ Total(Unspent(coins)) = Total(kept) + ValueIn(coins, t)
    BY <1>1, InputsAdd
<1>3. Unspent(d) = kept \cup OutputsOf(t, h)
    BY UpdateUnspent
<1>4. \A out \in kept : out.hash # t
    <2>1. \A m : ~IsAvailable(coins[t], m)
        BY DEF IsAvailable, Pruned
    <2>2. \A out \in Unspent(coins) : out.hash # t
        BY <1>1, <2>1, UnspentIs DEF Out
    <2> QED
        BY <2>2
<1> HIDE DEF d, kept
<1>5. Adds(kept, OutputsOf(t, h), ValueOut(t))
    BY <1>2, <1>4, OutputsAdd
<1>6. Valued(Unspent(d)) /\ Total(Unspent(d)) = Total(kept) + ValueOut(t)
    BY <1>3, <1>5 DEF Adds
<1>7. Total(kept) \in Int /\ ValueIn(coins, t) \in Int /\ ValueOut(t) \in Int
    BY <1>1, <1>2, ValueInIs, TotalType
<1>8. Total(Unspent(d)) = Total(Unspent(coins)) + ValueOut(t) - ValueIn(coins, t)
    <2>1. \A k, in, out \in Int : k + out = (k + in) + out - in
        OBVIOUS
    <2> QED
        BY <1>2, <1>6, <1>7, <2>1
<1> QED
    BY <1>6, <1>8 DEF d

\* A coinbase has nothing to spend.
LEMMA CoinBaseValueIn ==
    ASSUME NEW coins, NEW t \in Txids, IsCoinBase(t)
    PROVE  ValueIn(coins, t) = 0
<1> DEFINE values == [i \in DOMAIN TxIn[t] |-> OutputFor(coins, TxIn[t][i]).nValue]
<1>1. values = <<>>
    BY DEF IsCoinBase
<1>2. ValueIn(coins, t) = Sum(values)
    BY DEF ValueIn
<1> HIDE DEF values
<1>3. values \in Seq(Int) /\ Len(values) = 0
    BY <1>1
<1>4. \E total \in [0 .. Len(values) -> Int] : total[0] = 0 /\ Sum(values) = total[Len(values)]
    BY <1>3, SumLoop
<1> QED
    BY <1>2, <1>3, <1>4

\* What one turn of the loop adds to nSupply.
LEMMA TurnSupply ==
    ASSUME NEW r \in ConnectType, NEW t, NEW h, ConnectTx(r, t, h).fOk
    PROVE  ConnectTx(r, t, h).nSupply
            = r.nSupply + ValueOut(t) - (IF IsCoinBase(t) THEN 0 ELSE ValueIn(r.coins, t))
BY DEF ConnectTx, ConnectType

\* nSupply is what the transactions so far have added to the value of the outputs.
LEMMA SupplyIs ==
    ASSUME NEW b \in Blocks \ {Genesis}, NEW coins, NormalCoins(coins), Valued(Unspent(coins)),
           NEW s, ConnectLoop(s, coins, b), s[Len(BlockTxs[b])].fOk
    PROVE  LET end == s[Len(BlockTxs[b])]
           IN  /\ Valued(Unspent(end.coins))
               /\ Total(Unspent(end.coins)) = Total(Unspent(coins)) + end.nSupply
<1> DEFINE n == Len(BlockTxs[b])
           P(k) == /\ Valued(Unspent(s[k].coins))
                   /\ Total(Unspent(s[k].coins)) = Total(Unspent(coins)) + s[k].nSupply
           T == {k \in 0 .. n : P(k)}
<1>1. /\ n \in Nat /\ n \in 0 .. n /\ Height[b] \in Nat \ {0}
      /\ \A i \in 1 .. n : BlockTxs[b][i] \in Txids
    BY BlockIs
<1>2. /\ \A i \in 0 .. n : s[i] \in ConnectType /\ s[i].nSupply \in Int
      /\ s[0] = ConnectStart(coins, b)
      /\ \A i \in 1 .. n : s[i] = ConnectTx(s[i - 1], BlockTxs[b][i], Height[b])
    BY DEF ConnectLoop, ConnectType
<1>3. \A i \in 1 .. n : s[i].fOk
    <2>1. \A i \in 0 .. n : HasConnected(s[i], coins, b, i)
        BY LoopComplete
    <2> QED
        BY <1>1, <2>1 DEF HasConnected
<1>4. Total(Unspent(coins)) \in Int
    BY TotalType
<1>5. 0 \in T
    <2>1. s[0].coins = coins /\ s[0].nSupply = 0
        BY <1>2 DEF ConnectStart
    <2>2. P(0)
        BY <1>4, <2>1
    <2> HIDE DEF P
    <2> QED
        BY <1>1, <2>2
<1>6. ASSUME NEW k \in 0 .. n, k \in T, k < n PROVE k + 1 \in T
    <2> DEFINE t == BlockTxs[b][k + 1]
               r == s[k]
               e == s[k + 1]
               c == r.coins
    <2>1. k + 1 \in 1 .. n /\ k + 1 \in 0 .. n /\ (k + 1) - 1 = k
        BY <1>1, <1>6
    <2>2. /\ HasInputs(c, t) /\ c[t] = Pruned /\ NormalCoins(c)
          /\ e.coins = UpdateCoins(c, t, Height[b]).coins
        BY <2>1, LoopComplete
    <2>3. /\ t \in Txids /\ e.fOk /\ e = ConnectTx(r, t, Height[b]) /\ r.nSupply \in Int
          /\ r \in ConnectType
        BY <1>1, <1>2, <1>3, <2>1
    <2>4. Valued(Unspent(c)) /\ Total(Unspent(c)) = Total(Unspent(coins)) + r.nSupply
        BY <1>6
    <2> HIDE DEF t, r, e
    <2>5. e.nSupply = r.nSupply + ValueOut(t) - ValueIn(c, t)
        <3>1. e.nSupply = r.nSupply + ValueOut(t) - (IF IsCoinBase(t) THEN 0 ELSE ValueIn(c, t))
            BY <2>3, TurnSupply
        <3> QED
            BY <2>3, <3>1, CoinBaseValueIn
    <2>6. /\ Valued(Unspent(e.coins))
          /\ Total(Unspent(e.coins)) = Total(Unspent(c)) + ValueOut(t) - ValueIn(c, t)
        BY <1>1, <2>2, <2>3, <2>4, UpdateTotal
    <2>7. ValueIn(c, t) \in Int /\ ValueOut(t) \in Int
        BY <2>2, <2>3, ValueInIs DEF NormalCoins
    <2>8. Total(Unspent(e.coins)) = Total(Unspent(coins)) + e.nSupply
        <3>1. \A u, v, x, y \in Int : (u + v) + x - y = u + (v + x - y)
            OBVIOUS
        <3> HIDE DEF c, T, P
        <3> QED
            BY <1>4, <2>3, <2>4, <2>5, <2>6, <2>7, <3>1
    <2> QED
        BY <2>1, <2>6, <2>8 DEF e
<1>7. n \in T
    <2>1. 0 .. n \subseteq T
        <3> HIDE DEF T
        <3> QED
            BY <1>1, <1>5, <1>6, InductionTo
    <2> HIDE DEF T
    <2> QED
        BY <1>1, <2>1
<1> QED
    BY <1>7

\* The value of a chain's outputs, and that there are finitely many.
LEMMA SupplyConnects ==
    ASSUME NEW b \in Blocks \ {Genesis}, NEW coins, CoinsOfChain(coins, Parent[b]),
           Valued(Utxo(Parent[b])), ConnectBlock(coins, b).fOk
    PROVE  /\ Valued(Utxo(b))
           /\ Total(Utxo(b)) = Total(Utxo(Parent[b])) + ConnectBlock(coins, b).nSupply
<1> DEFINE n == Len(BlockTxs[b])
           C == ConnectBlock(coins, b)
<1>1. NormalCoins(coins) /\ Unspent(coins) = Utxo(Parent[b])
    BY DEF CoinsOfChain
<1>2. PICK s : ConnectLoop(s, coins, b) /\ C = ConnectResult(s[n], b)
    BY <1>1, ConnectLoopExists DEF NormalCoins
<1>3. C.fOk = s[n].fOk /\ C.coins = s[n].coins /\ C.nSupply = s[n].nSupply
    <2> HIDE DEF C
    <2> QED
        BY <1>2, ResultIs
<1>4. /\ Valued(Unspent(s[n].coins))
      /\ Total(Unspent(s[n].coins)) = Total(Unspent(coins)) + s[n].nSupply
    BY <1>1, <1>2, <1>3, SupplyIs
<1>5. Unspent(C.coins) = Utxo(b)
    BY ConnectsChain DEF CoinsOfChain
<1> HIDE DEF C, n
<1> QED
    BY <1>1, <1>3, <1>4, <1>5 DEF C

\* No outputs are worth nothing.
LEMMA TotalOfNone == Valued({}) /\ Total({}) = 0
<1>1. Valued({})
    BY FS_EmptySet DEF Valued
<1>2. PICK g : AddsUp(g, {}) /\ Total({}) = g[{}]
    BY <1>1, TotalIs
<1> QED
    BY <1>1, <1>2 DEF AddsUp
-----------------------------------------------------------------------------
\* Folds, which the community modules define by a loop over the subsets of a set

\* What such a loop does with a subset: pick is the element it takes last, F the step.
Folds(g, base, F, pick, s) ==
    g[s] = IF s = {} THEN base ELSE F[<<g[s \ {pick[s]}], pick[s]>>]

IsFold(g, S, base, F, pick) == \A s \in SUBSET S : Folds(g, base, F, pick, s)

Picks(pick, S) == \A s \in (SUBSET S) \ {{}} : pick[s] \in s

LEMMA FoldExists ==
    ASSUME NEW S, IsFiniteSet(S), NEW pick, Picks(pick, S),
           NEW P, NEW base \in P, NEW F \in [P \X S -> P]
    PROVE  \E g \in [SUBSET S -> P] : IsFold(g, S, base, F, pick)
<1> DEFINE n == Cardinality(S)
           To(g, k) == \A s \in SUBSET S : Cardinality(s) <= k => Folds(g, base, F, pick, s)
           T == {k \in 0 .. n : \E g \in [SUBSET S -> P] : To(g, k)}
<1>1. n \in Nat
    BY FS_CardinalityType
<1>2. ASSUME NEW s \in SUBSET S
      PROVE  IsFiniteSet(s) /\ Cardinality(s) \in 0 .. n /\ (Cardinality(s) = 0 <=> s = {})
    <2>1. IsFiniteSet(s) /\ Cardinality(s) <= n
        BY FS_Subset
    <2>2. Cardinality(s) \in Nat
        BY <2>1, FS_CardinalityType
    <2>3. Cardinality(s) = 0 <=> s = {}
        BY <2>1, FS_EmptySet
    <2> QED
        BY <1>1, <2>1, <2>2, <2>3
<1>3. ASSUME NEW s \in (SUBSET S) \ {{}}
      PROVE  /\ pick[s] \in S
             /\ s \ {pick[s]} \in SUBSET S
             /\ Cardinality(s \ {pick[s]}) = Cardinality(s) - 1
    <2>1. pick[s] \in s
        BY DEF Picks
    <2> QED
        BY <1>2, <2>1, FS_RemoveElement
<1> HIDE DEF n
<1>4. 0 \in T
    <2> DEFINE g == [s \in SUBSET S |-> base]
    <2>1. g \in [SUBSET S -> P] /\ To(g, 0)
        BY <1>1, <1>2 DEF Folds
    <2> HIDE DEF g, To
    <2> QED
        BY <1>1, <2>1
<1>5. ASSUME NEW k \in 0 .. n, k \in T, k < n PROVE k + 1 \in T
    <2>1. PICK g \in [SUBSET S -> P] : To(g, k)
        BY <1>5
    <2> DEFINE step(s) == F[<<g[s \ {pick[s]}], pick[s]>>]
               h == [s \in SUBSET S |-> IF Cardinality(s) = k + 1 THEN step(s) ELSE g[s]]
    <2>2. ASSUME NEW s \in SUBSET S, Cardinality(s) # k + 1 PROVE h[s] = g[s]
        BY <2>2
    <2>3. ASSUME NEW s \in SUBSET S, Cardinality(s) = k + 1 PROVE s # {} /\ h[s] = step(s)
        <3>1. s # {}
            BY <1>1, <1>2, <2>3
        <3> QED
            BY <2>3, <3>1
    <2>4. h \in [SUBSET S -> P]
        <3>1. ASSUME NEW s \in SUBSET S PROVE h[s] \in P
            <4>1. CASE Cardinality(s) # k + 1
                BY <2>2, <4>1
            <4>2. CASE Cardinality(s) = k + 1
                <5>1. <<g[s \ {pick[s]}], pick[s]>> \in P \X S
                    BY <1>3, <2>3, <4>2
                <5> QED
                    BY <2>3, <4>2, <5>1
            <4> QED
                BY <4>1, <4>2
        <3> QED
            BY <3>1
    <2>5. ASSUME NEW s \in SUBSET S, Cardinality(s) <= k + 1
          PROVE  Folds(h, base, F, pick, s)
        <3>1. CASE s = {}
            <4>1. Cardinality(s) # k + 1 /\ Cardinality(s) <= k
                BY <1>1, <1>2, <3>1
            <4>2. g[s] = base
                BY <2>1, <3>1, <4>1 DEF Folds
            <4> QED
                BY <2>2, <3>1, <4>1, <4>2 DEF Folds
        <3>2. CASE s # {}
            <4>1. s \ {pick[s]} \in SUBSET S /\ Cardinality(s \ {pick[s]}) # k + 1
                  /\ Cardinality(s) \in Nat
                BY <1>1, <1>2, <1>3, <2>5, <3>2
            <4>2. h[s \ {pick[s]}] = g[s \ {pick[s]}]
                BY <2>2, <4>1
            <4>3. CASE Cardinality(s) = k + 1
                BY <2>3, <3>2, <4>2, <4>3 DEF Folds
            <4>4. CASE Cardinality(s) # k + 1
                <5>1. Cardinality(s) <= k
                    BY <1>1, <2>5, <4>1, <4>4
                <5>2. g[s] = step(s)
                    BY <2>1, <3>2, <5>1 DEF Folds
                <5> QED
                    BY <2>2, <3>2, <4>2, <4>4, <5>2 DEF Folds
            <4> QED
                BY <4>3, <4>4
        <3> QED
            BY <3>1, <3>2
    <2>6. To(h, k + 1)
        <3> HIDE DEF h
        <3> QED
            BY <2>5
    <2> HIDE DEF To, h
    <2> QED
        BY <1>1, <1>5, <2>4, <2>6
<1>6. n \in T
    <2>1. 0 .. n \subseteq T
        <3> HIDE DEF T
        <3> QED
            BY <1>1, <1>4, <1>5, InductionTo
    <2> HIDE DEF T
    <2> QED
        BY <1>1, <2>1
<1>7. PICK g \in [SUBSET S -> P] : To(g, n)
    <2> HIDE DEF To
    <2> QED
        BY <1>6
<1>8. IsFold(g, S, base, F, pick)
    BY <1>1, <1>2, <1>7 DEF IsFold
<1> QED
    BY <1>8

\* g does what a fold does as long as its values stay in P.
IsFoldIn(g, S, P, base, F, pick) ==
    \A s \in SUBSET S : (s # {} => g[s \ {pick[s]}] \in P) => Folds(g, base, F, pick, s)

\* Such a loop never leaves P.
LEMMA FoldStays ==
    ASSUME NEW S, IsFiniteSet(S), NEW pick, Picks(pick, S),
           NEW P, NEW base \in P, NEW F \in [P \X S -> P],
           NEW g, IsFoldIn(g, S, P, base, F, pick)
    PROVE  \A s \in SUBSET S : g[s] \in P
<1> DEFINE T == {s \in SUBSET S : g[s] \in P}
<1>1. {} \in T
    BY DEF IsFoldIn, Folds
<1>2. ASSUME NEW s \in (SUBSET S) \ {{}}, \A x \in s : s \ {x} \in T PROVE s \in T
    <2>1. pick[s] \in s
        BY DEF Picks
    <2>2. g[s \ {pick[s]}] \in P
        BY <1>2, <2>1
    <2>3. g[s] = F[<<g[s \ {pick[s]}], pick[s]>>]
        BY <2>2 DEF IsFoldIn, Folds
    <2>4. <<g[s \ {pick[s]}], pick[s]>> \in P \X S
        BY <2>1, <2>2
    <2> QED
        BY <2>3, <2>4
<1>3. SUBSET S \subseteq T
    <2> HIDE DEF T
    <2> QED
        BY <1>1, <1>2, SubsetInduction
<1> QED
    BY <1>3

\* The order of FoldLeft.
FromLast(n) == [s \in (SUBSET (1 .. n)) \ {{}} |-> Max(s)]

LEMMA FromLastPicks ==
    ASSUME NEW n \in Nat
    PROVE  Picks(FromLast(n), 1 .. n)
<1>1. ASSUME NEW s \in (SUBSET (1 .. n)) \ {{}} PROVE FromLast(n)[s] \in s
    <2>1. s \in SUBSET (0 .. n) /\ s # {}
        OBVIOUS
    <2>2. Max(s) \in s
        BY <2>1, MaxOf
    <2> QED
        BY <2>2 DEF FromLast
<1> QED
    BY <1>1 DEF Picks

LEMMA LeftFoldExists ==
    ASSUME NEW n \in Nat, NEW P, NEW base \in P, NEW F \in [P \X (1 .. n) -> P]
    PROVE  \E g \in [SUBSET (1 .. n) -> P] : IsFold(g, 1 .. n, base, F, FromLast(n))
<1> DEFINE S == 1 .. n
           pick == FromLast(n)
<1>1. IsFiniteSet(S) /\ Picks(pick, S) /\ F \in [P \X S -> P]
    BY FromLastPicks, FS_Interval
<1>2. \E g \in [SUBSET S -> P] : IsFold(g, S, base, F, pick)
    <2> HIDE DEF S, pick
    <2> QED
        BY <1>1, FoldExists
<1> QED
    BY <1>2

\* The loop of n turns from base ends with e.
LoopEnds(n, P, base, F, e) == \E h \in [0 .. n -> P] : Runs(h, n, base, F) /\ h[n] = e

\* FoldLeft is a loop over the positions of the sequence.
LEMMA LeftFold ==
    ASSUME NEW n \in Nat, NEW P, NEW base \in P, NEW F \in [P \X (1 .. n) -> P],
           NEW g, IsFoldIn(g, 1 .. n, P, base, F, FromLast(n))
    PROVE  LoopEnds(n, P, base, F, g[1 .. n])
<1> DEFINE h == [k \in 0 .. n |-> g[1 .. k]]
<1>1. Picks(FromLast(n), 1 .. n) /\ IsFiniteSet(1 .. n)
    BY FromLastPicks, FS_Interval
<1>2. \A s \in SUBSET (1 .. n) : g[s] \in P
    <2> DEFINE S == 1 .. n
               pick == FromLast(n)
    <2>1. /\ IsFiniteSet(S) /\ Picks(pick, S) /\ F \in [P \X S -> P]
          /\ IsFoldIn(g, S, P, base, F, pick)
        BY <1>1
    <2> HIDE DEF S, pick
    <2>2. \A s \in SUBSET S : g[s] \in P
        BY <2>1, FoldStays
    <2> QED
        BY <2>2 DEF S
<1>3. h \in [0 .. n -> P]
    <2>1. ASSUME NEW k \in 0 .. n PROVE 1 .. k \in SUBSET (1 .. n)
        OBVIOUS
    <2> QED
        BY <1>2, <2>1
<1>4. h[0] = base
    <2>1. 1 .. 0 = {} /\ {} \in SUBSET (1 .. n)
        OBVIOUS
    <2>2. g[{}] = base
        BY <2>1 DEF IsFoldIn, Folds
    <2> QED
        BY <2>1, <2>2
<1>5. ASSUME NEW i \in 1 .. n PROVE h[i] = F[<<h[i - 1], i>>]
    <2>1. 1 .. i \in (SUBSET (1 .. n)) \ {{}} /\ (1 .. i) \ {i} = 1 .. i - 1
          /\ i - 1 \in 0 .. n /\ i \in 0 .. n
        OBVIOUS
    <2>2. Max(1 .. i) = i
        <3>1. i \in Nat /\ 1 .. i \in SUBSET (0 .. i) /\ i \in 1 .. i
            OBVIOUS
        <3>2. Max(1 .. i) \in 1 .. i /\ \A y \in 1 .. i : y <= Max(1 .. i)
            BY <3>1, MaxOf
        <3> QED
            BY <3>2
    <2>3. FromLast(n)[1 .. i] = i
        BY <2>1, <2>2 DEF FromLast
    <2>4. g[1 .. i - 1] \in P
        BY <1>2, <2>1
    <2>5. g[1 .. i] = F[<<g[1 .. i - 1], i>>]
        BY <2>1, <2>3, <2>4 DEF IsFoldIn, Folds
    <2> QED
        BY <2>1, <2>5
<1>6. h[n] = g[1 .. n]
    OBVIOUS
<1> HIDE DEF h
<1>7. Runs(h, n, base, F)
    BY <1>4, <1>5 DEF Runs
<1> QED
    BY <1>3, <1>6, <1>7 DEF LoopEnds

LEMMA LoopEndsIn ==
    ASSUME NEW n \in Nat, NEW P, NEW base, NEW F, NEW e, LoopEnds(n, P, base, F, e)
    PROVE  e \in P
    BY DEF LoopEnds

\* The fold that leaves out the elements of S, as the modules write it
Dropped(q, S) == FoldLeft(LAMBDA r, x : IF x \in S THEN r ELSE Append(r, x), <<>>, q)

\* It goes through the sequence once.
LEMMA DroppedLoop ==
    ASSUME NEW X, NEW q \in Seq(X), NEW S
    PROVE  LoopEnds(Len(q), Seq(X), <<>>,
                    [a \in Seq(X) \X (1 .. Len(q)) |-> IF q[a[2]] \in S THEN a[1] ELSE Append(a[1], q[a[2]])],
                    Dropped(q, S))
<1> DEFINE n == Len(q)
           P == Seq(X)
           start == <<>>
           op(r, x) == IF x \in S THEN r ELSE Append(r, x)
           F == [a \in P \X (1 .. n) |-> op(a[1], q[a[2]])]
           Body(g) == g = [s \in SUBSET DOMAIN q |->
                              IF s = {} THEN start ELSE op(g[s \ {Max(s)}], q[Max(s)])]
           total == CHOOSE g : Body(g)
<1>1. Dropped(q, S) = total[DOMAIN q]
    BY DEF Dropped, FoldLeft, MapThenFoldSet
<1>2. n \in Nat /\ DOMAIN q = 1 .. n /\ start \in P
    OBVIOUS
<1> HIDE DEF n
<1>3. F \in [P \X (1 .. n) -> P]
    <2>1. ASSUME NEW r \in P, NEW i \in 1 .. n PROVE op(r, q[i]) \in P
        <3>1. q[i] \in X
            BY <1>2
        <3> QED
            BY <3>1
    <2> HIDE DEF P, op
    <2> QED
        BY <2>1
<1>4. ASSUME NEW s \in (SUBSET (1 .. n)) \ {{}}, NEW g, g[s \ {Max(s)}] \in P
      PROVE  F[<<g[s \ {FromLast(n)[s]}], FromLast(n)[s]>>] = op(g[s \ {Max(s)}], q[Max(s)])
    <2>1. FromLast(n)[s] = Max(s) /\ Max(s) \in 1 .. n
        BY <1>2, FromLastPicks DEF FromLast, Picks
    <2> HIDE DEF P, op
    <2> QED
        BY <1>4, <2>1
<1> HIDE DEF op
<1>5. Body(total)
    <2>1. PICK g \in [SUBSET (1 .. n) -> P] : IsFold(g, 1 .. n, start, F, FromLast(n))
        <3> HIDE DEF F, P, total, Body, start
        <3> QED
            BY <1>2, <1>3, LeftFoldExists
    <2> HIDE DEF F, P, start
    <2>2. Body(g)
        <3>1. ASSUME NEW s \in (SUBSET (1 .. n)) \ {{}}
              PROVE  g[s] = op(g[s \ {Max(s)}], q[Max(s)])
            <4>1. g[s \ {Max(s)}] \in P
                OBVIOUS
            <4> QED
                BY <1>4, <2>1, <4>1 DEF IsFold, Folds
        <3>2. g[{}] = start
            BY <2>1 DEF IsFold, Folds
        <3> QED
            BY <1>2, <3>1, <3>2
    <2> HIDE DEF Body
    <2> QED
        BY <2>2
<1>6. IsFoldIn(total, 1 .. n, P, start, F, FromLast(n))
    <2> HIDE DEF total, F, P, start
    <2>1. ASSUME NEW s \in SUBSET (1 .. n), s # {}, total[s \ {FromLast(n)[s]}] \in P
          PROVE  total[s] = F[<<total[s \ {FromLast(n)[s]}], FromLast(n)[s]>>]
        <3>1. FromLast(n)[s] = Max(s)
            BY <2>1 DEF FromLast
        <3>2. total[s] = op(total[s \ {Max(s)}], q[Max(s)])
            BY <1>2, <1>5, <2>1
        <3> QED
            BY <1>4, <2>1, <3>1, <3>2
    <2>2. total[{}] = start
        BY <1>5
    <2> QED
        BY <2>1, <2>2 DEF IsFoldIn, Folds
<1>7. LoopEnds(n, P, start, F, total[1 .. n])
    <2> HIDE DEF total, F, P, start, Body
    <2> QED
        BY <1>2, <1>3, <1>6, LeftFold
<1> QED
    <2>1. LoopEnds(n, P, start, F, Dropped(q, S))
        <3> HIDE DEF F, P, start, total
        <3> QED
            BY <1>1, <1>2, <1>7
    <2> QED
        BY <2>1 DEF n, op
=============================================================================
