------------------------------- MODULE Prime -------------------------------
(***************************************************************************)
(* Proof of work of prime.cpp and prime.h: the target, the test of a prime *)
(* chain, and the miner's sieve and fast tests.                            *)
(*                                                                         *)
(* Targets and chain lengths are fixed-point numbers, a length with        *)
(* FractionalBits binary places (24 in the code); fractional difficulties   *)
(* have DifficultyBits binary places (32).                                 *)
(***************************************************************************)
EXTENDS Integers, Sequences, SequencesExt, FiniteSetsExt

CONSTANTS FractionalBits, DifficultyBits, ThresholdBits,
          nTargetMinLength, nTargetInitialLength,
          nPrimeTableLimit,
          nSieveSize, nSieveFilterPrimes, nSieveExtensions, nL1CacheElements, nWordBits

Unit == 2 ^ FractionalBits
nFractionalDifficultyMax == 2 ^ (FractionalBits + DifficultyBits)
nFractionalDifficultyMin == 2 ^ DifficultyBits
nFractionalDifficultyThreshold == 2 ^ (ThresholdBits + DifficultyBits)

-----------------------------------------------------------------------------
(* The target *)

TargetGetLimit    == nTargetMinLength * Unit
TargetGetInitial  == nTargetInitialLength * Unit
TargetGetLength(nBits)      == nBits \div Unit
TargetGetFractional(nBits)  == nBits % Unit
TargetFromInt(nLength)      == nLength * Unit
TargetIncrementLength(nBits) == nBits + Unit
TargetDecrementLength(nBits) == IF TargetGetLength(nBits) > nTargetMinLength THEN nBits - Unit ELSE nBits

TargetGetFractionalDifficulty(nBits) == nFractionalDifficultyMax \div (Unit - TargetGetFractional(nBits))

\* TargetSetFractionalDifficulty for a difficulty of at least the minimum
TargetSetFractionalDifficulty(nDifficulty, nBits) ==
  TargetFromInt(TargetGetLength(nBits)) + Unit - (nFractionalDifficultyMax \div nDifficulty)

\* TargetGetMint; COIN and CENT only scale the result, which is rounded to CENT
TargetGetMint(nBits, limit, cent) ==
  IF TargetGetLength(nBits) < nTargetMinLength THEN 0
  ELSE (((((limit * Unit) \div nBits) * Unit) \div nBits) \div cent) * cent

Clamp(x, lo, hi) == IF x > hi THEN hi ELSE IF x < lo THEN lo ELSE x

NextDifficulty(nDifficulty, nInterval, nTargetSpacing, nActualSpacing) ==
  Clamp((nDifficulty * (nInterval + 1) * nTargetSpacing)
          \div ((nInterval - 1) * nTargetSpacing + 2 * nActualSpacing),
        nFractionalDifficultyMin, nFractionalDifficultyMax)

TargetGetNext(nBits, nInterval, nTargetSpacing, nActualSpacing) ==
  LET new == NextDifficulty(TargetGetFractionalDifficulty(nBits), nInterval, nTargetSpacing, nActualSpacing)
  IN IF new > nFractionalDifficultyThreshold
     THEN TargetSetFractionalDifficulty(nFractionalDifficultyMin, TargetIncrementLength(nBits))
     ELSE IF new = nFractionalDifficultyMin /\ TargetGetLength(nBits) > nTargetMinLength
     THEN TargetSetFractionalDifficulty(nFractionalDifficultyThreshold, TargetDecrementLength(nBits))
     ELSE TargetSetFractionalDifficulty(new, nBits)

\* GetNextWorkRequired after the blocks of chain, records [nBits, nTime]
GetNextWorkRequired(chain, nInterval, nTargetSpacing) ==
  LET n == Len(chain)
  IN CASE n = 0      -> TargetGetLimit
       [] n \in 1..2 -> TargetGetInitial
       [] OTHER      -> TargetGetNext(chain[n].nBits, nInterval, nTargetSpacing, chain[n].nTime - chain[n - 1].nTime)

EstimateWorkTransition(nPrev, nBits, nChainLength, nInterval) ==
  LET floor   == TargetFromInt(TargetGetLength(nBits))
      weight  == ((nInterval - 1) * TargetGetFractionalDifficulty(nBits)) \div nFractionalDifficultyMin
  IN IF TargetGetLength(nChainLength) > TargetGetLength(nBits)
     THEN (nPrev * weight + 2 * floor) \div (weight + 2)
     ELSE ((nInterval - 1) * nPrev + 2 * (floor + Unit)) \div (nInterval + 1)

-----------------------------------------------------------------------------
(* The prime table *)

vPrimes ==
  LET composite == UNION {{f * k : k \in f..((nPrimeTableLimit - 1) \div f)} :
                            f \in {g \in 2..(nPrimeTableLimit - 1) : g * g < nPrimeTableLimit}}
      Kept(n) == n \notin composite
  IN SelectSeq([i \in 1..(nPrimeTableLimit - 2) |-> i + 1], Kept)

\* PrimeTableGetNextPrime and -PreviousPrime; 0 where they return false
PrimeTableGetNextPrime(p)     == LET s == {q \in ToSet(vPrimes) : q > p} IN IF s = {} THEN 0 ELSE Min(s)
PrimeTableGetPreviousPrime(p) == LET s == {q \in ToSet(vPrimes) : q < p} IN IF s = {} THEN 0 ELSE Max(s)

\* Primorial and PrimorialFast; PrimorialAt: the first one that reaches bn
Primorial(p)   == FoldLeft(LAMBDA x, q : IF q > p THEN x ELSE x * q, 1, vPrimes)
PrimorialAt(bn) == FoldLeft(LAMBDA x, q : IF x > 1 /\ x >= bn THEN x ELSE x * q, 1, vPrimes)

-----------------------------------------------------------------------------
(* The test of a chain, as a block is checked *)

RECURSIVE PowMod(_, _, _)
PowMod(b, e, n) ==
  IF e = 0 THEN 1 % n
  ELSE LET h == PowMod(b, e \div 2, n)
           s == (h * h) % n
       IN IF e % 2 = 0 THEN s ELSE (s * b) % n

\* The fractional length of a number that failed, from the Fermat remainder
Fraction(n, r) == ((n - r) * Unit) \div n
Passed    == [ok |-> TRUE, frac |-> 0]
Failed(n, r) == [ok |-> FALSE, frac |-> IF Fraction(n, r) < Unit THEN Fraction(n, r) ELSE 0]

FermatProbablePrimalityTest(n) ==
  LET r == PowMod(2, n - 1, n) IN IF r = 1 THEN Passed ELSE Failed(n, r)

\* n = 2p + 1 (fSophieGermain) or 2p - 1: the remainder that n mod 8 calls for
Expected(n, fSophieGermain) ==
  CASE fSophieGermain /\ n % 8 = 7  -> 1
    [] fSophieGermain /\ n % 8 = 3  -> n - 1
    [] ~fSophieGermain /\ n % 8 = 5 -> n - 1
    [] ~fSophieGermain /\ n % 8 = 1 -> 1
    [] OTHER                        -> -1
EulerLagrangeLifchitzPrimalityTest(n, fSophieGermain) ==
  LET r == PowMod(2, (n - 1) \div 2, n)
  IN CASE Expected(n, fSophieGermain) = -1 -> [ok |-> FALSE, frac |-> 0]
       [] r = Expected(n, fSophieGermain)  -> Passed
       [] OTHER                            -> Failed(n, (r * r) % n)

NextInChain(n, fSophieGermain) == 2 * n + (IF fSophieGermain THEN 1 ELSE -1)

RECURSIVE ChainFrom(_, _, _, _)
ChainFrom(n, fSophieGermain, fFermatTest, nLength) ==
  LET N == NextInChain(n, fSophieGermain)
      t == IF fFermatTest THEN FermatProbablePrimalityTest(N)
                          ELSE EulerLagrangeLifchitzPrimalityTest(N, fSophieGermain)
  IN IF t.ok THEN ChainFrom(N, fSophieGermain, fFermatTest, TargetIncrementLength(nLength))
             ELSE nLength + t.frac
ProbableCunninghamChainTest(n, fSophieGermain, fFermatTest) ==
  LET t == FermatProbablePrimalityTest(n)
  IN IF t.ok THEN ChainFrom(n, fSophieGermain, fFermatTest, Unit) ELSE t.frac

\* <<CC1, CC2, BiTwin>>: a BiTwin chain may have one more number of the first kind
WithBiTwin(c1, c2) ==
  <<c1, c2, IF TargetGetLength(c1) > TargetGetLength(c2)
            THEN c2 + TargetFromInt(TargetGetLength(c2) + 1)
            ELSE c1 + TargetFromInt(TargetGetLength(c1))>>
ProbablePrimeChainTest(origin, fFermatTest) ==
  WithBiTwin(ProbableCunninghamChainTest(origin - 1, TRUE, fFermatTest),
             ProbableCunninghamChainTest(origin + 1, FALSE, fFermatTest))
Meets(lengths, nBits) == \E i \in 1..3 : lengths[i] >= nBits

\* The longest of the three, the earlier type if equal
Longest(lengths) ==
  IF lengths[3] > lengths[1] /\ lengths[3] > lengths[2] THEN 3
  ELSE IF lengths[2] > lengths[1] THEN 2 ELSE 1

MeetsLonger(lengths, nBits, nChainLength) ==
  Meets(lengths, nBits) /\ \E i \in 1..3 : lengths[i] > nChainLength
NotNormalized(multiplier, origin, nBits, nChainLength) ==
  /\ multiplier % 2 = 0 /\ origin % 4 = 0
  /\ MeetsLonger(ProbablePrimeChainTest(origin \div 2, FALSE), nBits, nChainLength)

\* l: the lengths by the Euler-Lagrange-Lifchitz test, which Fermat's must confirm
Confirmed(l, fermat, nBits, multiplier, origin) ==
  LET type == Longest(l)
  IN IF Meets(l, nBits) /\ Meets(fermat, nBits) /\ l = fermat /\ ~NotNormalized(multiplier, origin, nBits, l[type])
     THEN [ok |-> TRUE, type |-> type, length |-> l[type]]
     ELSE [ok |-> FALSE, type |-> 0, length |-> 0]
CheckPrimeProofOfWork(hash, nBits, multiplier, hashLimit, primeMin, primeMax) ==
  LET origin == hash * multiplier
  IN IF TargetGetLength(nBits) \in nTargetMinLength..99 /\ hash >= hashLimit /\ origin \in primeMin..primeMax
     THEN Confirmed(ProbablePrimeChainTest(origin, FALSE), ProbablePrimeChainTest(origin, TRUE), nBits, multiplier, origin)
     ELSE [ok |-> FALSE, type |-> 0, length |-> 0]

-----------------------------------------------------------------------------
(* The miner's fast tests: Euler's criterion instead of Fermat's test, with *)
(* the factors of two of n - 1 moved from the exponent into the base.      *)

RECURSIVE TrailingZeros(_)
TrailingZeros(n) == IF n % 2 = 1 THEN 0 ELSE 1 + TrailingZeros(n \div 2)
HalfPower(n) ==
  LET z == Min({TrailingZeros(n - 1), 9})
  IN PowMod(PowMod(2, 2 ^ (z - 1), n), (n - 1) \div (2 ^ z), n)

FermatFast(n, fFastFail) ==
  LET r == HalfPower(n)
  IN IF r \in {1, n - 1} THEN Passed
     ELSE IF fFastFail THEN [ok |-> FALSE, frac |-> 0] ELSE Failed(n, (r * r) % n)
EulerLagrangeLifchitzFast(n, fSophieGermain, fFastFail) ==
  LET r == HalfPower(n)
  IN IF r = Expected(n, fSophieGermain) THEN Passed
     ELSE IF fFastFail THEN [ok |-> FALSE, frac |-> 0] ELSE Failed(n, (r * r) % n)

RECURSIVE ChainFromFast(_, _, _, _)
ChainFromFast(n, fSophieGermain, seq, nLength) ==
  LET N == NextInChain(n, fSophieGermain)
      t == EulerLagrangeLifchitzFast(N, fSophieGermain, seq < 4)
  IN IF t.ok THEN ChainFromFast(N, fSophieGermain, seq + 1, TargetIncrementLength(nLength))
             ELSE nLength + t.frac
ProbableCunninghamChainTestFast(n, fSophieGermain) ==
  IF FermatFast(n, TRUE).ok THEN ChainFromFast(n, fSophieGermain, 1, Unit) ELSE 0

\* The numbers of both kinds in turn, until one fails
RECURSIVE BiTwinFrom(_, _, _, _)
BiTwinFrom(minus, plus, seq, nLength) ==
  LET m == EulerLagrangeLifchitzFast(2 * minus + 1, TRUE, seq < 4)
      p == EulerLagrangeLifchitzFast(2 * plus - 1, FALSE, seq < 4)
  IN IF ~m.ok THEN nLength + m.frac
     ELSE IF ~p.ok THEN nLength + Unit + p.frac
     ELSE BiTwinFrom(2 * minus + 1, 2 * plus - 1, seq + 2, nLength + 2 * Unit)
ProbableBiTwinChainTestFast(origin) ==
  IF ~FermatFast(origin - 1, TRUE).ok THEN 0
  ELSE IF ~FermatFast(origin + 1, TRUE).ok THEN Unit
  ELSE BiTwinFrom(origin - 1, origin + 1, 2, 2 * Unit)

ProbablePrimeChainTestFast(origin, nCandidateType) ==
  CASE nCandidateType = 1 -> ProbableCunninghamChainTestFast(origin - 1, TRUE)
    [] nCandidateType = 2 -> ProbableCunninghamChainTestFast(origin + 1, FALSE)
    [] nCandidateType = 3 -> ProbableBiTwinChainTestFast(origin)
    [] OTHER              -> 0

ProbablePrimalityTestWithTrialDivision(n, limit) ==
  /\ \A i \in 1..limit : n % vPrimes[i] # 0
  /\ FermatFast(n, TRUE).ok

-----------------------------------------------------------------------------
(* The sieve.  Index i stands for the multiplier 2i + 1, in extension e for *)
(* (2i + 1) * 2^(e+1); an array of bits is the set of its ones.            *)

\* int_invert: the extended Euclidean algorithm
RECURSIVE Euclid(_, _, _, _)
Euclid(rem0, rem1, aux0, aux1) ==
  IF rem1 <= 1 THEN aux1 ELSE Euclid(rem1, rem0 % rem1, aux1, aux0 - (rem0 \div rem1) * aux1)
int_invert(a, p) == LET i == Euclid(p, a % p, 0, 1) IN IF i < 0 THEN i + p ELSE i

\* The first index whose number in the layer is divisible by p: Weave's store
RECURSIVE LayerInverse(_, _, _)
LayerInverse(h, p, layer) ==
  IF layer = 0 THEN int_invert(h % p, p) ELSE (LayerInverse(h, p, layer - 1) * ((p + 1) \div 2)) % p
OddHalf(m, p) == (IF m % 2 = 0 THEN m + p ELSE m) \div 2
FirstIndex(h, p, layer, kind) ==
  LET inverse == LayerInverse(h, p, layer)
  IN OddHalf(IF kind = 1 THEN inverse ELSE p - inverse, p)

\* ProcessMultiplier for one prime, chunk after chunk: the multiplier is kept
\* from one chunk to the next.
nArrayRounds == (nSieveSize + nL1CacheElements - 1) \div nL1CacheElements
ProcessMultiplier(first, p) ==
  LET round(s, j) ==
        LET max   == Min({nL1CacheElements * j, nSieveSize})
            marks == {v \in s.next..(max - 1) : (v - s.next) % p = 0}
        IN [next |-> s.next + p * Cardinality(marks), marks |-> s.marks \cup marks]
  IN FoldLeft(round, [next |-> first, marks |-> {}], [j \in 1..nArrayRounds |-> j]).marks

\* Every prime of the filter but 2 that does not divide the fixed factor
SievePrimes(h) == {vPrimes[i] : i \in {j \in 2..nSieveFilterPrimes : h % vPrimes[j] # 0}}
Layer(h, layer, kind) == UNION {ProcessMultiplier(FirstIndex(h, p, layer, kind), p) : p \in SievePrimes(h)}

\* The layers whose composites each kind of chain collects, from the offset on
Layers_Swapped(nChainLength, type, kind) ==      \* a bug: the longer half is of the second kind
  CASE type = kind -> nChainLength
    [] type = 3 /\ kind = 2 -> (nChainLength + 1) \div 2
    [] type = 3 /\ kind = 1 -> nChainLength \div 2
    [] OTHER -> 0
Layers(nChainLength, type, kind) ==
  CASE type = kind -> nChainLength
    [] type = 3 /\ kind = 1 -> (nChainLength + 1) \div 2
    [] type = 3 /\ kind = 2 -> nChainLength \div 2
    [] OTHER -> 0
Composites(h, nChainLength, offset, type) ==
  UNION {UNION {Layer(h, l + offset, kind) : l \in 0..(Layers(nChainLength, type, kind) - 1)} : kind \in 1..2}

Weave(h, nChainLength) == [e \in 0..nSieveExtensions |-> [type \in 1..3 |-> Composites(h, nChainLength, e, type)]]
Candidates(sieve, e) == {i \in 0..(nSieveSize - 1) : \E type \in 1..3 : i \notin sieve[e][type]}

\* GetNextCandidateMultiplier: the position after the one given, <<>> when
\* the sieve is depleted.  e = 0 is the sieve itself, e > 0 the extension e - 1.
RECURSIVE NextPosition(_, _)
NextPosition(sieve, pos) ==
  LET e == IF pos[2] + 1 >= nSieveSize THEN pos[1] + 1 ELSE pos[1]
      i == IF pos[2] + 1 >= nSieveSize THEN 0 ELSE pos[2] + 1
      \* empty words are skipped, to the last index of the array if need be
      rest == {w \in (i \div nWordBits)..((nSieveSize - 1) \div nWordBits) :
                 \E c \in Candidates(sieve, e) : c \div nWordBits = w}
      at == IF i % nWordBits # 0 THEN i
            ELSE IF rest = {} THEN nSieveSize ELSE Min(rest) * nWordBits
  IN IF e > nSieveExtensions THEN <<>>
     ELSE IF at < nSieveSize /\ at \in Candidates(sieve, e) THEN <<e, at>>
     ELSE NextPosition(sieve, <<e, at>>)

RECURSIVE Scan(_, _)
Scan(sieve, pos) ==
  LET next == NextPosition(sieve, pos)
  IN IF next = <<>> THEN <<>> ELSE <<next>> \o Scan(sieve, next)

MultiplierAt(pos) == (2 * pos[2] + 1) * (2 ^ pos[1])
CandidateType(sieve, pos) ==
  CASE pos[2] \notin sieve[pos[1]][3] -> 3
    [] pos[2] \notin sieve[pos[1]][1] -> 1
    [] OTHER                          -> 2

\* MineProbablePrimeChain: the first candidate whose fast test meets the target
Mine(hash, fixed, nBits) ==
  LET sieve == Weave(hash * fixed, TargetGetLength(nBits))
      Found(pos) == ProbablePrimeChainTestFast(hash * fixed * MultiplierAt(pos), CandidateType(sieve, pos)) >= nBits
      hits  == SelectSeq(Scan(sieve, <<0, 0>>), Found)
  IN IF hits = <<>> THEN 0 ELSE fixed * MultiplierAt(hits[1])
=============================================================================
