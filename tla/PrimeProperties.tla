-------------------------- MODULE PrimeProperties --------------------------
(***************************************************************************)
(* What the target and the prime chains of Prime must satisfy, each stated *)
(* for one trial whose inputs are chosen in Algorithms.                    *)
(***************************************************************************)
EXTENDS Prime

\* A step of the target: slower blocks never give a higher target, blocks as
\* fast as wanted or slower never raise it and faster ones never lower it; it
\* moves by at most one length and stays at or above the limit; a difficulty
\* written and read back is the same; a higher target never mints more.
TargetTrial(nBits, interval, spacing, slow, fast) ==
  LET next(s) == TargetGetNext(nBits, interval, spacing, s)
  IN /\ slow >= fast => next(slow) <= next(fast)
     /\ slow >= spacing => next(slow) <= nBits
     /\ fast < spacing => next(fast) >= nBits
     /\ next(slow) >= TargetGetLimit
     /\ TargetGetLength(next(slow)) - TargetGetLength(nBits) \in -1..1
     /\ TargetSetFractionalDifficulty(TargetGetFractionalDifficulty(nBits), nBits) = nBits
     /\ TargetGetMint(nBits + 1, 999, 2) <= TargetGetMint(nBits, 999, 2)
     /\ TargetGetMint(nBits, 999, 2) <= 999
     /\ LET e == EstimateWorkTransition(nBits, nBits, next(slow), interval)
        IN e \in TargetFromInt(TargetGetLength(nBits))..TargetFromInt(TargetGetLength(nBits) + 1)

\* A chain whose blocks follow each other at the given spacings, each with the
\* target GetNextWorkRequired asks for
ChainOf(spacings, interval, spacing) ==
  FoldLeft(LAMBDA chain, s :
             Append(chain, [nBits |-> GetNextWorkRequired(chain, interval, spacing),
                            nTime |-> IF chain = <<>> THEN 0 ELSE Last(chain).nTime + s]),
           <<>>, <<0, 0, spacing>> \o spacings)

\* Along a chain the target stays between the limit and what a step can reach,
\* moves by at most one length, and one block that comes faster (or with an
\* earlier time than its parent) leaves no later block with a lower target.
ChainTrial(spacings, i, faster, interval, spacing) ==
  LET chain == ChainOf(spacings, interval, spacing)
      other == ChainOf([spacings EXCEPT ![i] = faster], interval, spacing)
  IN /\ \A k \in 2..Len(chain) :
          /\ chain[k].nBits >= TargetGetLimit
          /\ TargetGetFractionalDifficulty(chain[k].nBits) <= nFractionalDifficultyThreshold
          /\ k > 2 => TargetGetLength(chain[k].nBits) - TargetGetLength(chain[k - 1].nBits) \in -1..1
     /\ faster <= spacings[i] => \A k \in (i + 4)..Len(chain) : other[k].nBits >= chain[k].nBits

\* The first n numbers of a chain; those of a BiTwin chain are of both kinds in turn
ChainNumbers(origin, type, n) ==
  CASE type = 1 -> {origin * 2 ^ k - 1 : k \in 0..(n - 1)}
    [] type = 2 -> {origin * 2 ^ k + 1 : k \in 0..(n - 1)}
    [] type = 3 -> {origin * 2 ^ (k \div 2) + (IF k % 2 = 0 THEN -1 ELSE 1) : k \in 0..(n - 1)}
Survives(origin, type, n) ==
  \A x \in ChainNumbers(origin, type, n), i \in 2..nSieveFilterPrimes : x % vPrimes[i] # 0

\* What SieveDebugChecks looks for: no number of a candidate's chain has a
\* factor in the filter; and no multiplier but 1 whose chain has none is lost.
SieveTrial(h, n) ==
  LET sieve == Weave(h, n)
      found == Scan(sieve, <<0, 0>>)
      all   == {pos \in (0..nSieveExtensions) \X (0..(nSieveSize - 1)) : pos # <<0, 0>>}
  IN /\ \A k \in DOMAIN found : Survives(h * MultiplierAt(found[k]), CandidateType(sieve, found[k]), n)
     /\ ToSet(found) = {pos \in all : \E type \in 1..3 : Survives(h * MultiplierAt(pos), type, n)}
     /\ Len(found) = Cardinality(ToSet(found))

\* The miner's tests claim no longer chain than the block's check will find,
\* and below the first pseudoprimes exactly that.
FastTrial(origin) ==
  LET Claim(fast, length) == fast <= length /\ (origin <= 500 => TargetGetLength(fast) = TargetGetLength(length))
      Holds(l) ==
        /\ \A type \in 1..3 : Claim(ProbablePrimeChainTestFast(origin, type), l[type])
        /\ ProbablePrimalityTestWithTrialDivision(origin + 1, nSieveFilterPrimes) => TargetGetLength(l[2]) >= 1
  IN Holds(ProbablePrimeChainTest(origin, FALSE))

\* A block the miner finds is one that CheckPrimeProofOfWork accepts, but for
\* a certificate it refuses as not normalized.
MineTrial(hash, fixed, nBits) ==
  LET Accepted(c) == c.ok /\ c.length >= nBits
      LongestOf(l) == l[Longest(l)]
      Holds(m) ==
        m # 0 => \/ Accepted(CheckPrimeProofOfWork(hash, nBits, m, 1, 1, 100000))
                 \/ NotNormalized(m, hash * m, nBits, LongestOf(ProbablePrimeChainTest(hash * m, FALSE)))
  IN Holds(Mine(hash, fixed, nBits))

\* The prime table and the primorials of its primes.
TableTrial(p) ==
  /\ p \in 2..(nPrimeTableLimit - 1) =>
       (p \in ToSet(vPrimes) <=> \A d \in 2..(p - 1) : p % d # 0)
  /\ PrimeTableGetNextPrime(p) # 0 /\ p \in ToSet(vPrimes) =>
       PrimeTableGetPreviousPrime(PrimeTableGetNextPrime(p)) = p
  /\ \A q \in ToSet(vPrimes) : q <= 13 /\ p <= 13 => ((Primorial(p) % q = 0) <=> q <= p)
  /\ p <= 2000 => PrimorialAt(p) >= p
  /\ \A q \in ToSet(vPrimes) \ {2} : p % q # 0 => (int_invert(p, q) * p) % q = 1
=============================================================================
