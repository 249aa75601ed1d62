-------------------------- MODULE ScriptProperties --------------------------
(***************************************************************************)
(* What signing, verifying and combining promise (Script, Standard), each  *)
(* stated for one trial: the scripts, keys and transactions of the trials  *)
(* are chosen in Algorithms.                                               *)
(***************************************************************************)
EXTENDS Rules

BothFlags == {"P2SH", "STRICTENC"}

\* What the key store suffices for, told from the form of the script
RECURSIVE CanSign(_, _)
CanSign(ks, script) ==
  LET s == Solver(script)
  IN CASE ~s.ok -> FALSE
       [] s.type = "TX_MULTISIG"   -> HaveKeys(PubKeys(s.solutions), ks) >= Required(s.solutions)
       [] s.type = "TX_SCRIPTHASH" -> /\ HaveScript(ks, s.solutions[1])
                                      /\ ~IsPayToScriptHash(ScriptOf(ks, s.solutions[1]))
                                      /\ CanSign(ks, ScriptOf(ks, s.solutions[1]))
       [] OTHER                    -> IsMine(ks, script)

\* What a signature of the given type leaves open to change
OutOfRange(tx, nIn, nHashType) == nHashType % 32 = SIGHASH_SINGLE /\ nIn > Len(tx.vout)
SameInputs(tx, tx2, nIn, nHashType) ==
  /\ tx.vin[nIn] = tx2.vin[nIn]
  /\ nHashType < SIGHASH_ANYONECANPAY =>
       /\ Len(tx.vin) = Len(tx2.vin)
       /\ \A i \in DOMAIN tx.vin : /\ tx.vin[i].prevout = tx2.vin[i].prevout
                                   /\ nHashType % 32 = SIGHASH_ALL => tx.vin[i].sequence = tx2.vin[i].sequence
SameOutputs(tx, tx2, nIn, nHashType) ==
  CASE nHashType % 32 = SIGHASH_NONE   -> TRUE
    [] nHashType % 32 = SIGHASH_SINGLE -> tx.vout[nIn] = tx2.vout[nIn]
    [] OTHER                           -> tx.vout = tx2.vout
StaysValid(tx, tx2, nIn, nHashType) ==
  IF OutOfRange(tx, nIn, nHashType) \/ OutOfRange(tx2, nIn, nHashType)
  THEN OutOfRange(tx, nIn, nHashType) /\ OutOfRange(tx2, nIn, nHashType)
  ELSE SameInputs(tx, tx2, nIn, nHashType) /\ SameOutputs(tx, tx2, nIn, nHashType)

\* SignSignature succeeds exactly when the keys suffice; what IsMine claims can
\* be signed (but for a script hash in a script hash); the scriptSig has as many
\* elements as AreInputsStandard expects; and it stays valid under exactly the
\* changes of the transaction that its hash type allows.
SignedAsExpected(r, ks, script, tx, nIn, nHashType, variants) ==
  /\ r.ok <=> CanSign(ks, script)
  /\ IsMine(ks, script) => r.ok \/ Solver(script).type = "TX_SCRIPTHASH"
  /\ r.ok => /\ IsStandardInput(script, r.sig, tx, nIn)
             /\ \A tx2 \in variants :
                  VerifyScript(r.sig, script, tx2, nIn, BothFlags, 0) <=> StaysValid(tx, tx2, nIn, nHashType)
SignTrial(ks, script, tx, nIn, nHashType, variants) ==
  SignedAsExpected(SignSignature(ks, script, tx, nIn, nHashType), ks, script, tx, nIn, nHashType, variants)

\* Two holders sign what they can and combine their scriptSigs, in either
\* order: the result verifies exactly when the keys of those who know the
\* redemption script, if there is one, together suffice.
CombinedAsExpected(sigs, enough, script, tx, nIn) ==
  \A i \in 1..2 :
    VerifyScript(CombineSignatures(script, tx, nIn, sigs[i].sig, sigs[3 - i].sig), script, tx, nIn, BothFlags, 0)
      <=> enough
CombineTrial(ks1, ks2, script, tx, nIn, nHashType) ==
  LET Of(ks) == IF IsPayToScriptHash(script) /\ ~HaveScript(ks, script[2][2]) THEN {} ELSE ks.keys
      both == [keys |-> Of(ks1) \cup Of(ks2), scripts |-> ks1.scripts \cup ks2.scripts]
  IN CombinedAsExpected([i \in 1..2 |-> SignSignature(IF i = 1 THEN ks1 ELSE ks2, script, tx, nIn, nHashType)],
                        CanSign(both, script), script, tx, nIn)

\* CHECKMULTISIG holds exactly if the signatures, in their order, are of
\* different keys in theirs.
MultisigTrial(script, signers, tx, nIn) ==
  LET hash == SignatureHash(script, tx, nIn, SIGHASH_ALL)
      sig  == <<Push(Num(0))>> \o
              [i \in DOMAIN signers |-> Push(<<"sig", signers[i], hash, SIGHASH_ALL, TRUE>>)]
      keys == PubKeys(Solver(script).solutions)
  IN VerifyScript(sig, script, tx, nIn, BothFlags, 0) <=>
       \E at \in [DOMAIN signers -> DOMAIN keys] :
         /\ \A i \in DOMAIN signers : keys[at[i]][2] = signers[i]
         /\ \A i, j \in DOMAIN signers : i < j => at[i] < at[j]

\* The cache of verified signatures changes no verdict, whatever was checked
\* before and whatever was evicted since.
CacheTrial(sig1, key1, sig2, key2, tx1, tx2, limit) ==
  LET code == PayToPubKey(key1)
      first == CheckSigWith({}, limit, sig1, key1, code, tx1, 1, 0, {})
  IN \A cache \in first.caches :
       CheckSigWith(cache, limit, sig2, key2, code, tx2, 1, 0, {}).ok
         = CheckSig(sig2, key2, code, tx2, 1, 0, {})

\* A script checks no more signatures than it is charged for, and leaves no
\* more elements than the limit.
ChargeTrial(stack, script, tx) ==
  LET e == EvalScript(stack, script, tx, 1, {}, 0)
  IN /\ e.checks <= GetSigOpCount(script, TRUE)
     /\ GetSigOpCount(script, TRUE) <= GetSigOpCount(script, FALSE)
     /\ e.ok => Len(e.stack) <= MaxStackSize

\* Two scripts that are defined to do the same do it to every stack: they fail
\* on the same ones, also at the limits, and leave the same on the others.
LawTrial(stack, law, tx) ==
  LET e1 == EvalScript(stack, law[1], tx, 1, {}, 0)
      e2 == EvalScript(stack, law[2], tx, 1, {}, 0)
  IN e1.ok = e2.ok /\ (e1.ok => e1.stack = e2.stack)

\* Compressing loses nothing; a destination's script pays to it again, a
\* multisig script to the keys it was made of; and what a node signs for a
\* script hash is charged for the script it redeems.
CodecTrial(script) ==
  LET c == Compress(script)
      d == ExtractDestinations(script)
  IN /\ c.ok => Decompress(c.size, c.data) = script /\ GetSpecialSize(c.size) > 0
     /\ Solver(script).type \in {"TX_PUBKEYHASH", "TX_SCRIPTHASH"} => SetDestination(d.dests[1]) = script
     /\ Solver(script).ok /\ Solver(script).type = "TX_MULTISIG" =>
          SetMultisig(d.required, PubKeys(Solver(script).solutions)) = script
     /\ LET id == Hash160(<<"script", script>>)
        IN GetP2SHSigOpCount(PayToScriptID(id), <<Push(<<"script", script>>)>>) = GetSigOpCount(script, TRUE)
     /\ IsStandard(script) => Solver(script).ok
=============================================================================
