------------------------------ MODULE Standard ------------------------------
(***************************************************************************)
(* Standard scripts (script.cpp): recognising them, signing for them,      *)
(* combining partial signatures, the destinations they pay to and their    *)
(* compressed form in the coin database.                                   *)
(*                                                                         *)
(* A key store is [keys, scripts]: public keys whose secret it holds and   *)
(* redemption scripts it knows.  The pair k has the x coordinate k \div 2   *)
(* and the parity k % 2: of two pairs with one x the parity tells which.   *)
(***************************************************************************)
EXTENDS Script

Hash160(v) == <<"hash", "OP_HASH160", v>>
OpN(n)     == IF n = 0 THEN Push(Num(0)) ELSE <<"OP_N", n>>    \* EncodeOP_N
IsOpN(o)   == o = Push(Num(0)) \/ (o[1] = "OP_N" /\ o[2] >= 1)
ValueOfOpN(o) == IF o[1] = "push" THEN 0 ELSE o[2]             \* DecodeOP_N

\* CScript::SetDestination and SetMultisig
PayToKeyID(id)    == <<<<"OP_DUP">>, <<"OP_HASH160">>, Push(id), <<"OP_EQUALVERIFY">>, <<"OP_CHECKSIG">>>>
PayToScriptID(id) == <<<<"OP_HASH160">>, Push(id), <<"OP_EQUAL">>>>
PayToPubKey(key)  == <<Push(key), <<"OP_CHECKSIG">>>>
SetMultisig(nRequired, keys) ==
  <<OpN(nRequired)>> \o [i \in DOMAIN keys |-> Push(keys[i])] \o <<OpN(Len(keys)), <<"OP_CHECKMULTISIG">>>>
SetDestination(dest) == IF dest[1] = "KeyID" THEN PayToKeyID(dest[2]) ELSE PayToScriptID(dest[2])

\* What the templates take for a public key: any literal of 33 to 120 bytes
LikePubKey(o) == o[1] = "push" /\ SizeOf(o[2]) \in 33..120

Middle(script) == SubSeq(script, 2, Len(script) - 2)

IsMultisigShape(script) ==
  /\ Len(script) >= 3
  /\ script[Len(script)] = <<"OP_CHECKMULTISIG">>
  /\ IsOpN(script[1]) /\ IsOpN(script[Len(script) - 1])
  /\ \A i \in DOMAIN Middle(script) : LikePubKey(Middle(script)[i])

\* Solver: the type of a script and the data in it
Solver(script) ==
  LET n == Len(script)
      solved(ok, type, solutions) == [ok |-> ok, type |-> type, solutions |-> solutions]
  IN IF IsPayToScriptHash(script) THEN solved(TRUE, "TX_SCRIPTHASH", <<script[2][2]>>)
     ELSE IF n = 2 /\ LikePubKey(script[1]) /\ script[2] = <<"OP_CHECKSIG">>
     THEN solved(TRUE, "TX_PUBKEY", <<script[1][2]>>)
     ELSE IF n = 5 /\ script[3][1] = "push" /\ SizeOf(script[3][2]) = 20 /\ script = PayToKeyID(script[3][2])
     THEN solved(TRUE, "TX_PUBKEYHASH", <<script[3][2]>>)
     ELSE IF IsMultisigShape(script)
     THEN LET m == ValueOfOpN(script[1])
              k == ValueOfOpN(script[n - 1])
          IN solved(m >= 1 /\ k >= 1 /\ m <= k /\ Len(Middle(script)) = k, "TX_MULTISIG",
                    <<Num(m)>> \o [i \in DOMAIN Middle(script) |-> Middle(script)[i][2]] \o <<Num(k)>>)
     ELSE solved(FALSE, "TX_NONSTANDARD", <<>>)

Required(solutions) == solutions[1][2]
PubKeys(solutions)  == SubSeq(solutions, 2, Len(solutions) - 1)

IsStandard(script) ==
  LET s == Solver(script)
  IN /\ s.ok
     /\ s.type = "TX_MULTISIG" => Last(s.solutions)[2] \in 1..3 /\ Required(s.solutions) \in 1..Last(s.solutions)[2]

ScriptSigArgsExpected(type, solutions) ==
  CASE type = "TX_NONSTANDARD" -> -1
    [] type = "TX_PUBKEYHASH"  -> 2
    [] type = "TX_MULTISIG"    -> IF solutions = <<>> THEN -1 ELSE Required(solutions) + 1
    [] OTHER                   -> 1

-----------------------------------------------------------------------------
(* Signing *)

HaveKey(ks, id)  == \E key \in ks.keys : Hash160(key) = id
KeyOf(ks, id)    == CHOOSE key \in ks.keys : Hash160(key) = id
HaveScript(ks, id) == \E s \in ks.scripts : Hash160(<<"script", s>>) = id
ScriptOf(ks, id)   == CHOOSE s \in ks.scripts : Hash160(<<"script", s>>) = id

\* Sign1 appends to the scriptSig, or fails and leaves it alone
Sign1(id, ks, hash, nHashType, scriptSig) ==
  IF HaveKey(ks, id)
  THEN [ok |-> TRUE, sig |-> Append(scriptSig, Push(<<"sig", KeyOf(ks, id)[2], hash, nHashType, TRUE>>))]
  ELSE [ok |-> FALSE, sig |-> scriptSig]

SignN(solutions, ks, hash, nHashType, scriptSig) ==
  LET step(r, key) ==
        LET one == Sign1(Hash160(key), ks, hash, nHashType, r.sig)
        IN IF r.n = Required(solutions) \/ ~one.ok THEN r
           ELSE [n |-> r.n + 1, sig |-> one.sig]
      end == FoldLeft(step, [n |-> 0, sig |-> scriptSig], PubKeys(solutions))
  IN [ok |-> end.n = Required(solutions), sig |-> end.sig]

\* Solver(keystore, ...): the scriptSig, or for TX_SCRIPTHASH the redemption script
SolveAs(s, ks, hash, nHashType) ==
  LET id  == IF s.type = "TX_PUBKEY" THEN Hash160(s.solutions[1]) ELSE s.solutions[1]
      one == Sign1(id, ks, hash, nHashType, <<>>)
  IN IF ~s.ok THEN [ok |-> FALSE, sig |-> <<>>]
     ELSE CASE s.type = "TX_PUBKEY" -> one
            [] s.type = "TX_PUBKEYHASH" ->
                 IF one.ok THEN [one EXCEPT !.sig = Append(@, Push(KeyOf(ks, id)))] ELSE one
            [] s.type = "TX_SCRIPTHASH" ->
                 IF HaveScript(ks, id) THEN [ok |-> TRUE, sig |-> ScriptOf(ks, id)]
                                       ELSE [ok |-> FALSE, sig |-> <<>>]
            [] s.type = "TX_MULTISIG" ->
                 SignN(s.solutions, ks, hash, nHashType, <<Push(Num(0))>>)
Solve(ks, script, hash, nHashType) == SolveAs(Solver(script), ks, hash, nHashType)

Checked(r, fromPubKey, txTo, nIn) ==
  [r EXCEPT !.ok = @ /\ VerifyScript(r.sig, fromPubKey, txTo, nIn, {"P2SH", "STRICTENC"}, 0)]
SignSignature(ks, fromPubKey, txTo, nIn, nHashType) ==
  LET Sign(script) == Solve(ks, script, SignatureHash(script, txTo, nIn, nHashType), nHashType)
      WithScript(sub, r) == [ok  |-> r.ok /\ Solver(sub).type # "TX_SCRIPTHASH",
                             sig |-> Append(r.sig, Push(<<"script", sub>>))]
      Redeem(first) == IF first.ok /\ Solver(fromPubKey).type = "TX_SCRIPTHASH"
                       THEN WithScript(first.sig, Sign(first.sig)) ELSE first
  IN Checked(Redeem(Sign(fromPubKey)), fromPubKey, txTo, nIn)

HaveKeys(keys, ks) == Cardinality({i \in DOMAIN keys : HaveKey(ks, Hash160(keys[i]))})

RECURSIVE IsMine(_, _)
IsMine(ks, script) ==
  LET s == Solver(script)
  IN /\ s.ok
     /\ CASE s.type = "TX_PUBKEY"     -> HaveKey(ks, Hash160(s.solutions[1]))
          [] s.type = "TX_PUBKEYHASH" -> HaveKey(ks, s.solutions[1])
          [] s.type = "TX_SCRIPTHASH" -> HaveScript(ks, s.solutions[1]) /\ IsMine(ks, ScriptOf(ks, s.solutions[1]))
          [] s.type = "TX_MULTISIG"   -> HaveKeys(PubKeys(s.solutions), ks) = Len(PubKeys(s.solutions))

\* ExtractDestinations: the destinations and how many of them must sign
ExtractDestinations(script) ==
  LET s == Solver(script)
      KeyDest(key) == <<"KeyID", Hash160(key)>>
  IN IF ~s.ok THEN [ok |-> FALSE, dests |-> <<>>, required |-> 0]
     ELSE IF s.type = "TX_MULTISIG"
     THEN [ok |-> TRUE, required |-> Required(s.solutions),
           dests |-> [i \in DOMAIN PubKeys(s.solutions) |-> KeyDest(PubKeys(s.solutions)[i])]]
     ELSE [ok |-> TRUE, required |-> 1,
           dests |-> <<CASE s.type = "TX_PUBKEY"     -> KeyDest(s.solutions[1])
                         [] s.type = "TX_PUBKEYHASH" -> <<"KeyID", s.solutions[1]>>
                         [] s.type = "TX_SCRIPTHASH" -> <<"ScriptID", s.solutions[1]>>>>]

-----------------------------------------------------------------------------
(* Combining two scriptSigs for one input *)

PushAll(values) == [i \in DOMAIN values |-> Push(values[i])]

\* A bug: the signatures are put in the order in which they came
CombineMultisig_AsTheyCame(script, txTo, nIn, solutions, sigs1, sigs2) ==
  <<Push(Num(0))>> \o
  SelectSeq(PushAll(sigs1 \o sigs2), LAMBDA o : o # Push(Num(0)))

CombineMultisig(script, txTo, nIn, solutions, sigs1, sigs2) ==
  LET all   == (ToSet(sigs1) \cup ToSet(sigs2)) \ {Num(0)}
      keys  == PubKeys(solutions)
      Of(key) == {sig \in all : CheckSig(sig, key, script, txTo, nIn, 0, {})}
      have  == SelectSeq(keys, LAMBDA key : Of(key) # {})
      used  == SubSeq(have, 1, IF Len(have) < Required(solutions) THEN Len(have) ELSE Required(solutions))
  IN <<Push(Num(0))>> \o [i \in DOMAIN used |-> Push(CHOOSE sig \in Of(used[i]) : TRUE)]
       \o [i \in 1..(Required(solutions) - Len(used)) |-> Push(Num(0))]

RECURSIVE CombineStacks(_, _, _, _, _)
CombineStacks(script, txTo, nIn, sigs1, sigs2) ==
  LET s == Solver(script)
      empty(sigs, v) == sigs = <<>> \/ v = Num(0)
  IN CASE s.type = "TX_NONSTANDARD" -> PushAll(IF Len(sigs1) >= Len(sigs2) THEN sigs1 ELSE sigs2)
       [] s.type \in {"TX_PUBKEY", "TX_PUBKEYHASH"} ->
            PushAll(IF empty(sigs1, sigs1[1]) THEN sigs2 ELSE sigs1)
       [] s.type = "TX_SCRIPTHASH" ->
            IF empty(sigs1, Last(sigs1)) THEN PushAll(sigs2)
            ELSE IF empty(sigs2, Last(sigs2)) THEN PushAll(sigs1)
            ELSE Append(CombineStacks(ScriptIn(Last(sigs1)), txTo, nIn, Front(sigs1), Front(sigs2)),
                        Push(Last(sigs1)))
       [] s.type = "TX_MULTISIG" -> CombineMultisig(script, txTo, nIn, s.solutions, sigs1, sigs2)

CombineSignatures(script, txTo, nIn, scriptSig1, scriptSig2) ==
  LET Stack(sig) == EvalScript(<<>>, sig, [vin |-> <<>>, vout |-> <<>>], 1, {"STRICTENC"}, 0).stack
  IN CombineStacks(script, txTo, nIn, Stack(scriptSig1), Stack(scriptSig2))

-----------------------------------------------------------------------------
(* CScriptCompressor: a type byte and the data, or no compressed form *)

IsToPubKey(script) == /\ Len(script) = 2 /\ script[2] = <<"OP_CHECKSIG">>
                      /\ script[1][1] = "push" /\ script[1][2][1] = "key" /\ script[1][2][3] # "invalid"

Compress(script) ==
  IF Solver(script).type = "TX_PUBKEYHASH" THEN [ok |-> TRUE, size |-> 0, data |-> script[3][2]]
  ELSE IF IsPayToScriptHash(script) THEN [ok |-> TRUE, size |-> 1, data |-> script[2][2]]
  ELSE IF IsToPubKey(script)
  THEN LET key == script[1][2]
       IN [ok |-> TRUE, size |-> (IF key[3] = "compressed" THEN 2 ELSE 4) + (key[2] % 2),
           data |-> <<"x", key[2] \div 2>>]
  ELSE [ok |-> FALSE, size |-> 0, data |-> <<"none">>]

GetSpecialSize(size) == IF size \in {0, 1} THEN 20 ELSE IF size \in 2..5 THEN 32 ELSE 0

Decompress(size, data) ==
  LET key(form) == <<"key", (2 * data[2]) + (size % 2), form>>
  IN CASE size = 0 -> PayToKeyID(data)
       [] size = 1 -> PayToScriptID(data)
       [] size \in {2, 3} -> PayToPubKey(key("compressed"))
       [] size \in {4, 5} -> PayToPubKey(key("uncompressed"))
=============================================================================
