------------------------------- MODULE Script -------------------------------
(***************************************************************************)
(* The script interpreter of script.cpp and the signatures it checks.      *)
(*                                                                         *)
(* A script is a sequence of instructions: <<"push", v>> for a literal     *)
(* (OP_0 pushes the empty vector), <<"OP_N", n>> for OP_1NEGATE and OP_1 .. *)
(* OP_16, and <<name>> for every other opcode.  A stack element is         *)
(*   <<"num", n>>          the minimal encoding of n, the empty vector if 0 *)
(*   <<"pad", n, size>>    a longer encoding of n (of 0: also negative 0)   *)
(*   <<"hash", f, v>>      the digest f of v                                *)
(*   <<"key", k, form>>    a public key of the pair k: "compressed",        *)
(*                         "uncompressed", or "invalid": no such point      *)
(*   <<"sig", k, h, nHashType, der>>  a signature of k on the digest h      *)
(*   <<"script", s>>       the serialisation of the script s                *)
(* Digests and signatures are ideal: equal only if what they are of is.    *)
(***************************************************************************)
EXTENDS Integers, Sequences, SequencesExt

CONSTANTS MaxNumSize,      \* nMaxNumSize, bytes of an operand (4)
          MaxOpCount,      \* opcodes a script may execute (201)
          MaxStackSize,    \* elements of stack and altstack (1000)
          MaxKeys          \* public keys of a CHECKMULTISIG (20)

Num(n)    == <<"num", n>>
Push(v)   == <<"push", v>>
vchFalse  == Num(0)
vchTrue   == Num(1)
BoolVch(b) == IF b THEN vchTrue ELSE vchFalse

\* The bytes of the minimal encoding of n (the first bit of the last is the sign)
NumSize(n) == LET a == IF n < 0 THEN -n ELSE n
              IN CASE a = 0 -> 0 [] a < 128 -> 1 [] a < 32768 -> 2 [] OTHER -> 3

SizeOf(v) == CASE v[1] = "num" -> NumSize(v[2])
               [] v[1] = "pad" -> v[3]
               [] v[1] = "hash" -> IF v[2] \in {"OP_RIPEMD160", "OP_SHA1", "OP_HASH160"}
                                   THEN 20 ELSE 32
               [] v[1] = "key" -> IF v[3] = "compressed" THEN 33 ELSE 65
               [] OTHER -> 72

IsNumber(v)  == v[1] \in {"num", "pad"} /\ SizeOf(v) <= MaxNumSize
CastToBool(v) == v[1] \notin {"num", "pad"} \/ v[2] # 0

-----------------------------------------------------------------------------
(* Signatures.  A transaction is [vin |-> <<[prevout, sequence], ..>>,      *)
(* vout |-> <<..>>]; inputs are numbered from 1.                           *)

SIGHASH_ALL == 1
SIGHASH_NONE == 2
SIGHASH_SINGLE == 3
SIGHASH_ANYONECANPAY == 128

FindAndDelete(script, o) == SelectSeq(script, LAMBDA p : p # o)

HashOne == <<"one">>       \* the digest 1 returned for what is out of range
NullOut == "null"

\* An input as it is hashed; lax: the sequence numbers of the others are left open
HashedInput(scriptCode, txTo, nIn, lax, i) ==
  [prevout   |-> txTo.vin[i].prevout,
   scriptSig |-> IF i = nIn THEN FindAndDelete(scriptCode, <<"OP_CODESEPARATOR">>) ELSE <<>>,
   sequence  |-> IF lax /\ i # nIn THEN 0 ELSE txTo.vin[i].sequence]

SignatureHash(scriptCode, txTo, nIn, nHashType) ==
  LET base     == nHashType % 32
      Input(i) == HashedInput(scriptCode, txTo, nIn, base \in {SIGHASH_NONE, SIGHASH_SINGLE}, i)
  IN IF nIn > Len(txTo.vin) \/ (base = SIGHASH_SINGLE /\ nIn > Len(txTo.vout))
     THEN HashOne
     ELSE <<IF nHashType >= SIGHASH_ANYONECANPAY
              THEN <<Input(nIn)>> ELSE [i \in 1..Len(txTo.vin) |-> Input(i)],
            CASE base = SIGHASH_NONE   -> <<>>
              [] base = SIGHASH_SINGLE -> [i \in 1..nIn |-> IF i < nIn THEN NullOut ELSE txTo.vout[i]]
              [] OTHER                 -> txTo.vout,
            nHashType>>

IsCanonicalPubKey(v)    == v[1] = "key" /\ v[3] \in {"compressed", "uncompressed"}
IsCanonicalSignature(v) == /\ v[1] = "sig" /\ v[5]
                           /\ v[4] % SIGHASH_ANYONECANPAY \in SIGHASH_ALL..SIGHASH_SINGLE

\* CSignatureCache: what was once verified, of which Set() evicts any entries
SigData(hash, sig, key) == <<hash, sig, key>>
CacheGet(cache, hash, sig, key) == SigData(hash, sig, key) \in cache
CacheSet(cache, limit, hash, sig, key) ==
  IF limit <= 0 THEN {cache}
  ELSE {kept \cup {SigData(hash, sig, key)} :
          kept \in {c \in SUBSET cache : Cardinality(c) <= limit
                                        /\ (c = cache \/ Cardinality(c) = limit)}}

Verify(key, hash, sig) == /\ key[1] = "key" /\ key[3] # "invalid"
                          /\ sig[1] = "sig" /\ sig[2] = key[2] /\ sig[3] = hash

\* The hash type of a vector that is no signature is a byte no caller expects
HashTypeOf(sig) == IF sig[1] = "sig" THEN sig[4] ELSE 0

\* CheckSig with the cache as it was: the verdict, and the caches it may leave
CheckHash(cache, limit, sig, key, hash, expected, flags) ==
  LET known == CacheGet(cache, hash, sig, key)
      good  == /\ sig # Num(0)
               /\ expected
               /\ known \/ Verify(key, hash, sig)
  IN [ok |-> good,
      caches |-> IF good /\ ~known /\ "NOCACHE" \notin flags
                 THEN CacheSet(cache, limit, hash, sig, key) ELSE {cache}]

CheckSigWith(cache, limit, sig, key, scriptCode, txTo, nIn, nHashType, flags) ==
  LET last == HashTypeOf(sig)
  IN CheckHash(cache, limit, sig, key, SignatureHash(scriptCode, txTo, nIn, last), nHashType \in {0, last}, flags)

CheckSig(sig, key, scriptCode, txTo, nIn, nHashType, flags) ==
  CheckSigWith({}, 0, sig, key, scriptCode, txTo, nIn, nHashType, flags).ok

-----------------------------------------------------------------------------
(* EvalScript.  Its state: ok is FALSE once it has returned false, exec is *)
(* vfExec, begin the instruction after the last OP_CODESEPARATOR; checks   *)
(* counts the calls of CheckSig.  env holds the script and what CheckSig   *)
(* is called with.                                                         *)

Fail(s)   == [s EXCEPT !.ok = FALSE]
Top(s, i) == s.stack[Len(s.stack) + 1 - i]
Depth(s)  == Len(s.stack)
Under(s, n) == SubSeq(s.stack, 1, Len(s.stack) - n)
Replace(s, n, vs) == [s EXCEPT !.stack = Under(s, n) \o vs]

\* The opcodes that only permute, copy or drop: how many elements they take,
\* and which of these, the deepest first, they leave
StackOps ==
  [OP_2DROP |-> <<2, <<>>>>,                OP_2DUP  |-> <<2, <<1, 2, 1, 2>>>>,
   OP_3DUP  |-> <<3, <<1, 2, 3, 1, 2, 3>>>>, OP_2OVER |-> <<4, <<1, 2, 3, 4, 1, 2>>>>,
   OP_2ROT  |-> <<6, <<3, 4, 5, 6, 1, 2>>>>, OP_2SWAP |-> <<4, <<3, 4, 1, 2>>>>]
StackOps1 ==
  [OP_DROP |-> <<1, <<>>>>,     OP_DUP  |-> <<1, <<1, 1>>>>, OP_NIP  |-> <<2, <<2>>>>,
   OP_OVER |-> <<2, <<1, 2, 1>>>>, OP_ROT |-> <<3, <<2, 3, 1>>>>,
   OP_SWAP |-> <<2, <<2, 1>>>>, OP_TUCK |-> <<2, <<2, 1, 2>>>>]

Permute(s, rule) ==
  IF Depth(s) < rule[1] THEN Fail(s)
  ELSE Replace(s, rule[1], [i \in DOMAIN rule[2] |-> Top(s, rule[1] + 1 - rule[2][i])])

\* OP_PICK and OP_ROLL
PickOrRoll(s, roll) ==
  LET n    == Top(s, 1)[2]
      rest == Replace(s, 1, <<>>)
  IN IF Depth(s) < 2 THEN Fail(s)
     ELSE IF ~IsNumber(Top(s, 1)) THEN Fail(s)
     ELSE IF n < 0 \/ n >= Depth(rest) THEN Fail(s)
     ELSE LET at == Depth(rest) - n
          IN [s EXCEPT !.stack = Append(IF roll THEN RemoveAt(rest.stack, at) ELSE rest.stack,
                                        rest.stack[at])]

Unary(name, n) ==
  CASE name = "OP_1ADD"      -> n + 1
    [] name = "OP_1SUB"      -> n - 1
    [] name = "OP_NEGATE"    -> -n
    [] name = "OP_ABS"       -> IF n < 0 THEN -n ELSE n
    [] name = "OP_NOT"       -> IF n = 0 THEN 1 ELSE 0
    [] name = "OP_0NOTEQUAL" -> IF n # 0 THEN 1 ELSE 0
UnaryNames == {"OP_1ADD", "OP_1SUB", "OP_NEGATE", "OP_ABS", "OP_NOT", "OP_0NOTEQUAL"}

Compare(name, a, b) ==
  CASE name = "OP_BOOLAND"                             -> a # 0 /\ b # 0
    [] name = "OP_BOOLOR"                              -> a # 0 \/ b # 0
    [] name \in {"OP_NUMEQUAL", "OP_NUMEQUALVERIFY"}   -> a = b
    [] name = "OP_NUMNOTEQUAL"                         -> a # b
    [] name = "OP_LESSTHAN"                            -> a < b
    [] name = "OP_GREATERTHAN"                         -> a > b
    [] name = "OP_LESSTHANOREQUAL"                     -> a <= b
    [] name = "OP_GREATERTHANOREQUAL"                  -> a >= b
Binary(name, a, b) ==
  CASE name = "OP_ADD" -> a + b
    [] name = "OP_SUB" -> a - b
    [] name = "OP_MIN" -> IF a < b THEN a ELSE b
    [] name = "OP_MAX" -> IF a > b THEN a ELSE b
    [] OTHER           -> IF Compare(name, a, b) THEN 1 ELSE 0
BinaryNames == {"OP_ADD", "OP_SUB", "OP_MIN", "OP_MAX", "OP_BOOLAND", "OP_BOOLOR", "OP_NUMEQUAL",
                "OP_NUMEQUALVERIFY", "OP_NUMNOTEQUAL", "OP_LESSTHAN", "OP_GREATERTHAN",
                "OP_LESSTHANOREQUAL", "OP_GREATERTHANOREQUAL"}

\* n operands are read as numbers, or the script fails
Numbers(s, n) == Depth(s) >= n /\ \A i \in 1..n : IsNumber(Top(s, i))

\* The result b replaces n elements; a VERIFY opcode drops it or fails
Verdict(s, n, b, verify) ==
  IF verify THEN (IF b THEN Replace(s, n, <<>>) ELSE Fail(s))
            ELSE Replace(s, n, <<BoolVch(b)>>)

Numeric(s, name) ==
  IF name \in UnaryNames
  THEN IF Numbers(s, 1) THEN Replace(s, 1, <<Num(Unary(name, Top(s, 1)[2]))>>) ELSE Fail(s)
  ELSE IF ~Numbers(s, 2) THEN Fail(s)
  ELSE LET r == Binary(name, Top(s, 2)[2], Top(s, 1)[2])
       IN IF name = "OP_NUMEQUALVERIFY" THEN Verdict(s, 2, r # 0, TRUE)
                                        ELSE Replace(s, 2, <<Num(r)>>)

Within(s) == IF Numbers(s, 3)
             THEN Verdict(s, 3, Top(s, 2)[2] <= Top(s, 3)[2] /\ Top(s, 3)[2] < Top(s, 1)[2], FALSE)
             ELSE Fail(s)

HashNames == {"OP_RIPEMD160", "OP_SHA1", "OP_SHA256", "OP_HASH160", "OP_HASH256"}

\* A signature and a key are tried with CheckSig only if strictly encoded
Tried(env, sig, key) == "STRICTENC" \notin env.flags \/ (IsCanonicalSignature(sig) /\ IsCanonicalPubKey(key))
Signed(env, sig, key, code) ==
  Tried(env, sig, key) /\ CheckSig(sig, key, code, env.txTo, env.nIn, env.nHashType, env.flags)
ScriptCode(s, env) == SubSeq(env.script, s.begin, Len(env.script))

EvalCheckSig(s, env, verify) ==
  IF Depth(s) < 2 THEN Fail(s)
  ELSE LET code == FindAndDelete(ScriptCode(s, env), Push(Top(s, 2)))
       IN Verdict([s EXCEPT !.checks = @ + 1], 2, Signed(env, Top(s, 2), Top(s, 1), code), verify)

\* The keys are tried in order, each once: MatchSigs is <<verdict, keys tried>>
MatchSigs(env, sigs, keys, code) ==
  LET After(m, next) == [ok |-> Len(sigs) - next + 1 <= Len(keys) - m.tried - 1, sig |-> next, tried |-> m.tried + 1]
      step(m, key) ==
        IF ~m.ok \/ m.sig > Len(sigs) THEN m
        ELSE After(m, IF Signed(env, sigs[m.sig], key, code) THEN m.sig + 1 ELSE m.sig)
  IN FoldLeft(step, [ok |-> TRUE, sig |-> 1, tried |-> 0], keys)

Matched(s, n, m, verify) == Verdict([s EXCEPT !.checks = @ + m.tried], n, m.ok, verify)

EvalCheckMultiSig(s0, env, verify) ==
  LET nKeys == Top(s0, 1)[2]
      s     == [s0 EXCEPT !.nOp = @ + nKeys]
      nSigs == Top(s, nKeys + 2)[2]
      i     == nKeys + nSigs + 3       \* one element too many is popped
  IN IF ~Numbers(s0, 1) THEN Fail(s0)
     ELSE IF nKeys < 0 \/ nKeys > MaxKeys THEN Fail(s)
     ELSE IF s.nOp > MaxOpCount \/ Depth(s) < nKeys + 2 THEN Fail(s)
     ELSE IF ~IsNumber(Top(s, nKeys + 2)) THEN Fail(s)
     ELSE IF nSigs < 0 \/ nSigs > nKeys \/ Depth(s) < i THEN Fail(s)
     ELSE LET keys == [k \in 1..nKeys |-> Top(s, k + 1)]
              sigs == [k \in 1..nSigs |-> Top(s, nKeys + 2 + k)]
              code == FoldLeft(LAMBDA c, v : FindAndDelete(c, Push(v)), ScriptCode(s, env), sigs)
          IN Matched(s, i, MatchSigs(env, sigs, keys, code), verify)

\* The opcodes EvalScript executes whether or not the branch is taken
Branch(s, name, fExec) ==
  CASE name \in {"OP_IF", "OP_NOTIF"} ->
         IF ~fExec THEN [s EXCEPT !.exec = Append(@, FALSE)]
         ELSE IF Depth(s) < 1 THEN Fail(s)
         ELSE [Replace(s, 1, <<>>) EXCEPT !.exec = Append(@, CastToBool(Top(s, 1)) = (name = "OP_IF"))]
    [] s.exec = <<>>      -> Fail(s)
    [] name = "OP_ELSE"   -> [s EXCEPT !.exec = Append(Front(@), ~Last(@))]
    [] name = "OP_ENDIF"  -> [s EXCEPT !.exec = Front(@)]

Nops == {"OP_NOP", "OP_NOP1", "OP_NOP2", "OP_NOP3", "OP_NOP4", "OP_NOP5",
         "OP_NOP6", "OP_NOP7", "OP_NOP8", "OP_NOP9", "OP_NOP10"}
Disabled == {"OP_CAT", "OP_SUBSTR", "OP_LEFT", "OP_RIGHT", "OP_INVERT", "OP_AND", "OP_OR", "OP_XOR",
             "OP_2MUL", "OP_2DIV", "OP_MUL", "OP_DIV", "OP_MOD", "OP_LSHIFT", "OP_RSHIFT"}

\* The opcodes up to OP_16
Literals == {"push", "OP_N", "OP_RESERVED"}

\* The switch of EvalScript for an opcode of a branch that is taken
EvalOp(s, o, pc, env) ==
  LET name == o[1]
  IN CASE name = "OP_N"                 -> Replace(s, 0, <<Num(o[2])>>)
       [] name \in Nops                 -> s
       [] name = "OP_VERIFY"            -> IF Depth(s) < 1 THEN Fail(s)
                                           ELSE Verdict(s, 1, CastToBool(Top(s, 1)), TRUE)
       [] name = "OP_TOALTSTACK"        -> IF Depth(s) < 1 THEN Fail(s)
                                           ELSE [Replace(s, 1, <<>>) EXCEPT !.alt = Append(@, Top(s, 1))]
       [] name = "OP_FROMALTSTACK"      -> IF s.alt = <<>> THEN Fail(s)
                                           ELSE [Replace(s, 0, <<Last(s.alt)>>) EXCEPT !.alt = Front(@)]
       [] name \in DOMAIN StackOps      -> Permute(s, StackOps[name])
       [] name \in DOMAIN StackOps1     -> Permute(s, StackOps1[name])
       [] name = "OP_IFDUP"             -> IF Depth(s) < 1 THEN Fail(s)
                                           ELSE IF CastToBool(Top(s, 1)) THEN Replace(s, 0, <<Top(s, 1)>>) ELSE s
       [] name = "OP_DEPTH"             -> Replace(s, 0, <<Num(Depth(s))>>)
       [] name \in {"OP_PICK", "OP_ROLL"} -> PickOrRoll(s, name = "OP_ROLL")
       [] name = "OP_SIZE"              -> IF Depth(s) < 1 THEN Fail(s)
                                           ELSE Replace(s, 0, <<Num(SizeOf(Top(s, 1)))>>)
       [] name \in {"OP_EQUAL", "OP_EQUALVERIFY"} ->
            IF Depth(s) < 2 THEN Fail(s)
            ELSE Verdict(s, 2, Top(s, 1) = Top(s, 2), name = "OP_EQUALVERIFY")
       [] name \in UnaryNames \cup BinaryNames -> Numeric(s, name)
       [] name = "OP_WITHIN"            -> Within(s)
       [] name \in HashNames            -> IF Depth(s) < 1 THEN Fail(s)
                                           ELSE Replace(s, 1, <<<<"hash", name, Top(s, 1)>>>>)
       [] name = "OP_CODESEPARATOR"     -> [s EXCEPT !.begin = pc + 1]
       [] name \in {"OP_CHECKSIG", "OP_CHECKSIGVERIFY"} ->
            EvalCheckSig(s, env, name = "OP_CHECKSIGVERIFY")
       [] name \in {"OP_CHECKMULTISIG", "OP_CHECKMULTISIGVERIFY"} ->
            EvalCheckMultiSig(s, env, name = "OP_CHECKMULTISIGVERIFY")
       [] OTHER                         -> Fail(s)       \* OP_RETURN and what is reserved

Sized(s) == IF Depth(s) + Len(s.alt) > MaxStackSize THEN Fail(s) ELSE s

\* The loop of EvalScript, from the instruction pc on
RECURSIVE EvalFrom(_, _, _)
EvalFrom(s0, pc, env) ==
  LET o     == env.script[pc]
      fExec == \A i \in DOMAIN s0.exec : s0.exec[i]
      s     == IF o[1] \in Literals THEN s0 ELSE [s0 EXCEPT !.nOp = @ + 1]
  IN IF ~s0.ok \/ pc > Len(env.script) THEN s0
     ELSE EvalFrom(
       IF s.nOp > MaxOpCount \/ o[1] \in Disabled THEN Fail(s)
       ELSE IF o[1] = "push" THEN (IF fExec THEN Sized(Replace(s, 0, <<o[2]>>)) ELSE s)
       ELSE IF o[1] \in {"OP_IF", "OP_NOTIF", "OP_ELSE", "OP_ENDIF"} THEN Sized(Branch(s, o[1], fExec))
       ELSE IF o[1] \in {"OP_VERIF", "OP_VERNOTIF"} THEN Fail(s)
       ELSE IF fExec THEN Sized(EvalOp(s, o, pc, env)) ELSE s,
       pc + 1, env)

Returned(end) == [ok |-> end.ok /\ end.exec = <<>>, stack |-> end.stack, checks |-> end.checks]
EvalScript(stack, script, txTo, nIn, flags, nHashType) ==
  Returned(EvalFrom([ok |-> TRUE, stack |-> stack, alt |-> <<>>, exec |-> <<>>, nOp |-> 0, begin |-> 1, checks |-> 0], 1,
                    [script |-> script, txTo |-> txTo, nIn |-> nIn, flags |-> flags, nHashType |-> nHashType]))

-----------------------------------------------------------------------------
\* CScript::IsPushOnly and IsPayToScriptHash
IsPushOnly(script) == \A i \in DOMAIN script : script[i][1] \in Literals
IsPayToScriptHash(script) ==
  /\ Len(script) = 3
  /\ script[1] = <<"OP_HASH160">> /\ script[3] = <<"OP_EQUAL">>
  /\ script[2][1] = "push" /\ SizeOf(script[2][2]) = 20

\* A stack element read as a script; one that is no script is not evaluated further
ScriptIn(v) == CASE v[1] = "script" -> v[2]
                 [] v = Num(0)      -> <<>>
                 [] OTHER           -> <<<<"OP_INVALIDOPCODE">>>>

Succeeds(e) == e.ok /\ e.stack # <<>> /\ CastToBool(Last(e.stack))

\* VerifyScript once the scriptSig has been evaluated to e
VerifyAfter(e, scriptSig, scriptPubKey, txTo, nIn, flags, nHashType) ==
  /\ e.ok
  /\ Succeeds(EvalScript(e.stack, scriptPubKey, txTo, nIn, flags, nHashType))
  /\ "P2SH" \in flags /\ IsPayToScriptHash(scriptPubKey) =>
       /\ IsPushOnly(scriptSig)
       /\ Succeeds(EvalScript(Front(e.stack), ScriptIn(Last(e.stack)), txTo, nIn, flags, nHashType))

VerifyScript(scriptSig, scriptPubKey, txTo, nIn, flags, nHashType) ==
  VerifyAfter(EvalScript(<<>>, scriptSig, txTo, nIn, flags, nHashType),
              scriptSig, scriptPubKey, txTo, nIn, flags, nHashType)

-----------------------------------------------------------------------------
(* The number of signature checks a script is charged for.                 *)

\* The opcode before the i-th, lastOpcode
LastOpcode_Literal(script, i) ==   \* a bug: skips what is no literal
  LET before == {j \in 1..(i - 1) : script[j][1] \in Literals}
  IN IF before = {} THEN <<"none">> ELSE script[Max(before)]
LastOpcode(script, i) == IF i = 1 THEN <<"none">> ELSE script[i - 1]

Charge(script, i, fAccurate) ==
  LET last == LastOpcode(script, i)
  IN CASE script[i][1] \in {"OP_CHECKSIG", "OP_CHECKSIGVERIFY"} -> 1
       [] script[i][1] \in {"OP_CHECKMULTISIG", "OP_CHECKMULTISIGVERIFY"} ->
            IF fAccurate /\ last[1] = "OP_N" /\ last[2] >= 1 THEN last[2] ELSE MaxKeys
       [] OTHER -> 0

GetSigOpCount(script, fAccurate) ==
  FoldLeft(LAMBDA n, i : n + Charge(script, i, fAccurate), 0, [i \in 1..Len(script) |-> i])

\* GetSigOpCount(scriptSig): what the last literal of scriptSig is charged for
GetP2SHSigOpCount(script, scriptSig) ==
  IF ~IsPayToScriptHash(script) THEN GetSigOpCount(script, TRUE)
  ELSE IF scriptSig = <<>> \/ ~IsPushOnly(scriptSig) THEN 0
  ELSE LET top == Last(scriptSig)
       IN GetSigOpCount(IF top[1] = "push" THEN ScriptIn(top[2]) ELSE <<>>, TRUE)
=============================================================================
