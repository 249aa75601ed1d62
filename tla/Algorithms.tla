----------------------------- MODULE Algorithms -----------------------------
(***************************************************************************)
(* The pure algorithms of the node, each tried on every input of a bounded *)
(* set: a step picks the inputs of one trial, the invariants say what its  *)
(* result must be.                                                         *)
(***************************************************************************)
EXTENDS ScriptProperties, PrimeProperties, NetAddrProperties, DataProperties

VARIABLE trial       \* <<kind, input>>

Try(kind, input) == trial' = <<kind, input>>
Is(kind) == trial[1] = kind
In == trial[2]

-----------------------------------------------------------------------------
(* Scripts *)

Key(k) == <<"key", k, IF k = 1 THEN "uncompressed" ELSE "compressed">>
AllKeys == {Key(0), Key(1), Key(2)}
Store(keys, scripts) == [keys |-> keys, scripts |-> scripts]
InputOf(p, q) == [prevout |-> p, sequence |-> q]

MultiScripts == {SetMultisig(m, <<Key(0), Key(1), Key(2)>>) : m \in 1..3}
                \cup {SetMultisig(1, <<Key(1)>>), SetMultisig(2, <<Key(0), Key(0)>>)}
PlainScripts == {PayToPubKey(Key(1)), PayToKeyID(Hash160(Key(0))), PayToKeyID(Hash160(Key(1)))} \cup MultiScripts
ToScript(s)  == PayToScriptID(Hash160(<<"script", s>>))
OddScripts   == {<<>>, <<<<"OP_N", 1>>>>, SetMultisig(3, <<Key(0), Key(1)>>), SetMultisig(0, <<Key(0)>>),
                 PayToPubKey(<<"key", 2, "invalid">>), SetMultisig(1, <<Key(2), Key(2), Key(2), Key(2)>>)}
HashScripts  == {ToScript(s) : s \in PlainScripts \cup OddScripts}
NestedScript == ToScript(ToScript(PayToPubKey(Key(1))))
AllScripts   == PlainScripts \cup OddScripts \cup HashScripts \cup {NestedScript}
Known        == PlainScripts \cup OddScripts \cup {ToScript(PayToPubKey(Key(1)))}

Tx  == [vin |-> <<InputOf("p", 1), InputOf("q", 1)>>, vout |-> <<"a">>]
Variants == {Tx,
             [Tx EXCEPT !.vin[1].sequence = 2], [Tx EXCEPT !.vin[2].sequence = 2],
             [Tx EXCEPT !.vin[2].prevout = "r"], [Tx EXCEPT !.vin = Append(@, InputOf("r", 1))],
             [Tx EXCEPT !.vout = <<"b">>], [Tx EXCEPT !.vout = <<"a", "b">>], [Tx EXCEPT !.vout = <<>>]}
HashTypes == {h + a : h \in SIGHASH_ALL..SIGHASH_SINGLE, a \in {0, SIGHASH_ANYONECANPAY}}

TrySign == \E keys \in SUBSET AllKeys, known \in {{}, Known}, s \in AllScripts, n \in 1..2, h \in HashTypes,
              tx \in {Tx, [Tx EXCEPT !.vout = <<"a", "b">>]} :
             /\ h \in {SIGHASH_ALL} \/ (keys = AllKeys /\ known = Known)
             /\ Try("sign", [ks |-> Store(keys, known), script |-> s, tx |-> tx, nIn |-> n, hashType |-> h])

TryCombine == \E k1, k2 \in SUBSET AllKeys, s \in (PlainScripts \cup {ToScript(p) : p \in PlainScripts}),
                 r2 \in {{}, Known}, h \in {SIGHASH_ALL, SIGHASH_SINGLE + SIGHASH_ANYONECANPAY} :
                Try("combine", [ks1 |-> Store(k1, Known), ks2 |-> Store(k2, r2), script |-> s, hashType |-> h])

TryMultisig == \E s \in {SetMultisig(2, <<Key(0), Key(1), Key(2)>>), SetMultisig(3, <<Key(0), Key(1), Key(2)>>)},
                  signers \in [1..3 -> 0..3] \cup [1..2 -> 0..3] :
                 /\ Len(signers) = Required(Solver(s).solutions)
                 /\ Try("multisig", [script |-> s, signers |-> signers])

Sigs == {<<"sig", k, SignatureHash(PayToPubKey(Key(0)), t, 1, SIGHASH_ALL), SIGHASH_ALL, TRUE>> :
           k \in 0..1, t \in {Tx, [Tx EXCEPT !.vout = <<"b">>]}} \cup {Num(0)}
TryCache == \E s1, s2 \in Sigs, k2 \in {Key(0), Key(1)}, t1, t2 \in {Tx, [Tx EXCEPT !.vout = <<"b">>]},
               limit \in 0..1 :
              Try("cache", [sig1 |-> s1, sig2 |-> s2, key2 |-> k2, tx1 |-> t1, tx2 |-> t2, limit |-> limit])

Instructions == {<<"OP_N", 1>>, <<"OP_N", 2>>, Push(Num(0)), Push(Key(0)), <<"OP_IF">>, <<"OP_ELSE">>, <<"OP_ENDIF">>,
                 <<"OP_DUP">>, <<"OP_DROP">>, <<"OP_CHECKSIGVERIFY">>, <<"OP_CHECKMULTISIG">>, <<"OP_ROLL">>, <<"OP_SIZE">>}
Stacks == {<<>>, <<Num(0), Num(0), Num(1), Key(0), Key(1)>>,
           <<Num(0), <<"sig", 0, HashOne, SIGHASH_ALL, TRUE>>, Num(1), Key(1), Key(0)>>,
          <<Num(0), <<"sig", 0, HashOne, SIGHASH_ALL, TRUE>>, Num(1), Key(0), Key(1), Num(2)>>}
TryCharge == \E stack \in Stacks, script \in UNION {[1..n -> Instructions] : n \in 1..3} :
               Try("charge", [stack |-> stack, script |-> script])

\* Scripts that must do the same to every stack, whatever is on it
O(name) == <<name>>
N(n)    == IF n = 0 THEN Push(Num(0)) ELSE <<"OP_N", n>>
Laws == {
  <<<<O("OP_NIP")>>, <<O("OP_SWAP"), O("OP_DROP")>>>>,
  <<<<O("OP_TUCK")>>, <<O("OP_SWAP"), O("OP_OVER")>>>>,
  <<<<O("OP_2DUP")>>, <<O("OP_OVER"), O("OP_OVER")>>>>,
  <<<<O("OP_2DROP")>>, <<O("OP_DROP"), O("OP_DROP")>>>>,
  <<<<O("OP_3DUP")>>, <<N(2), O("OP_PICK"), N(2), O("OP_PICK"), N(2), O("OP_PICK")>>>>,
  <<<<O("OP_2OVER")>>, <<N(3), O("OP_PICK"), N(3), O("OP_PICK")>>>>,
  <<<<O("OP_2ROT")>>, <<N(5), O("OP_ROLL"), N(5), O("OP_ROLL")>>>>,
  <<<<O("OP_2SWAP")>>, <<N(3), O("OP_ROLL"), N(3), O("OP_ROLL")>>>>,
  <<<<O("OP_ROT")>>, <<N(2), O("OP_ROLL")>>>>,
  <<<<O("OP_NOP")>>, <<O("OP_DEPTH"), O("OP_DROP")>>>>,
  <<<<O("OP_DUP"), O("OP_DROP")>>, <<O("OP_TOALTSTACK"), O("OP_FROMALTSTACK")>>>>,
  <<<<O("OP_IFDUP")>>, <<O("OP_DUP"), O("OP_IF"), O("OP_DUP"), O("OP_ENDIF")>>>>,
  <<<<O("OP_ABS")>>, <<O("OP_DUP"), N(0), O("OP_LESSTHAN"), O("OP_IF"), O("OP_NEGATE"), O("OP_ENDIF")>>>>,
  <<<<O("OP_MIN")>>, <<O("OP_2DUP"), O("OP_GREATERTHAN"), O("OP_IF"), O("OP_SWAP"), O("OP_ENDIF"), O("OP_DROP")>>>>,
  <<<<O("OP_MAX")>>, <<O("OP_2DUP"), O("OP_LESSTHANOREQUAL"), O("OP_NOTIF"), O("OP_SWAP"), O("OP_ENDIF"), O("OP_NIP")>>>>,
  <<<<O("OP_WITHIN")>>, <<O("OP_TOALTSTACK"), O("OP_OVER"), O("OP_LESSTHANOREQUAL"), O("OP_SWAP"),
                          O("OP_FROMALTSTACK"), O("OP_LESSTHAN"), O("OP_BOOLAND")>>>>,
  <<<<O("OP_NOT")>>, <<O("OP_IF"), N(0), O("OP_ELSE"), N(1), O("OP_ENDIF")>>>>,
  <<<<O("OP_BOOLOR")>>, <<O("OP_NOT"), O("OP_SWAP"), O("OP_NOT"), O("OP_BOOLAND"), O("OP_NOT")>>>>,
  <<<<O("OP_NUMNOTEQUAL")>>, <<O("OP_NUMEQUAL"), O("OP_NOT")>>>>,
  <<<<O("OP_GREATERTHANOREQUAL")>>, <<O("OP_SWAP"), O("OP_LESSTHANOREQUAL")>>>>,
  <<<<O("OP_0NOTEQUAL")>>, <<N(0), O("OP_NUMNOTEQUAL")>>>>,
  <<<<O("OP_NUMEQUALVERIFY")>>, <<O("OP_NUMEQUAL"), O("OP_VERIFY")>>>>,
  <<<<O("OP_EQUALVERIFY")>>, <<O("OP_EQUAL"), O("OP_VERIFY")>>>>,
  <<<<O("OP_HASH256"), O("OP_SIZE"), O("OP_NIP")>>, <<O("OP_SHA256"), O("OP_SIZE"), O("OP_NIP")>>>>,
  <<<<O("OP_1SUB"), O("OP_1ADD")>>, <<N(-1), O("OP_ADD"), N(-1), O("OP_SUB")>>>>,
  <<<<O("OP_CHECKSIGVERIFY")>>, <<O("OP_CHECKSIG"), O("OP_VERIFY")>>>>,
  <<<<O("OP_CHECKMULTISIGVERIFY")>>, <<O("OP_CODESEPARATOR"), O("OP_CHECKMULTISIG"), O("OP_VERIFY")>>>>}
TryLaw == \E law \in Laws, stack \in UNION {[1..n -> {Num(-127), Num(0), Num(3)}] : n \in 0..6} :
            Try("law", [law |-> law, stack |-> stack])

TryCodec == \E s \in AllScripts \cup {PayToPubKey(<<"key", k, f>>) : k \in 0..3, f \in {"compressed", "uncompressed"}} :
              Try("codec", [script |-> s])

\* Whoever holds the keys a script asks for, alone or combined, makes a
\* signature that verifies, that covers what its type says, and no other does:
\* SignSignature, CombineSignatures, CHECKMULTISIG and the signature cache.
SignaturesVerify ==
  /\ Is("sign") => SignTrial(In.ks, In.script, In.tx, In.nIn, In.hashType, Variants)
  /\ Is("combine") => CombineTrial(In.ks1, In.ks2, In.script, Tx, 1, In.hashType)
  /\ Is("multisig") => MultisigTrial(In.script, In.signers, Tx, 1)
  /\ Is("cache") => CacheTrial(In.sig1, Key(0), In.sig2, In.key2, In.tx1, In.tx2, In.limit)

\* What a transaction asks of the network is charged for: no script costs more
\* signature checks than GetSigOpCount counts, also over a block; instructions
\* that stand for others do the same; no sum of amounts overflows its check; the
\* least fee grows with the size; a compressed script is that script.
ScriptsAreCharged ==
  /\ Is("charge") => ChargeTrial(In.stack, In.script, Tx)
  /\ Is("law") => LawTrial(In.stack, In.law, Tx)
  /\ Is("money") => MoneyTrial(In)
  /\ Is("fee") => FeeTrial(In[1], In[2], In[3], In[4], In[5], In[6])
  /\ Is("sigops") => BlockSigOpsTrial(In)
  /\ Is("codec") => CodecTrial(In.script)

-----------------------------------------------------------------------------
(* Proof of work *)

\* A difficulty above the threshold has become a longer chain
Reachable(nBits) == TargetGetFractionalDifficulty(nBits) <= nFractionalDifficultyThreshold
TryTarget == \E nBits \in TargetGetLimit..(TargetGetInitial + 2 * Unit), slow, fast \in 1..9 :
               Reachable(nBits) /\ Try("target", [nBits |-> nBits, slow |-> slow, fast |-> fast])
Spacings == {-6, 1, 4, 9, 40}
TryChain  == \E spacings \in UNION {[1..n -> Spacings] : n \in 1..5} :
               \E i \in DOMAIN spacings, faster \in Spacings : faster < spacings[i] /\ Try("chain", <<spacings, i, faster>>)
TrySieve  == \E h \in 4..60, n \in 1..4 : h % 2 = 0 /\ Try("sieve", [h |-> h, n |-> n])
TryFast   == \E origin \in 4..1500 : origin % 2 = 0 /\ Try("fast", origin)
TryMine   == \E hash \in 5..16, fixed \in {2, 6}, nBits \in {2 * Unit, 2 * Unit + 3, 3 * Unit} :
               hash * fixed <= 32 /\ Try("mine", [hash |-> hash, fixed |-> fixed, nBits |-> nBits])
TryTable  == \E p \in 1..150 : Try("table", p)

\* The target follows the spacing of the blocks, along a chain too; the sieve loses no chain and
\* keeps none it can refute; a block that is mined passes CheckPrimeProofOfWork.
WorkIsSound ==
  /\ Is("target") => TargetTrial(In.nBits, 5, 4, In.slow, In.fast)
  /\ Is("chain") => ChainTrial(In[1], In[2], In[3], 5, 4)
  /\ Is("sieve") => SieveTrial(In.h, In.n)
  /\ Is("fast") => FastTrial(In)
  /\ Is("mine") => MineTrial(In.hash, In.fixed, In.nBits)
  /\ Is("table") => TableTrial(In)

-----------------------------------------------------------------------------
(* Addresses *)

TryGroup == \E a \in {0, 8, 10, 127, 169, 172, 192, 224, 255}, b \in {0, 16, 31, 32, 168, 254, 255}, c, d \in {0, 1, 255} :
              Try("group", <<a, b, c, d>>)

Ipv4    == V4(8, 8, 8, 8)
Ipv6    == <<42, 0>> \o Zeros(13) \o <<1>>
Teredo  == <<32, 1, 0, 0>> \o Zeros(8) \o <<247, 247, 247, 247>>
Tor     == pchOnionCat \o Zeros(9) \o <<1>>
Private == V4(10, 0, 0, 1)
Addresses == {Ipv4, Ipv6, Teredo, Tor, Private}

TryText == \E ip \in Addresses \cup {ipNone}, port \in {0, 1, 9911, 65535} : Try("text", <<ip, port>>)

TryProxy == \E proxy, bind, connect, numeric \in BOOLEAN, socks \in {4, 5}, tor \in {"none", "0", "own"},
               listen, dns \in {"none", "yes", "no"}, onlynet \in {{}, {"ipv4"}, {"ipv6"}, {"tor"}}, ip \in Addresses :
              Try("proxy", <<[proxy |-> proxy, bind |-> bind, connect |-> connect, socks |-> socks, tor |-> tor,
                              listen |-> listen, dns |-> dns, onlynet |-> onlynet,
                              discover |-> "none", externalip |-> FALSE],
                             [numeric |-> numeric, ip |-> ip]>>)

LocalOps == {<<"add", <<a, 1>>, n>> : a \in Addresses, n \in {1, LOCAL_MANUAL}}
            \cup {<<"version", 1, <<a, 2>>>> : a \in Addresses} \cup {<<"announce", 2>>}
LocalConfs == {[fDiscover |-> d, fNoListen |-> l, limited |-> n] :
                 d \in BOOLEAN, l \in BOOLEAN, n \in {{}, {"ipv4", "tor"}}}
TryLocal == \E conf \in LocalConfs, ops \in UNION {[1..n -> LocalOps] : n \in 1..3} :
              Try("local", <<conf, ops>>)

\* Tunnels do not multiply an address's groups, texts of addresses are read
\* back, proxies are not bypassed, peers are told of this node the best address
\* that may be told, and a minority of peers cannot move its clock at will.
AddressesAreRight ==
  /\ Is("group") => GroupTrial(In[1], In[2], In[3], In[4])
  /\ Is("text") => TextTrial(In[1], In[2])
  /\ Is("proxy") => ProxyTrial(In[1], In[2])
  /\ Is("local") => LocalTrial(In[1], <<Ipv4, Ipv6, Teredo>>, In[2])
  /\ Is("time") => TimeTrial(In, 2)

-----------------------------------------------------------------------------
(* Rules for transactions and blocks *)

Txin(p)  == [prevout |-> <<"out", p>>, scriptSig |-> <<>>]
Coinbase == [prevout |-> NullPrevout, scriptSig |-> <<>>]
Output(v, s) == [nValue |-> v, scriptPubKey |-> s]
PlainTx(vin, vout, bytes) == [vin |-> vin, vout |-> vout, nBytes |-> 40, nCoinBaseBytes |-> bytes]
Inputs == {<<>>, <<Txin(1)>>, <<Txin(1), Txin(2)>>, <<Txin(1), Txin(1)>>, <<Coinbase>>, <<Coinbase, Txin(1)>>}
TryMoney == \E values \in UNION {[1..n -> {-5, 0, 1, 2, 9, 50, 51, 101, 127}] : n \in 0..3}, vin \in Inputs, bytes \in {1, 2, 101} :
              Try("money", PlainTx(vin, [i \in DOMAIN values |-> Output(values[i], <<>>)], bytes))
TryFee == \E nBytes \in {1, 9, 10, 11, 19, 20, 30, 60}, more \in {1, 10}, nBlockSize \in {0, 1, 2, 10, 20, 30, 40, 48, 60},
            fAllowFree \in BOOLEAN, mode \in {"GMF_BLOCK", "GMF_RELAY", "GMF_SEND"}, values \in {{1}, {5}} :
            Try("fee", <<nBytes, more, nBlockSize, fAllowFree, mode, values>>)
OneTx(s) == PlainTx(<<Txin(1)>>, <<Output(2, s)>>, 0)
TrySigOps == \E s1, s2 \in PlainScripts \cup {<<<<"OP_N", 2>>>> \o s : s \in PlainScripts} :
               Try("sigops", <<PlainTx(<<Coinbase>>, <<Output(2, s1)>>, 2), OneTx(s2), OneTx(s1)>>)

-----------------------------------------------------------------------------
(* Encodings, filters and containers *)

SizesTried == (0..300) \cup (16000..16600) \cup {65534, 65535, 65536, 2113662, 2113663, 2113664, MAX_SIZE - 1, MAX_SIZE, MAX_SIZE + 1}
TrySize   == \E n \in SizesTried : Try("size", n)
TryVarInt == \E bytes \in UNION {[1..n -> {0, 1, 127, 128, 129, 254, 255}] : n \in 1..3} : Try("varint", bytes)
Amounts   == (0..400) \cup {10 ^ e : e \in 0..9} \cup {10 ^ e - 1 : e \in 0..8} \cup {12 * 10 ^ e : e \in 0..7}
             \cup {123456789, 200000000, 2000000000}
TryAmount == \E n \in Amounts : Try("amount", n)
TryCompressed == \E x \in 0..180 : (x = 0 \/ (x - 1) % 10 < 9 \/ x <= 20) /\ Try("compressed", x)
TryMoneyText  == \E n \in Amounts \cup {1000 * k : k \in 0..40} : Try("moneytext", n)
TryBase == \E bytes \in UNION {[1..n -> {0, 1, 128, 255}] : n \in 0..5} : Try("base", bytes)
TryTextBase == \E k \in {5, 6}, text \in UNION {[1..n -> {0, 1, 16, PAD}] : n \in 0..5}, tail \in 0..4 :
                 Try("textbase", <<k, text \o [i \in 1..tail |-> PAD]>>)

BigNumbers == (0..3) \cup (126..130) \cup (254..258) \cup {32766, 32767, 32768, 32769, 65535, 65536, 8388607, 8388608, 8388609,
                              16777215, 16777216, 1073741823}
TryNumber == \E a, b \in BigNumbers, sa, sb \in {-1, 1} : a # b /\ Try("number", <<sa * a, sb * b>>)
AnyChecksum(bytes) == <<(FoldLeft(LAMBDA n, b : 3 * n + b, 7, bytes)) % 256>>
TryBase58 == \E n \in 0..2, bytes \in UNION {[1..k -> {0, 1, 57, 58, 127, 128, 255}] : k \in 0..2} :
               Try("base58", [i \in 1..n |-> 0] \o bytes)
TryText58 == \E text \in UNION {[1..k -> {0, 1, 2, 7, 32, 57, BLANK, BLANK + 1}] : k \in 0..4} : Try("text58", text)

TxidsOf(n) == [i \in 1..n |-> <<"tx", i>>]
TryTree == \E n \in 1..9 : \E vMatch \in [1..n -> BOOLEAN] : Try("tree", <<TxidsOf(n), vMatch>>)
Lists   == UNION {[1..n -> {<<"tx", 1>>, <<"tx", 2>>, <<"tx", 3>>}] : n \in 1..5}
TryHeader == \E vTxid \in Lists : Try("header", vTxid)

\* The peer watches a key and its hash, and for a script hash also the script;
\* pays(s) pays to a script of it twice, spends(s) spends that, other does not.
Sig0 == <<"sig", 0, HashOne, SIGHASH_ALL, TRUE>>
Sub  == PayToPubKey(Key(0))
Watched == <<PayToPubKey(Key(0)), PayToKeyID(Hash160(Key(0))), SetMultisig(1, <<Key(1), Key(0)>>), ToScript(Sub)>>
Elements == {Key(0), Hash160(Key(0)), Hash160(<<"script", Sub>>), <<"script", Sub>>}
ScriptSigFor(s) == CASE s = PayToPubKey(Key(0)) -> <<Push(Sig0)>>
                     [] s = PayToKeyID(Hash160(Key(0))) -> <<Push(Sig0), Push(Key(0))>>
                     [] s = SetMultisig(1, <<Key(1), Key(0)>>) -> <<Push(Num(0)), Push(Sig0)>>
                     [] s = ToScript(Sub) -> <<Push(Sig0), Push(<<"script", Sub>>)>>
Foreign == PayToKeyID(Hash160(Key(2)))
Spend(hash, n, scriptSig) == [prevout |-> OutPoint(hash, n), scriptSig |-> scriptSig]
Pays(s)   == [hash |-> <<"tx", 1>>, vin |-> <<Spend(<<"tx", 9>>, 1, <<Push(Key(2))>>)>>, vout |-> <<Foreign, s, s>>]
Spends(s) == [hash |-> <<"tx", 2>>, vin |-> <<Spend(<<"tx", 1>>, 3, ScriptSigFor(s))>>, vout |-> <<Foreign>>]
Other     == [hash |-> <<"tx", 3>>, vin |-> <<Spend(<<"tx", 9>>, 2, <<Push(Key(2))>>)>>, vout |-> <<Foreign>>]
Universe == <<Key(0), Key(1), Key(2), Hash160(Key(0)), Hash160(Key(1)), Hash160(Key(2)), Sig0,
              <<"script", Sub>>, Hash160(<<"script", Sub>>), <<"tx", 1>>, <<"tx", 2>>, <<"tx", 3>>>>
            \o [i \in 1..3 |-> OutPoint(<<"tx", 1>>, i)] \o [i \in 1..2 |-> OutPoint(<<"tx", 9>>, i)]
            \o <<OutPoint(<<"tx", 2>>, 1), OutPoint(<<"tx", 3>>, 1)>>
IndexOf(v) == CHOOSE i \in DOMAIN Universe : Universe[i] = v
AnyHash(seed, v) == ((IndexOf(v) - 1) * 2 + seed[1] - 1) * (seed[2] + 1)
Loaded(nBits, nHashFuncs, nTweak, nFlags) ==
  FoldSet(LAMBDA v, f : FilterInsert(f, v), EmptyFilter(nBits, nHashFuncs, nTweak, nFlags), Elements)
FilterOps(s, f) == <<<<"load", f>>, <<"clear">>, <<"add", <<"tx", 3>>>>, <<"relay", Pays(s)>>, <<"relay", Other>>,
                     <<"mempool", Spends(s)>>, <<"inv", Pays(s)>>,
                     <<"block", <<Other, Pays(s), Spends(s)>>>>, <<"block", <<Spends(s)>>>>>>
\* <<bits, hash functions, tweak>>: the last has no collisions
Sizes == {<<8, 2, 0>>, <<16, 1, 4>>, <<64, 2, 0>>}
TryFilter == \E s \in DOMAIN Watched, size \in Sizes, nFlags \in 0..2, fRelayTxes \in BOOLEAN, ops \in [1..3 -> 1..9] :
               Try("filter", <<s, size, nFlags, fRelayTxes, ops>>)
TriedFilter(s, size, nFlags, fRelayTxes, ops) ==
  LET f == Loaded(size[1], size[2], size[3], nFlags)
      all == FilterOps(Watched[s], f)
  IN FilterTrial([i \in DOMAIN ops |-> all[ops[i]]], Elements, f, size[1] = 64, fRelayTxes)

MruOps == {<<"insert", x>> : x \in 1..4} \cup {<<"resize", 2>>}
TryMru == \E max \in {0, 1, 3}, ops \in UNION {[1..n -> MruOps] : n \in 0..5} : Try("mru", <<max, ops>>)
LimitedOps == {<<"insert", k, v>> : k \in 1..3, v \in 1..2} \cup {<<"update", k, 3>> : k \in 1..2}
              \cup {<<"erase", 1>>, <<"erase", 2>>}
TryLimited == \E max \in {0, 3}, ops \in UNION {[1..n -> LimitedOps] : n \in 1..4} : Try("limited", <<max, ops>>)
Ranges  == {<<p, n>> : p \in {0, 3, 4}, n \in {0, 1, 4, 6}}
TryPage == \E ranges \in UNION {[1..n -> Ranges] : n \in 1..3}, freed \in {<<>>, <<1>>, <<2, 1>>, <<1, 3>>, <<3, 2, 1>>} :
             Max(ToSet(freed) \cup {0}) <= Len(ranges) /\ Try("page", <<ranges, freed>>)
TryTime == \E offsets \in UNION {[1..n -> {-9, 0, 1, 9}] : n \in 1..6}, again \in BOOLEAN :
             Try("time", [i \in DOMAIN offsets |-> <<IF again /\ i = 3 THEN 1 ELSE i, offsets[i]>>])
FileOps == {<<"block", n, how>> : n \in {2, 5}, how \in {"done", "full", "killed"}} \cup {<<"restart">>}
           \cup {<<"undo", 2, how, n>> : how \in {"done", "full"}, n \in 0..1}
TryFile == \E ops \in UNION {[1..n -> FileOps] : n \in 1..4} : Try("file", ops)

\* What is written is read, and of what is kept nothing is lost: encodings and
\* texts of sizes, amounts and bytes, partial Merkle trees, filters, containers,
\* locked pages and the bytes of block files.
KeptIsFound ==
  /\ Is("size") => SizeTrial(In)
  /\ Is("varint") => VarIntTrial(In)
  /\ Is("amount") => AmountTrial(In)
  /\ Is("compressed") => CompressedTrial(In)
  /\ Is("moneytext") => MoneyTextTrial(In)
  /\ Is("base") => BaseTrial(In)
  /\ Is("textbase") => TextBaseTrial(In[1], In[2])
  /\ Is("number") => NumberTrial(In[1], In[2])
  /\ Is("base58") => Base58Trial(In)
  /\ Is("text58") => TextBase58Trial(In)
  /\ Is("tree") => TreeTrial(In[1], In[2])
  /\ Is("header") => HeaderTrial(In, Lists)
  /\ Is("filter") => TriedFilter(In[1], In[2], In[3], In[4], In[5])
  /\ Is("mru") => MruTrial(In[1], In[2])
  /\ Is("limited") => LimitedTrial(In[1], In[2])
  /\ Is("page") => PageTrial(In[1], In[2])
  /\ Is("file") => FileTrial(In)

-----------------------------------------------------------------------------
Subjects == {"signing", "scripts", "work", "addresses", "rules", "encodings", "filters", "stores"}

Init == \E subject \in Subjects : trial = <<"about", subject>>
About(subject) == trial = <<"about", subject>>

Next == \/ About("signing") /\ (TrySign \/ TryCombine \/ TryMultisig \/ TryCache)
        \/ About("scripts") /\ (TryCharge \/ TryLaw \/ TryCodec)
        \/ About("work") /\ (TryTarget \/ TryChain \/ TrySieve \/ TryFast \/ TryMine \/ TryTable)
        \/ About("addresses") /\ (TryGroup \/ TryText \/ TryProxy \/ TryLocal \/ TryTime)
        \/ About("rules") /\ (TryMoney \/ TryFee \/ TrySigOps)
        \/ About("encodings") /\ (TrySize \/ TryVarInt \/ TryAmount \/ TryCompressed \/ TryMoneyText)
        \/ About("encodings") /\ (TryBase \/ TryTextBase \/ TryNumber \/ TryBase58 \/ TryText58)
        \/ About("filters") /\ (TryTree \/ TryHeader \/ TryFilter)
        \/ About("stores") /\ (TryMru \/ TryLimited \/ TryPage \/ TryFile)
        \/ ~Is("about") /\ trial' = <<"about", "rules">>
Spec == Init /\ [][Next]_trial
=============================================================================
