------------------------------- MODULE Filter -------------------------------
(***************************************************************************)
(* What a node sends to a peer that keeps no blocks: the Bloom filter of   *)
(* bloom.cpp, the partial Merkle tree of main.cpp and the messages that    *)
(* use them.                                                               *)
(*                                                                         *)
(* Hashes are ideal: a txid is <<"tx", n>>, a node of a Merkle tree is     *)
(* <<"node", left, right>>, and 0 is <<"zero">>.  A transaction is         *)
(* [hash, vin |-> <<[prevout, scriptSig], ..>>, vout |-> <<script, ..>>];  *)
(* an outpoint is <<"out", txid, n>>.  Positions count from 1, but in a    *)
(* Merkle tree, where as in the code they count from 0.                    *)
(***************************************************************************)
EXTENDS Standard, FiniteSets, FiniteSetsExt

CONSTANT MurmurHash3(_, _)      \* the hash of a data element under a seed

Hash2(l, r) == <<"node", l, r>>
Zero == <<"zero">>
Double(n) == 2 * n

-----------------------------------------------------------------------------
(* Merkle trees *)

\* The levels of BuildMerkleTree, from the txids up to the root
RECURSIVE BuildMerkleTree(_)
BuildMerkleTree(level) ==
  LET n == Len(level)
      Pair(i) == Hash2(level[2 * i - 1], level[IF 2 * i <= n THEN 2 * i ELSE n])
  IN IF n <= 1 THEN <<level>> ELSE <<level>> \o BuildMerkleTree([i \in 1..((n + 1) \div 2) |-> Pair(i)])
MerkleRoot(vTxid) == IF vTxid = <<>> THEN Zero ELSE Last(BuildMerkleTree(vTxid))[1]

GetMerkleBranch(vTxid, nIndex) ==
  LET levels   == BuildMerkleTree(vTxid)
      at(k)    == nIndex \div (2 ^ (k - 1))
      other(k) == IF at(k) % 2 = 0 THEN at(k) + 1 ELSE at(k) - 1
      side(k)  == IF other(k) < Len(levels[k]) THEN other(k) ELSE Len(levels[k]) - 1
  IN [k \in 1..(Len(levels) - 1) |-> levels[k][side(k) + 1]]

CheckMerkleBranch(hash, vMerkleBranch, nIndex) ==
  LET step(acc, otherside) ==
        [hash  |-> IF acc.index % 2 = 1 THEN Hash2(otherside, acc.hash) ELSE Hash2(acc.hash, otherside),
         index |-> acc.index \div 2]
  IN IF nIndex = -1 THEN Zero ELSE FoldLeft(step, [hash |-> hash, index |-> nIndex], vMerkleBranch).hash

\* The end of CheckBlock: no transaction twice, and the root of the header
CheckBlockHashes(vTxid, hashMerkleRoot) ==
  /\ Cardinality(ToSet(vTxid)) = Len(vTxid)
  /\ MerkleRoot(vTxid) = hashMerkleRoot

-----------------------------------------------------------------------------
(* CPartialMerkleTree: [nTransactions, vBits, vHash] *)

CalcTreeWidth(nTransactions, height) == (nTransactions + 2 ^ height - 1) \div (2 ^ height)
CalcTreeHeight(nTransactions) == CHOOSE h \in 0..nTransactions : /\ CalcTreeWidth(nTransactions, h) <= 1
                                                                /\ \A k \in 0..(h - 1) : CalcTreeWidth(nTransactions, k) > 1

RECURSIVE CalcHash(_, _, _)
CalcHash(height, pos, vTxid) ==
  LET left  == CalcHash(height - 1, Double(pos), vTxid)
      right == CalcHash(height - 1, Double(pos) + 1, vTxid)
  IN IF height = 0 THEN vTxid[pos + 1]
     ELSE Hash2(left, IF Double(pos) + 1 < CalcTreeWidth(Len(vTxid), height - 1) THEN right ELSE left)

RECURSIVE TraverseAndBuild(_, _, _, _)
TraverseAndBuild(height, pos, vTxid, vMatch) ==
  LET fParentOfMatch == \E p \in (pos * 2 ^ height)..((pos + 1) * 2 ^ height - 1) : p < Len(vTxid) /\ vMatch[p + 1]
      left  == TraverseAndBuild(height - 1, Double(pos), vTxid, vMatch)
      right == IF Double(pos) + 1 < CalcTreeWidth(Len(vTxid), height - 1)
               THEN TraverseAndBuild(height - 1, Double(pos) + 1, vTxid, vMatch) ELSE [bits |-> <<>>, hashes |-> <<>>]
  IN IF height = 0 \/ ~fParentOfMatch
     THEN [bits |-> <<fParentOfMatch>>, hashes |-> <<CalcHash(height, pos, vTxid)>>]
     ELSE [bits |-> <<TRUE>> \o left.bits \o right.bits, hashes |-> left.hashes \o right.hashes]
PartialMerkleTree(vTxid, vMatch) ==
  LET t == TraverseAndBuild(CalcTreeHeight(Len(vTxid)), 0, vTxid, vMatch)
  IN [nTransactions |-> Len(vTxid), vBits |-> t.bits, vHash |-> t.hashes]

Bytes(bits) == (bits + 7) \div 8
\* Writing and reading: the bits come back padded to whole bytes
Transported(tree) ==
  [tree EXCEPT !.vBits = @ \o [i \in 1..(8 * Bytes(Len(@)) - Len(@)) |-> FALSE]]

\* r is [hash, bits, hashes, matches, bad]: how many bits and hashes are used
RECURSIVE TraverseAndExtract(_, _, _, _)
TraverseAndExtract(tree, height, pos, r) ==
  LET fParentOfMatch == tree.vBits[r.bits + 1]
      r1    == [r EXCEPT !.bits = @ + 1]
      hash  == tree.vHash[r.hashes + 1]
      left  == TraverseAndExtract(tree, height - 1, Double(pos), r1)
      both  == Double(pos) + 1 < CalcTreeWidth(tree.nTransactions, height - 1)
      right == IF both THEN TraverseAndExtract(tree, height - 1, Double(pos) + 1, left) ELSE left
  IN IF r.bits >= Len(tree.vBits) THEN [r EXCEPT !.bad = TRUE, !.hash = Zero]
     ELSE IF height > 0 /\ fParentOfMatch THEN [right EXCEPT !.hash = Hash2(left.hash, right.hash)]
     ELSE IF r.hashes >= Len(tree.vHash) THEN [r1 EXCEPT !.bad = TRUE, !.hash = Zero]
     ELSE [r1 EXCEPT !.hashes = @ + 1, !.hash = hash,
                     !.matches = IF fParentOfMatch THEN Append(@, hash) ELSE @]

MAX_TRANSACTIONS == 1000000 \div 60
ExtractMatches(tree) ==
  LET start == [hash |-> Zero, bits |-> 0, hashes |-> 0, matches |-> <<>>, bad |-> FALSE]
      r     == TraverseAndExtract(tree, CalcTreeHeight(tree.nTransactions), 0, start)
  IN IF tree.nTransactions \notin 1..MAX_TRANSACTIONS \/ Len(tree.vHash) > tree.nTransactions
        \/ Len(tree.vBits) < Len(tree.vHash)
     THEN [root |-> Zero, matches |-> <<>>]
     ELSE [root |-> IF r.bad \/ Bytes(r.bits) # Bytes(Len(tree.vBits)) \/ r.hashes # Len(tree.vHash)
                    THEN Zero ELSE r.hash,
           matches |-> r.matches]

-----------------------------------------------------------------------------
(* CBloomFilter: [nBits, bits, nHashFuncs, nTweak, nFlags, isFull, isEmpty]. *)
(* bits holds the positions that are set.                                   *)

BLOOM_UPDATE_ALL  == 1
BLOOM_UPDATE_P2PUBKEY_ONLY == 2
BLOOM_UPDATE_MASK == 3

\* CBloomFilter(): what is not set here is never read
FullFilter == [isFull |-> TRUE]
EmptyFilter(nBits, nHashFuncs, nTweak, nFlags) ==
  [nBits |-> nBits, bits |-> {}, nHashFuncs |-> nHashFuncs, nTweak |-> nTweak, nFlags |-> nFlags,
   isFull |-> FALSE, isEmpty |-> FALSE]

Positions(f, v) == {MurmurHash3(<<i, f.nTweak>>, v) % f.nBits : i \in 1..f.nHashFuncs}
FilterInsert(f, v) ==
  IF f.isFull THEN f ELSE [f EXCEPT !.bits = @ \cup Positions(f, v), !.isEmpty = FALSE]
FilterContains(f, v) == f.isFull \/ (~f.isEmpty /\ Positions(f, v) \subseteq f.bits)
UpdateEmptyFull(f) ==
  [f EXCEPT !.isFull = f.bits = 0..(f.nBits - 1), !.isEmpty = f.bits = {}]

OutPoint(hash, n) == <<"out", hash, n>>
DataOf(script) == {o[2] : o \in {p \in ToSet(script) : p[1] = "push"}} \ {Num(0)}
ContainsAny(f, script) == \E v \in DataOf(script) : FilterContains(f, v)
AddsOutPoint(f, script) ==
  \/ f.nFlags % (BLOOM_UPDATE_MASK + 1) = BLOOM_UPDATE_ALL
  \/ /\ f.nFlags % (BLOOM_UPDATE_MASK + 1) = BLOOM_UPDATE_P2PUBKEY_ONLY
     /\ \E s \in {Solver(script)} : s.ok /\ s.type \in {"TX_PUBKEY", "TX_MULTISIG"}

MatchOutputs_First(f, tx) ==      \* a bug: stops at the first output that matches
  LET hit == {i \in DOMAIN tx.vout : ContainsAny(f, tx.vout[i])}
  IN [found  |-> hit # {},
      filter |-> IF hit # {} /\ AddsOutPoint(f, tx.vout[Min(hit)]) THEN FilterInsert(f, OutPoint(tx.hash, Min(hit))) ELSE f]
MatchOutputs(f, tx) ==
  LET step(r, i) ==
        IF ~ContainsAny(r.filter, tx.vout[i]) THEN r
        ELSE [found  |-> TRUE,
              filter |-> IF AddsOutPoint(r.filter, tx.vout[i])
                         THEN FilterInsert(r.filter, OutPoint(tx.hash, i)) ELSE r.filter]
  IN FoldLeft(step, [found |-> FALSE, filter |-> f], [i \in DOMAIN tx.vout |-> i])

MatchesInput(f, txin) == FilterContains(f, txin.prevout) \/ ContainsAny(f, txin.scriptSig)
IsRelevantAndUpdate(f, tx) ==
  LET WithInputs(r) == [r EXCEPT !.found = \/ @ \/ FilterContains(f, tx.hash)
                                           \/ \E i \in DOMAIN tx.vin : MatchesInput(r.filter, tx.vin[i])]
  IN IF f.isFull \/ f.isEmpty THEN [found |-> f.isFull, filter |-> f] ELSE WithInputs(MatchOutputs(f, tx))

-----------------------------------------------------------------------------
(* A peer: [pfilter, fRelayTxes, setInventoryKnown] and, at its end, got:    *)
(* the transactions it has whole.  What is announced to it, it asks for and *)
(* is given out of the relay memory.                                        *)

\* The "version" message says whether transactions may be announced at once
NewPeer(fRelayTxes) ==
  [pfilter |-> FullFilter, fRelayTxes |-> fRelayTxes, setInventoryKnown |-> {}, got |-> {}]

\* CMerkleBlock: which transactions of the block the filter matches
MatchBlock(f, block) ==
  LET add(r, m) == [filter |-> m.filter, match |-> Append(r.match, m.found)]
      step(r, tx) == add(r, IsRelevantAndUpdate(r.filter, tx))
  IN FoldLeft(step, [filter |-> f, match |-> <<>>], block)

Txids(block) == [i \in DOMAIN block |-> block[i].hash]
MerkleBlock(p, block) == PartialMerkleTree(Txids(block), MatchBlock(p.pfilter, block).match)

\* ProcessGetData for a filtered block: the tree, and each transaction that
\* matches and the peer is not known to have
SendFiltered(p, block) ==
  LET matched(m) == {block[i].hash : i \in {j \in DOMAIN block : m.match[j]}}
      send(m) == [p EXCEPT !.pfilter = m.filter, !.got = @ \cup (matched(m) \ p.setInventoryKnown)]
  IN send(MatchBlock(p.pfilter, block))

\* RelayTransaction, and the "mempool" message for one transaction of the pool:
\* what was announced is not announced again
PushInventory(p, tx) == [p EXCEPT !.setInventoryKnown = @ \cup {tx.hash},
                                  !.got = IF tx.hash \in p.setInventoryKnown THEN @ ELSE @ \cup {tx.hash}]
RelayTransaction(p, tx) ==
  LET relay(q, found) == IF found THEN PushInventory(q, tx) ELSE q
      matched(m) == relay([p EXCEPT !.pfilter = m.filter], m.found)
  IN IF p.fRelayTxes THEN matched(IsRelevantAndUpdate(p.pfilter, tx)) ELSE p
\* The answer to "mempool" bypasses what the peer is known to have
SendPool(p, tx) ==
  LET send(m) == [p EXCEPT !.pfilter = m.filter, !.got = IF m.found THEN @ \cup {tx.hash} ELSE @]
  IN send(IsRelevantAndUpdate(p.pfilter, tx))

\* "inv" of a transaction the peer has itself
AddInventoryKnown(p, tx) == [p EXCEPT !.setInventoryKnown = @ \cup {tx.hash}, !.got = @ \cup {tx.hash}]

\* "filterload", "filteradd" and "filterclear", of what keeps to the size limits:
\* anything larger leaves the filter alone and counts as misbehaviour
FilterLoad(p, f)  == [p EXCEPT !.pfilter = UpdateEmptyFull(f), !.fRelayTxes = TRUE]
FilterAdd(p, v)   == [p EXCEPT !.pfilter = FilterInsert(@, v)]
FilterClear(p)    == [p EXCEPT !.pfilter = FullFilter, !.fRelayTxes = TRUE]

PeerStep(p, op) ==
  CASE op[1] = "load"    -> FilterLoad(p, op[2])
    [] op[1] = "add"     -> FilterAdd(p, op[2])
    [] op[1] = "clear"   -> FilterClear(p)
    [] op[1] = "relay"   -> RelayTransaction(p, op[2])
    [] op[1] = "mempool" -> SendPool(p, op[2])
    [] op[1] = "inv"     -> AddInventoryKnown(p, op[2])
    [] op[1] = "block"   -> SendFiltered(p, op[2])
=============================================================================
