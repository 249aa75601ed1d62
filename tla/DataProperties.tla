--------------------------- MODULE DataProperties ---------------------------
(***************************************************************************)
(* What the rules, the encodings, the filters and the containers promise,  *)
(* each stated for one trial: see Algorithms for the inputs.               *)
(***************************************************************************)
EXTENDS Filter, Codec, Stores, Rules

-----------------------------------------------------------------------------
(* Rules *)

Sum(values) == FoldLeft(LAMBDA n, v : n + v, 0, values)

\* A transaction passes CheckTransaction only if what it pays, added up without
\* wrapping, is an amount of money, each output worth spending, no input twice
\* and none null but in a coinbase.
MoneyTrial(tx) ==
  LET values == [i \in DOMAIN tx.vout |-> tx.vout[i].nValue]
      prevouts == {tx.vin[i].prevout : i \in DOMAIN tx.vin}
  IN CheckTransaction(tx) =>
       /\ Sum(values) \in MIN_TXOUT_AMOUNT..MAX_MONEY
       /\ \A i \in DOMAIN values : values[i] >= MIN_TXOUT_AMOUNT
       /\ Cardinality(prevouts) = Len(tx.vin)
       /\ NullPrevout \in prevouts => IsCoinBase(tx)

\* A larger transaction never needs a smaller fee, nor does one in a fuller
\* block, and one that no longer fits needs more than there is; the size 1
\* stands for a block that is not being filled.
FeeTrial(nBytes, more, nBlockSize, fAllowFree, mode, values) ==
  LET fee(n, size) == GetMinFee(n, values, size, fAllowFree, mode)
  IN /\ MoneyRange(fee(nBytes, nBlockSize))
     /\ fee(nBytes, nBlockSize) <= fee(nBytes + more, nBlockSize)
     /\ nBlockSize > 1 => fee(nBytes, nBlockSize) <= fee(nBytes, nBlockSize + more)
     /\ fee(nBytes, 1) <= fee(nBytes, nBlockSize)
     /\ nBlockSize # 1 /\ nBlockSize + nBytes >= MAX_BLOCK_SIZE_GEN => fee(nBytes, nBlockSize) = MAX_MONEY
     /\ ~fAllowFree => fee(nBytes, nBlockSize) > 0

\* CheckBlock's legacy count charges every script at least what it is charged
\* when it is redeemed, so the order of the transactions does not decide.
BlockSigOpsTrial(vtx) ==
  LET scripts == FlattenSeq([i \in DOMAIN vtx |-> [j \in DOMAIN vtx[i].vout |-> vtx[i].vout[j].scriptPubKey]])
      exact   == FoldLeft(LAMBDA n, s : n + GetSigOpCount(s, TRUE), 0, scripts)
  IN CheckBlockTransactions(vtx) => exact <= MAX_BLOCK_SIGOPS /\ CheckBlockTransactions(<<vtx[1]>> \o Reverse(Tail(vtx)))

-----------------------------------------------------------------------------
(* Encodings *)

\* Every size and number has one encoding, of the length that was announced for it
SizeTrial(n) ==
  /\ ReadCompactSize(WriteCompactSize(n)) = [ok |-> n <= MAX_SIZE, n |-> n]
  /\ Len(WriteCompactSize(n)) = GetSizeOfCompactSize(n)
  /\ ReadVarInt(WriteVarInt(n)) = n
  /\ Len(WriteVarInt(n)) = GetSizeOfVarInt(n)

\* and every terminated sequence of bytes is the encoding of a number
VarIntTrial(bytes) ==
  (Last(bytes) < 128 /\ \A i \in 1..(Len(bytes) - 1) : bytes[i] >= 128) => WriteVarInt(ReadVarInt(bytes)) = bytes

\* Every amount has one compressed form and every compressed form one amount;
\* what FormatMoney writes of an amount ParseMoney reads, of a debt it refuses.
AmountTrial(n) == DecompressAmount(CompressAmount(n)) = n
CompressedTrial(x) == CompressAmount(DecompressAmount(x)) = x
MoneyTextTrial(n) ==
  /\ ParseMoney(FormatMoney(n, FALSE)) = [ok |-> TRUE, n |-> n]
  /\ ParseMoney(<<SPACE>> \o FormatMoney(n, FALSE) \o <<SPACE>>) = [ok |-> TRUE, n |-> n]
  /\ n > 0 => ~ParseMoney(FormatMoney(-n, FALSE)).ok

\* Decoding undoes encoding, and a text that is accepted is the one encoding
\* of what it decodes to, up to what follows its padding.
BaseTrial(bytes) ==
  /\ DecodeBase64(EncodeBase64(bytes)) = [bytes |-> bytes, ok |-> TRUE]
  /\ DecodeBase32(EncodeBase32(bytes)) = [bytes |-> bytes, ok |-> TRUE]
TextBaseTrial(k, text) ==
  LET d == Decode(k, text)
  IN d.ok => IsPrefix(Encode(k, d.bytes), text)

\* A number's bytes are its own and the fewest; setint64 makes the same number,
\* getint gives it back or the nearest there is; and a compact number is it,
\* cut to the 15 bits or more that are kept, and keeps the order.
NumberTrial(n, more) ==
  LET bytes == getvch(n)
      cut(x) == SetCompact(GetCompact(x))
  IN /\ setvch(bytes) = n
     /\ \A k \in 0..(Len(bytes) - 1) : setvch(SubSeq(bytes, 1, k)) # n
     /\ n \in (-IntMax - 1)..IntMax => setint64(n) = Reverse(bytes) /\ getint(n) = n
     /\ getint(n) \in (-IntMax - 1)..IntMax /\ (n <= more => getint(n) <= getint(more))
     /\ AbsOf(cut(n)) <= AbsOf(n) /\ AbsOf(n) - AbsOf(cut(n)) <= AbsOf(n) \div (2 ^ 15)
     /\ GetCompact(cut(n)) = GetCompact(n)
     /\ n <= more => cut(n) <= cut(more)

\* Base 58 loses nothing, leading zeros included; a text with a check that is
\* accepted is, without its spaces, the one text of what it decodes to.
Base58Trial(bytes) ==
  /\ DecodeBase58(EncodeBase58(bytes)) = [ok |-> TRUE, bytes |-> bytes]
  /\ DecodeBase58Check(EncodeBase58Check(bytes)) = [ok |-> TRUE, bytes |-> bytes]
TextBase58Trial(text) ==
  LET digits == SelectSeq(text, LAMBDA c : c # BLANK)
      Holds(d) == d.ok => EncodeBase58Check(d.bytes) = digits
  IN Holds(DecodeBase58Check(text))

-----------------------------------------------------------------------------
(* Merkle trees *)

Selected(vTxid, vMatch) == SelectSeq([i \in DOMAIN vTxid |-> <<vTxid[i], vMatch[i]>>], LAMBDA e : e[2])
Damaged(tree, i) == [tree EXCEPT !.vHash[i] = <<"damaged", @>>]

\* Written, sent and read, a partial tree proves exactly the matched
\* transactions, in their order, under the root of the block; with any hash
\* changed it proves nothing; it is no larger than main.h promises.
TreeTrial(vTxid, vMatch) ==
  LET tree    == PartialMerkleTree(vTxid, vMatch)
      read    == Transported(tree)
      matched == Selected(vTxid, vMatch)
      height  == CalcTreeHeight(Len(vTxid))
  IN /\ ExtractMatches(read) = [root |-> MerkleRoot(vTxid), matches |-> [i \in DOMAIN matched |-> matched[i][1]]]
     /\ \A i \in DOMAIN tree.vHash : ExtractMatches(Damaged(read, i)).root # MerkleRoot(vTxid)
     /\ Len(tree.vHash) <= Len(vTxid) /\ Len(tree.vHash) <= 1 + Len(matched) * height
     /\ 6 + 32 * Len(tree.vHash) + Bytes(Len(tree.vBits)) <= 10 + (129 * Len(tree.vHash) + 3) \div 4
     /\ \A i \in DOMAIN vTxid : CheckMerkleBranch(vTxid[i], GetMerkleBranch(vTxid, i - 1), i - 1) = MerkleRoot(vTxid)

\* A header admits one list of transactions, though another list has its root
HeaderTrial(vTxid, others) ==
  \A other \in others :
    CheckBlockHashes(vTxid, MerkleRoot(other)) /\ CheckBlockHashes(other, MerkleRoot(other)) => other = vTxid

-----------------------------------------------------------------------------
(* Filters *)

\* What the peer is after: whole is TRUE while it has no filter, watched are
\* the data elements and outpoints it has asked for.
Watches(x, tx) ==
  \/ x.whole
  \/ tx.hash \in x.watched
  \/ \E i \in DOMAIN tx.vout : DataOf(tx.vout[i]) \cap x.watched # {}
  \/ \E i \in DOMAIN tx.vin : tx.vin[i].prevout \in x.watched \/ DataOf(tx.vin[i].scriptSig) \cap x.watched # {}
Outputs(x, tx, nFlags) ==
  {OutPoint(tx.hash, i) : i \in {j \in DOMAIN tx.vout :
     /\ DataOf(tx.vout[j]) \cap x.watched # {}
     /\ \/ nFlags = BLOOM_UPDATE_ALL
        \/ nFlags = BLOOM_UPDATE_P2PUBKEY_ONLY /\ Solver(tx.vout[j]).type \in {"TX_PUBKEY", "TX_MULTISIG"}}}
Seen(x, tx, nFlags) == [x EXCEPT !.watched = IF x.whole THEN @ ELSE @ \cup Outputs(x, tx, nFlags)]

\* r: the peer p as the node sees it, x what it is after, ok while it got it.
\* elements: of the filter it loads.  exact: the filter is free of collisions.
FilterStep(r, op, elements, filter, exact) ==
  LET q    == PeerStep(r.p, op)
      flags == filter.nFlags
      one  == op[2]
      next == CASE op[1] = "load"  -> [whole |-> FALSE, watched |-> elements]
                [] op[1] = "clear" -> [whole |-> TRUE, watched |-> {}]
                [] op[1] = "add"   -> [r.x EXCEPT !.watched = IF r.x.whole THEN @ ELSE @ \cup {one}]
                [] op[1] = "block" -> FoldLeft(LAMBDA y, tx : Seen(y, tx, flags), r.x, one)
                [] op[1] = "mempool" \/ (op[1] = "relay" /\ r.p.fRelayTxes) -> Seen(r.x, one, flags)
                [] OTHER -> r.x
      \* what the peer is after by the time each transaction of a block is matched
      before(i) == FoldLeft(LAMBDA y, tx : Seen(y, tx, flags), r.x, SubSeq(one, 1, i))
      proof == ExtractMatches(Transported(MerkleBlock(r.p, one)))
      good == CASE op[1] = "block" ->
                     /\ proof.root = MerkleRoot(Txids(one))
                     /\ \A i \in DOMAIN one :
                          /\ Watches(before(i), one[i]) => one[i].hash \in ToSet(proof.matches)
                          /\ exact => (one[i].hash \in ToSet(proof.matches) => Watches(before(i), one[i]))
                     /\ ToSet(proof.matches) \subseteq q.got
                [] op[1] = "mempool" \/ (op[1] = "relay" /\ r.p.fRelayTxes) ->
                     Watches(next, one) => one.hash \in q.got
                [] OTHER -> TRUE
  IN [p |-> q, x |-> next, ok |-> r.ok /\ good]

\* Whatever the order of filters, announcements and blocks: a peer is given
\* every transaction that touches what it watches, whole and with a proof, also
\* those that spend what earlier ones paid to it; and no other, unless data
\* elements collide in the filter.
FilterTrial(ops, elements, filter, exact, fRelayTxes) ==
  FoldLeft(LAMBDA r, op : FilterStep(r, op, elements, filter, exact),
           [p |-> NewPeer(fRelayTxes), x |-> [whole |-> TRUE, watched |-> {}], ok |-> TRUE], ops).ok

-----------------------------------------------------------------------------
(* Containers *)

\* An mruset holds no more than its size, and of the values inserted the last
MruStep(m, op) == IF op[1] = "insert" THEN MruInsert(m, op[2]) ELSE MruResize(m, op[2])
MruTrial(max, ops) ==
  LET m == FoldLeft(MruStep, NewMru(max), ops)
      Recent(k) == {ops[i][2] : i \in {j \in DOMAIN ops : ops[j][1] = "insert" /\ j > Len(ops) - k}}
  IN /\ m.set = ToSet(m.queue) /\ Cardinality(m.set) = Len(m.queue)
     /\ m.max # 0 => Len(m.queue) <= m.max
     /\ ops # <<>> /\ Last(ops)[1] = "insert" => Last(ops)[2] \in m.set
     /\ (\A j \in DOMAIN ops : ops[j][1] = "insert") /\ max > 0 /\ Cardinality(Recent(Len(ops))) <= max
          => m.set = Recent(Len(ops))

\* A limitedmap's two maps agree; making room takes the least value there was
LimitedStep(m, op) ==
  CASE op[1] = "insert" -> LimitedInsert(m, op[2], op[3])
    [] op[1] = "update" -> LimitedUpdate(m, op[2], op[3])
    [] op[1] = "erase"  -> LimitedErase(m, op[2])
LimitedHolds(before, m, last) ==
  LET gone == DOMAIN before.map \ DOMAIN m.map
  IN /\ ToSet(m.rmap) = {<<m.map[k], k>> : k \in DOMAIN m.map}
     /\ Len(m.rmap) = Cardinality(DOMAIN m.map)
     /\ \A i \in 1..(Len(m.rmap) - 1) : m.rmap[i][1] <= m.rmap[i + 1][1]
     /\ m.max # 0 => Len(m.rmap) <= m.max
     /\ last[1] # "erase" => \A k \in gone, l \in DOMAIN before.map \ gone : before.map[k] <= before.map[l]
     /\ last[1] = "insert" => last[2] \in DOMAIN m.map
LimitedTrial(max, ops) ==
  LET Then(before) == LimitedHolds(before, LimitedStep(before, Last(ops)), Last(ops))
  IN Then(FoldLeft(LimitedStep, NewLimited(max), Front(ops)))

\* A page is locked exactly as long as a range of memory in use touches it
PageTrial(ranges, freed) ==
  LET held == FoldLeft(LAMBDA m, r : LockRange(m, r[1], r[2]), [histogram |-> [p \in {} |-> 0], locked |-> {}], ranges)
      end  == FoldLeft(LAMBDA m, i : UnlockRange(m, ranges[i][1], ranges[i][2]), held, freed)
      live == DOMAIN ranges \ ToSet(freed)
      Touched == {b \in 0..40 : \E i \in live : b \in ranges[i][1]..(ranges[i][1] + ranges[i][2] - 1)}
  IN /\ end.locked = {PageOf(b) : b \in Touched}
     /\ DOMAIN end.histogram = end.locked

\* No peer moves the clock by OffsetLimit; peers that, with this node's own
\* clock, are most of those heard, bound the clock by their own.  (Once the
\* window is full its size is even for good and the clock is left alone.)
TimeTrial(samples, honest) ==
  LET step(t, i) == AddTimeData(t, samples[i][1], samples[i][2])
      t     == FoldLeft(step, NewTime, [i \in DOMAIN samples |-> i])
      last  == {n \in DOMAIN samples : FoldLeft(step, NewTime, [i \in 1..n |-> i]).nTimeOffset # 0}
      heard(n) == FoldLeft(step, NewTime, [i \in 1..n |-> i]).vValues
      good(n) == {i \in DOMAIN heard(n) : AbsOf(heard(n)[i]) <= honest}
  IN /\ AbsOf(t.nTimeOffset) < OffsetLimit
     /\ (\A n \in DOMAIN samples : 2 * Cardinality(good(n)) > Len(heard(n))) => AbsOf(t.nTimeOffset) <= honest

\* r: the files f, and blocks and undos, the ranges <<file, first, size>> in use
FileStep(r, op) ==
  LET b == FindBlockPos(r.f, op[2], op[3])
      u == FindUndoPos(r.f, op[4], op[2], op[3])
      range(pos) == <<pos.nFile, pos.nPos, op[2]>>
  IN CASE op[1] = "block" -> [r EXCEPT !.f = b.s, !.blocks = IF b.ok THEN Append(@, range(b.pos)) ELSE @]
       [] op[1] = "undo"  -> IF op[4] > r.f.nLastBlockFile THEN r
                             ELSE [r EXCEPT !.f = u.s, !.undos = IF u.ok THEN Append(@, range(u.pos)) ELSE @]
       [] op[1] = "restart" -> [r EXCEPT !.f = LoadFiles(@)]
Disjoint(ranges) ==
  \A i, j \in DOMAIN ranges : i # j /\ ranges[i][1] = ranges[j][1] =>
    \/ ranges[i][2] + ranges[i][3] <= ranges[j][2]
    \/ ranges[j][2] + ranges[j][3] <= ranges[i][2]

\* No two blocks, and no two undo records, are given the same bytes of a file,
\* across failures and restarts; none is put beyond what the file's entry says,
\* to which the file is cut; and reading the files again leads to the same state.
FilesHold(r) ==
  LET info(n) == IF n = r.f.nLastBlockFile THEN r.f.infoLastBlockFile ELSE ReadBlockFileInfo(r.f, n)
      reindexed == FoldLeft(LAMBDA s, b : KnownBlockPos(s, b[1], b[3]), NewFiles, r.blocks)
      files == {b[1] : b \in ToSet(r.blocks)}
      whole(n) == info(n).nSize = Sum([i \in DOMAIN r.blocks |-> IF r.blocks[i][1] = n THEN r.blocks[i][3] ELSE 0])
  IN /\ Disjoint(r.blocks) /\ Disjoint(r.undos)
     /\ \A b \in ToSet(r.blocks) : b[2] + b[3] <= info(b[1]).nSize /\ info(b[1]).nSize < MAX_BLOCKFILE_SIZE
     /\ \A u \in ToSet(r.undos) : u[2] + u[3] <= info(u[1]).nUndoSize
     /\ (\A n \in files : whole(n)) => \A n \in files : ReadBlockFileInfo(reindexed, n).nSize = info(n).nSize
FileTrial(ops) ==
  FilesHold(FoldLeft(FileStep, [f |-> NewFiles, blocks |-> <<>>, undos |-> <<>>], ops))
=============================================================================
