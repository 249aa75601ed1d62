------------------------------- MODULE Rules --------------------------------
(***************************************************************************)
(* The rules of main.cpp for one transaction: what CheckTransaction and    *)
(* CheckBlock refuse, what is standard, and the fee of GetMinFee.          *)
(*                                                                         *)
(* A transaction is [vin |-> <<[prevout, scriptSig], ..>>,                 *)
(* vout |-> <<[nValue, scriptPubKey], ..>>, nBytes, ...], sizes in   *)
(* bytes; an amount is a signed integer of AmountBits bits.                *)
(***************************************************************************)
EXTENDS Standard, FiniteSets

CONSTANTS AmountBits,                  \* int64 (64)
          MAX_MONEY, MIN_TXOUT_AMOUNT,
          MAX_BLOCK_SIZE, DEFAULT_BLOCK_PRIORITY_SIZE, FeeUnit,   \* FeeUnit: the 1000 bytes of a fee
          MAX_BLOCK_SIGOPS,
          nMinTxFee, nMinRelayTxFee, CENT

Wrapped(n) == ((n + 2 ^ (AmountBits - 1)) % (2 ^ AmountBits)) - 2 ^ (AmountBits - 1)
MoneyRange(n) == 0 <= n /\ n <= MAX_MONEY
NullPrevout == <<"null">>
IsCoinBase(tx) == Len(tx.vin) = 1 /\ tx.vin[1].prevout = NullPrevout

\* Adding up outputs as CheckTransaction does: every value and every sum in range
ValuesInRange(vout) ==
  LET step(r, txout) ==
        LET sum == Wrapped(r.sum + txout.nValue)
        IN [ok |-> r.ok /\ MIN_TXOUT_AMOUNT <= txout.nValue /\ txout.nValue <= MAX_MONEY /\ MoneyRange(sum), sum |-> sum]
  IN FoldLeft(step, [ok |-> TRUE, sum |-> 0], vout).ok

CheckTransaction(tx) ==
  /\ tx.vin # <<>> /\ tx.vout # <<>>
  /\ tx.nBytes <= MAX_BLOCK_SIZE
  /\ ValuesInRange(tx.vout)
  /\ \A i, j \in DOMAIN tx.vin : tx.vin[i].prevout = tx.vin[j].prevout => i = j
  /\ IF IsCoinBase(tx) THEN tx.nCoinBaseBytes \in 2..100
     ELSE \A i \in DOMAIN tx.vin : tx.vin[i].prevout # NullPrevout

\* CTransaction::GetLegacySigOpCount, and the limit of CheckBlock
GetLegacySigOpCount(tx) ==
  FoldLeft(LAMBDA n, txin : n + GetSigOpCount(txin.scriptSig, FALSE), 0, tx.vin)
  + FoldLeft(LAMBDA n, txout : n + GetSigOpCount(txout.scriptPubKey, FALSE), 0, tx.vout)
SigOpsInBounds(vtx) == FoldLeft(LAMBDA n, tx : n + GetLegacySigOpCount(tx), 0, vtx) <= MAX_BLOCK_SIGOPS

CheckBlockTransactions(vtx) ==
  /\ vtx # <<>> /\ IsCoinBase(vtx[1])
  /\ \A i \in 2..Len(vtx) : ~IsCoinBase(vtx[i])
  /\ \A i \in DOMAIN vtx : CheckTransaction(vtx[i])
  /\ SigOpsInBounds(vtx)

-----------------------------------------------------------------------------
(* Standard transactions *)

\* CTransaction::AreInputsStandard, one input
IsStandardInput(prevScript, scriptSig, tx, nIn) ==
  LET Args(s) == ScriptSigArgsExpected(s.type, s.solutions)
      Expected(s, sub, e) ==
        /\ s.ok /\ Args(s) >= 0 /\ e.ok
        /\ IF s.type = "TX_SCRIPTHASH"
           THEN /\ e.stack # <<>> /\ sub.ok /\ sub.type # "TX_SCRIPTHASH" /\ Args(sub) >= 0
                /\ Len(e.stack) = Args(s) + Args(sub)
           ELSE Len(e.stack) = Args(s)
      e == EvalScript(<<>>, scriptSig, tx, nIn, {}, 0)
  IN Expected(Solver(prevScript), Solver(ScriptIn(Last(e.stack))), e)

-----------------------------------------------------------------------------
(* The least fee of a transaction of nBytes in a block of nBlockSize bytes *)

MAX_BLOCK_SIZE_GEN == MAX_BLOCK_SIZE \div 2
GetMinFee(nBytes, values, nBlockSize, fAllowFree, mode) ==
  LET base == IF mode = "GMF_RELAY" THEN nMinRelayTxFee ELSE nMinTxFee
      free == fAllowFree /\ nBytes < (IF mode = "GMF_SEND" THEN FeeUnit ELSE DEFAULT_BLOCK_PRIORITY_SIZE - FeeUnit)
      size == IF free THEN 0 ELSE (1 + nBytes \div FeeUnit) * base
      paid == IF size < base /\ mode = "GMF_SEND" /\ (\E v \in values : v < CENT) THEN base ELSE size
      full == nBlockSize + nBytes
      fee  == CASE nBlockSize = 1 \/ full < MAX_BLOCK_SIZE_GEN \div 2 -> paid
                [] nBlockSize # 1 /\ full >= MAX_BLOCK_SIZE_GEN -> MAX_MONEY
                [] OTHER -> paid * (MAX_BLOCK_SIZE_GEN \div (MAX_BLOCK_SIZE_GEN - full))
  IN IF MoneyRange(fee) THEN fee ELSE MAX_MONEY
=============================================================================
