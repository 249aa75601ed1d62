SPECIFICATION Spec
CONSTANTS
    NoBlock = NoBlock
    g = g  s = s  a2 = a2  a3 = a3  b2 = b2  d2 = d2  x3 = x3
    c0 = c0  c1 = c1  ca = ca  cc = cc  cb = cb  cd = cd  cx = cx
    t1 = t1  t2 = t2  t3 = t3  t4 = t4  t5 = t5  tx = tx
    Blocks <- MCBlocks
    Genesis = g
    Parent <- MCParent
    Height <- MCHeight
    ChainWork <- MCChainWork
    Ancestry <- MCAncestry
    Txids <- MCTxids
    TxIn <- MCTxIn
    TxOut <- MCTxOut
    BlockTxs <- MCBlockTxs
    SigOps <- MCSigOps
    RedeemSigOps <- MCRedeemSigOps
    BadScripts = {}
    COINBASE_MATURITY = 1
    MIN_TX_FEE = 1
    Subsidy = 5
    MAX_MONEY = 20
    MAX_BLOCK_SIGOPS = 4
    NonStandard = {}
    BigTxs = {}
    RelayFee <- MCRelayFee
    BadBlocks = {}
    LastCheckpoint = 0
    FlushSets <- Flushed
    MaxOrphans = 2
PROPERTIES
    OrphansAreAccepted
