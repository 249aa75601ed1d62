SPECIFICATION Spec
CONSTANTS
    NoBlock = NoBlock
    NoUndo = NoUndo
    g = g  s = s  a2 = a2  z3 = z3  b2 = b2  b3 = b3  x3 = x3  y4 = y4  m3 = m3  p3 = p3
    c1 = c1  ca = ca  cb = cb  cd = cd  cx = cx  cy = cy  t1 = t1  t2 = t2  t3 = t3  tx = tx  tm = tm  tp = tp
    Blocks <- MCBlocks
    Genesis = g
    Parent <- MCParent
    Height <- MCHeight
    ChainWork <- MCChainWork
    Ancestry <- MCAncestry
    Txids <- MCTxids
    TxIn <- MCTxIn
    TxOut <- MCTxOut
    SigOps <- MCSigOps
    RedeemSigOps <- MCRedeemSigOps
    BlockTxs <- MCBlockTxs
    BadScripts = {}
    COINBASE_MATURITY = 1
    MIN_TX_FEE = 1
    Subsidy = 5
    MAX_MONEY = 5
    MAX_BLOCK_SIGOPS = 3
    FlushModes = {TRUE, FALSE}
    PowerLoss = FALSE
    DiskFullModes = {FALSE}
    EnforceModes = {TRUE, FALSE}
INVARIANTS
    DisconnectsCleanly
    CoinsMatchChain
    ConnectIsExact
    BestIsMostWork
    FailedIsInvalid
    MoneySupplyMatchesCoins
PROPERTIES
    ImplementsLedger
