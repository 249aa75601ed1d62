SPECIFICATION Spec
CONSTANTS
  MaxNumSize = 1
  MaxOpCount = 8
  MaxStackSize = 10
  MaxKeys = 4
  FractionalBits = 5
  DifficultyBits = 8
  ThresholdBits = 3
  nTargetMinLength = 2
  nTargetInitialLength = 3
  nPrimeTableLimit = 60
  nSieveSize = 10
  nSieveFilterPrimes = 6
  nSieveExtensions = 2
  nL1CacheElements = 4
  nWordBits = 4
  MurmurHash3 <- AnyHash
  AmountBits = 8
  MAX_MONEY = 51
  MIN_TXOUT_AMOUNT = 1
  MAX_BLOCK_SIZE = 120
  DEFAULT_BLOCK_PRIORITY_SIZE = 30
  FeeUnit = 10
  MAX_BLOCK_SIGOPS = 22
  nMinTxFee = 2
  nMinRelayTxFee = 1
  CENT = 3
  CoinDigits = 8
  IntBytes = 2
  CheckBytes = 1
  Checksum <- AnyChecksum
  PageSize = 4
  MAX_BLOCKFILE_SIZE = 12
  BLOCKFILE_CHUNK_SIZE = 4
  UNDOFILE_CHUNK_SIZE = 3
  OffsetLimit = 8
  WindowSize = 6
INVARIANTS
  SignaturesVerify
  ScriptsAreCharged
  WorkIsSound
  AddressesAreRight
  KeptIsFound
