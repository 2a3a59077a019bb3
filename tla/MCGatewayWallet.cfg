CONSTANTS
  d1 = d1  d2 = d2  k1 = k1  t1 = t1  h1 = h1  h2 = h2  b1 = b1  ua = ua  zero = zero 
  Depositors <- MCDepositors
  Delegates <- MCDelegates
  Tokens <- MCTokens
  Hashes <- MCHashes
  BurnSignerKeys <- MCBurnSignerKeys
  InitialBurnSigners <- MCInitialBurnSigners
  MaxBurnSigners = 10
  MaxSupportedTokens = 10
  WithdrawalDelay = 1
  MaxSlot = 2
  MaxBalance = 3
  Amounts = {1, 2}
  TransferSpecValue <- MCTransferSpecValue
  Fees = {0, 1}
  MaxFees = {1}
  MaxBlockHeights = {1}
  DenylistKeys <- MCDelegates
  U64Bits = 3
  AdminKeys <- MCAdminKeys
  UpgradeAuthority = ua
  ZeroKey = zero
  OverflowChecks = TRUE
SPECIFICATION Spec
SYMMETRY MCSymmetry
INVARIANTS
  TypeOK
  CustodyMatchesDeposits
  TransferSpecBurnedOnce
  BurnAuthorizedByUser
PROPERTIES
  WithdrawalDelayRespected
