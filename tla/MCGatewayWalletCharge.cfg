CONSTANTS
  d1 = d1  d2 = d2  t1 = t1  h1 = h1  h2 = h2  b1 = b1  ua = ua  zero = zero
  Depositors <- MCDepositors
  Delegates <- MCDelegates
  Tokens <- MCTokens
  Hashes <- MCHashes
  BurnSignerKeys <- MCBurnSignerKeys
  InitialBurnSigners <- MCInitialBurnSigners
  TransferSpecValue <- MCTransferSpecValue
  MaxBurnSigners = 10
  MaxSupportedTokens = 10
  WithdrawalDelay = 1
  MaxSlot = 2
  MaxBalance = 3
  Amounts = {1, 2}
  Fees = {0, 3}
  MaxFees = {3}
  MaxBlockHeights = {2}
  DenylistKeys <- MCDepositors
  U64Bits = 3
  AdminKeys <- MCAdminKeys
  UpgradeAuthority = ua
  ZeroKey = zero
  OverflowChecks = TRUE
SPECIFICATION Spec
SYMMETRY MCSymmetry
PROPERTIES
  BurnChargedInFull
