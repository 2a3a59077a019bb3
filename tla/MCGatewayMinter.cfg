CONSTANTS
  a1 = a1
  a2 = a2
  c1 = c1
  c2 = c2
  zero = zero
  t1 = t1
  r1 = r1
  r2 = r2
  h1 = h1
  h2 = h2
  h3 = h3
  ua = ua
  k2 = k2
  x = x
  Keys <- MCKeys
  Untrusted = {}
  UntrustedAttesters = {}
  UpgradeAuthority = ua
  AttesterKeys <- MCAttesterKeys
  InitialAttesters <- MCInitialAttesters
  MaxAttesters = 10
  Callers <- MCCallers
  ZeroKey = zero
  Tokens <- MCTokens
  MaxSupportedTokens = 10
  MaxCustody = 3
  FundAmounts = {1, 2}
  Recipients <- MCRecipients
  Hashes <- MCHashes
  Attestations <- MCAttestations
  BurnAmounts = {1, 2}
  MaxSlot = 3

SPECIFICATION Spec
INVARIANTS
  TransferSpecMintedOnce
