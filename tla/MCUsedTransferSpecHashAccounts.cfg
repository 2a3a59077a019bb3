CONSTANTS
  h1 = h1
  h2 = h2
  h3 = h3
  Hashes = {h1, h2, h3}
  Rent = 2
  Space = 2
  Lamports = {1, 2}
  MaxLamports = 3

SPECIFICATION Spec
INVARIANTS
  ClaimableWhenUnused
PROPERTIES
  RegistryRefined
