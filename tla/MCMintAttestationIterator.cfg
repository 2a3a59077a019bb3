CONSTANTS
  CellValues = {0, 1, 2, 6}
  MaxDataLen = 6
  AccountCounts = {0, 2, 3, 6}
  U32Bits = 4
  NUM_ATTESTATIONS_OFFSET = 1
  ATTESTATIONS_OFFSET = 2
  HOOK_DATA_LENGTH_OFFSET = 1
  HOOK_DATA_OFFSET = 2

SPECIFICATION Spec
INVARIANTS
  IteratorNeverPanics
  AttestationDecoded
