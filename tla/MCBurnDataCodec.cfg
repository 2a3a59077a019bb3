CONSTANTS
  BURN_INTENT_MESSAGE_PREFIX = 1
  BURN_INTENT_MAGIC = 2
  TRANSFER_SPEC_MAGIC = 3
  BURN_INTENT_MESSAGE_PREFIX_OFFSET = 2
  MAGIC_OFFSET = 3
  MAX_BLOCK_HEIGHT_OFFSET = 4
  MAX_FEE_OFFSET = 6
  TRANSFER_SPEC_LENGTH_OFFSET = 8
  TRANSFER_SPEC_OFFSET = 9
  TS_VALUE_OFFSET = 10
  TS_HOOK_DATA_LENGTH_OFFSET = 12
  TS_HOOK_DATA_OFFSET = 13
  U256_TO_U64_OFFSET = 1
  U16Bits = 4
  Inputs <- MCInputs
SPECIFICATION Spec
INVARIANTS
  BurnDataNeverPanics
  BurnDataDecoded
