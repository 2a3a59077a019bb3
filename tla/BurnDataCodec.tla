---------------------------- MODULE BurnDataCodec ----------------------------
(***************************************************************************)
(* How gateway_burn decodes its burn data (gateway-wallet/src/             *)
(* burn_data.rs) and ties it to the user's Ed25519 signature.              *)
(* BurnData::new checks the length, the message prefix, both magics, that  *)
(* the length equals TS_HOOK_DATA_OFFSET + hook_data_length, that          *)
(* transfer_spec_length agrees with hook_data_length, and that the value,  *)
(* narrowed from 32 bytes, is positive.  verify_user_signature then        *)
(* requires the burn intent message (the data from the prefix on) to fit   *)
(* in u16 and compares it, as u16, with the message_data_size of the       *)
(* Ed25519 instruction the submitter placed before it.  Later reads in     *)
(* gateway_burn narrow max_block_height and max_fee and slice the          *)
(* transfer spec that the replay hash covers.                              *)
(*                                                                         *)
(* Scaled layout.  A cell stands for a field; a u256 narrowed to u64 is    *)
(* U256_TO_U64_OFFSET high cells that must be zero, then the u64.  The     *)
(* fee, the user signature, the addresses, domains and salt are cells      *)
(* BurnData::new never checks, held at 0.  Offsets are 0-based as in the   *)
(* code; usize and u32 arithmetic cannot overflow at these sizes; the u16  *)
(* of the Ed25519 descriptor is scaled to U16Bits.                         *)
(***************************************************************************)
EXTENDS Integers, Sequences

CONSTANTS
  BURN_INTENT_MESSAGE_PREFIX,         \* value of the prefix cell
  BURN_INTENT_MAGIC,
  TRANSFER_SPEC_MAGIC,
  BURN_INTENT_MESSAGE_PREFIX_OFFSET,
  MAGIC_OFFSET,
  MAX_BLOCK_HEIGHT_OFFSET,
  MAX_FEE_OFFSET,
  TRANSFER_SPEC_LENGTH_OFFSET,
  TRANSFER_SPEC_OFFSET,               \* = TS_MAGIC_OFFSET
  TS_VALUE_OFFSET,
  TS_HOOK_DATA_LENGTH_OFFSET,
  TS_HOOK_DATA_OFFSET,
  U256_TO_U64_OFFSET,
  U16Bits,                            \* width of u16, scaled
  Inputs                              \* field choices the burn data is built from

\* u16::MAX + 1
U16Max == 2^U16Bits

VARIABLES
  data,             \* params.encoded_burn_data
  messageDataSize,  \* message_data_size in the preceding Ed25519 instruction
  pc,               \* "new", "signature", "fields", "accepted", "rejected"
  panicked          \* a slice ran past the data

vars == <<data, messageDataSize, pc, panicked>>

-----------------------------------------------------------------------------
(* Layout: the burn data whose cells carry the fields of record r.  All    *)
(* other cells are 0.  Its length is TS_HOOK_DATA_OFFSET + r.hookLen.     *)
Layout(r) ==
  [i \in 1..(TS_HOOK_DATA_OFFSET + r.hookLen) |->
     LET o == i - 1 IN
     CASE o = BURN_INTENT_MESSAGE_PREFIX_OFFSET            -> r.prefix
       [] o = MAGIC_OFFSET                                 -> r.magic
       [] o = MAX_BLOCK_HEIGHT_OFFSET                      -> r.mbhHigh
       [] o = MAX_BLOCK_HEIGHT_OFFSET + U256_TO_U64_OFFSET -> r.mbh
       [] o = MAX_FEE_OFFSET                               -> r.maxFeeHigh
       [] o = MAX_FEE_OFFSET + U256_TO_U64_OFFSET          -> r.maxFee
       [] o = TRANSFER_SPEC_LENGTH_OFFSET                  -> r.tsl
       [] o = TRANSFER_SPEC_OFFSET                         -> r.tsMagic
       [] o = TS_VALUE_OFFSET                              -> r.valueHigh
       [] o = TS_VALUE_OFFSET + U256_TO_U64_OFFSET         -> r.value
       [] o = TS_HOOK_DATA_LENGTH_OFFSET                   -> r.hdl
       [] OTHER                                            -> 0]

\* Burn data the model enumerates: every layout of Inputs, and each of them
\* cut one cell short of the fixed part.
BurnDataInputs ==
  {Layout(r) : r \in Inputs} \cup
  {SubSeq(Layout(r), 1, TS_HOOK_DATA_OFFSET - 1) : r \in Inputs}

ASSUME U256_TO_U64_OFFSET = 1

-----------------------------------------------------------------------------
(* Helpers translated from burn_data.rs.                                   *)

\* read_u32 / read_bytes of one field (in range once the length check held).
read_u32(d, index) == d[index + 1]

\* read_u64_with_data_offset: the U256_TO_U64_OFFSET high bytes must be
\* zero (InvalidU64HighBytes), then the u64 after them.
read_u64_with_data_offset(d, index) ==
  [ok |-> \A k \in 0..(U256_TO_U64_OFFSET - 1) : d[index + k + 1] = 0,
   v  |-> d[index + U256_TO_U64_OFFSET + 1]]

\* data.len() == TS_HOOK_DATA_OFFSET + hook_data_length
HookDataLengthMatches(d) ==
  Len(d) = TS_HOOK_DATA_OFFSET + read_u32(d, TS_HOOK_DATA_LENGTH_OFFSET)

\* Variant with require_gte! where the code has require_eq!.
TransferSpecLengthMatches_at_least(d) == read_u32(d, TRANSFER_SPEC_LENGTH_OFFSET) >= (TS_HOOK_DATA_OFFSET - TRANSFER_SPEC_OFFSET) + read_u32(d, TS_HOOK_DATA_LENGTH_OFFSET)

\* transfer_spec_length == (TS_HOOK_DATA_OFFSET - TRANSFER_SPEC_OFFSET)
\*                         + hook_data_length
TransferSpecLengthMatches(d) ==
  read_u32(d, TRANSFER_SPEC_LENGTH_OFFSET)
    = (TS_HOOK_DATA_OFFSET - TRANSFER_SPEC_OFFSET)
      + read_u32(d, TS_HOOK_DATA_LENGTH_OFFSET)

\* BurnData::new succeeds.
BurnDataNew(d) ==
  /\ Len(d) >= TS_HOOK_DATA_OFFSET
  /\ read_u32(d, BURN_INTENT_MESSAGE_PREFIX_OFFSET) = BURN_INTENT_MESSAGE_PREFIX
  /\ read_u32(d, MAGIC_OFFSET) = BURN_INTENT_MAGIC
  /\ read_u32(d, TRANSFER_SPEC_OFFSET) = TRANSFER_SPEC_MAGIC
  /\ HookDataLengthMatches(d)
  /\ TransferSpecLengthMatches(d)
  /\ LET value == read_u64_with_data_offset(d, TS_VALUE_OFFSET)
     IN  value.ok /\ value.v > 0

\* burn_intent_message_length: the data from the prefix on.
burn_intent_message_length(d) == Len(d) - BURN_INTENT_MESSAGE_PREFIX_OFFSET

\* Variant without the u16::MAX bound.
MessageFitsU16_unchecked(len) == TRUE

\* require_gte!(u16::MAX as usize, burn_intent_message_length)
MessageFitsU16(len) == len <= U16Max - 1

-----------------------------------------------------------------------------
Reject == pc' = "rejected"

Init ==
  /\ data \in BurnDataInputs
  /\ messageDataSize \in 0..(U16Max - 1)
  /\ pc = "new"
  /\ panicked = FALSE

\* gateway_burn line 170: BurnData::new.
new ==
  /\ pc = "new"
  /\ pc' = IF BurnDataNew(data) THEN "signature" ELSE "rejected"
  /\ UNCHANGED <<data, messageDataSize, panicked>>

\* verify_user_signature, the message length and size: the rest of the
\* Ed25519 descriptor is modelled in GatewayWallet.
verify_user_signature ==
  LET len == burn_intent_message_length(data) IN
  /\ pc = "signature"
  /\ pc' = IF MessageFitsU16(len) /\ messageDataSize = len % U16Max
           THEN "fields" ELSE "rejected"
  /\ UNCHANGED <<data, messageDataSize, panicked>>

\* The reads of gateway_burn after it: max_block_height and max_fee are
\* narrowed (line 186, 235); transfer_spec_hash slices
\* data[TRANSFER_SPEC_OFFSET .. TRANSFER_SPEC_OFFSET + transfer_spec_length]
\* without a check, which panics past the end (line 253).
read_fields ==
  LET mbh  == read_u64_with_data_offset(data, MAX_BLOCK_HEIGHT_OFFSET)
      fee  == read_u64_with_data_offset(data, MAX_FEE_OFFSET)
      end  == TRANSFER_SPEC_OFFSET + read_u32(data, TRANSFER_SPEC_LENGTH_OFFSET)
  IN
  /\ pc = "fields"
  /\ CASE ~mbh.ok \/ ~fee.ok -> Reject /\ UNCHANGED panicked
       [] end > Len(data)    -> Reject /\ panicked' = TRUE
       [] OTHER              -> pc' = "accepted" /\ UNCHANGED panicked
  /\ UNCHANGED <<data, messageDataSize>>

\* The instruction has returned.
Done ==
  /\ pc \in {"accepted", "rejected"}
  /\ UNCHANGED vars

Next == new \/ verify_user_signature \/ read_fields \/ Done

Spec == Init /\ [][Next]_vars

-----------------------------------------------------------------------------
(* Reference: the layout documented at the head of burn_data.rs, for a    *)
(* burn intent of the given max_block_height, max_fee, value and hook data *)
(* length.                                                                 *)
encode_burn_data(mbh, maxFee, value, hookLen) ==
  Layout([prefix |-> BURN_INTENT_MESSAGE_PREFIX, magic |-> BURN_INTENT_MAGIC,
          mbhHigh |-> 0, mbh |-> mbh, maxFeeHigh |-> 0, maxFee |-> maxFee,
          tsl |-> (TS_HOOK_DATA_OFFSET - TRANSFER_SPEC_OFFSET) + hookLen,
          tsMagic |-> TRANSFER_SPEC_MAGIC, valueHigh |-> 0, value |-> value,
          hdl |-> hookLen, hookLen |-> hookLen])

\* d encodes some burn intent with a positive value.  The fields an
\* encoding would carry are taken from their cells and the encoding of
\* them compared with d cell by cell, so no input is searched.
WellFormed(d) ==
  LET cell(o) == d[o + 1]
      hookLen == Len(d) - TS_HOOK_DATA_OFFSET
  IN  /\ hookLen >= 0
      /\ cell(TS_VALUE_OFFSET + U256_TO_U64_OFFSET) > 0
      /\ d = encode_burn_data(cell(MAX_BLOCK_HEIGHT_OFFSET + U256_TO_U64_OFFSET),
                              cell(MAX_FEE_OFFSET + U256_TO_U64_OFFSET),
                              cell(TS_VALUE_OFFSET + U256_TO_U64_OFFSET),
                              hookLen)

-----------------------------------------------------------------------------
\* No slice of gateway_burn's decoding runs past the burn data: the
\* transfer spec that transfer_spec_hash hashes was bounded by BurnData::new.
BurnDataNeverPanics == ~panicked

\* gateway_burn gets past decoding exactly when the burn data is a
\* well-formed encoding and the Ed25519 instruction verified the user's
\* signature over the whole burn intent message, from the prefix to the
\* last hook data byte.  A shorter signed region would let bytes the user
\* never signed (hook data, hence a new transfer spec hash) ride on an old
\* signature.
BurnDataDecoded ==
  pc \in {"accepted", "rejected"} =>
    (pc = "accepted" <=>
       /\ WellFormed(data)
       /\ messageDataSize = burn_intent_message_length(data))
=============================================================================
