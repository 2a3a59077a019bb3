----------------------- MODULE MintAttestationIterator -----------------------
(***************************************************************************)
(* How gateway_mint decodes an attestation set (gateway-minter/src/        *)
(* attestation.rs).  MintAttestation::new reads the header; each call of   *)
(* next() moves to the next element, whose size depends on its            *)
(* hook_data_length field, and checks that it fits in the data.  Before    *)
(* the loop gateway_mint compares the number of remaining accounts with    *)
(* num_attestations() * 3, in u32; after it, with the accounts consumed.   *)
(*                                                                         *)
(* Scaled layout.  A cell stands for a field: the set header has           *)
(* ATTESTATIONS_OFFSET cells, one of them num_attestations; an element has *)
(* HOOK_DATA_OFFSET cells, one of them hook_data_length, followed by that  *)
(* many hook data cells.  Offsets are 0-based as in the code; a u32 field  *)
(* is one cell and u32 arithmetic is taken modulo 2^U32Bits.  The magic    *)
(* and the other header fields are opaque: data whose magic, version,      *)
(* domain or contract differs is rejected before the loop.                 *)
(*                                                                         *)
(* The data and the account count are chosen in Init; then the code runs. *)
(***************************************************************************)
EXTENDS Integers, Sequences, SequencesExt

CONSTANTS
  CellValues,                 \* values a cell may hold
  MaxDataLen,                 \* longest attestation data enumerated
  AccountCounts,              \* ctx.remaining_accounts.len() values
  U32Bits,                    \* width of u32, scaled
  NUM_ATTESTATIONS_OFFSET,    \* ATTESTATION_SET_NUM_ATTESTATIONS_OFFSET
  ATTESTATIONS_OFFSET,        \* ATTESTATION_SET_ATTESTATIONS_OFFSET
  HOOK_DATA_LENGTH_OFFSET,    \* HOOK_DATA_LENGTH_OFFSET
  HOOK_DATA_OFFSET            \* HOOK_DATA_OFFSET

ASSUME /\ NUM_ATTESTATIONS_OFFSET < ATTESTATIONS_OFFSET
       /\ HOOK_DATA_LENGTH_OFFSET < HOOK_DATA_OFFSET
       /\ CellValues \subseteq 0..(2^U32Bits - 1)

U32Max == 2^U32Bits

\* Cells of encode_attestation that carry no length: left unconstrained.
Opaque == -1

VARIABLES
  data,            \* params.attestation
  accounts,        \* ctx.remaining_accounts.len()
  overflowChecks,  \* build profile: u32 overflow panics (TRUE) or wraps
  pc,              \* "new", "accounts", "loop", "accepted", "rejected"
  offset,          \* MintAttestation.offset
  index,           \* MintAttestation.index
  numElements,     \* MintAttestation.num_elements
  accountIndex,    \* gateway_mint's account_index
  hooks,           \* hook_data_length of each element the loop processed
  panicked         \* the iterator indexed out of range or underflowed

vars == <<data, accounts, overflowChecks, pc, offset, index, numElements,
          accountIndex, hooks, panicked>>

-----------------------------------------------------------------------------
\* read_u32: the slice data[i..i+4] panics when it runs past the end.
read_u32(d, i) == d[i + 1]

\* 108 + hook_data_length of the element at off.
AttestationLength(d, off) ==
  HOOK_DATA_OFFSET + read_u32(d, off + HOOK_DATA_LENGTH_OFFSET)

\* next(): advance past the previous element, but not on the first call.
NextOffset(d, off, i) ==
  IF i > 0 THEN off + AttestationLength(d, off) ELSE off

\* Variant that only checks room for the fixed element header.
ElementFits_header_only(d, off) == Len(d) - off >= HOOK_DATA_OFFSET

\* The two require_gte! of next(): the fixed header fits, then the whole
\* element with its hook data fits in what remains.
ElementFits(d, off) ==
  /\ Len(d) - off >= HOOK_DATA_OFFSET
  /\ Len(d) - off >= AttestationLength(d, off)

\* Variant without the AttestationTooLong check.
LastElementExact_unchecked(d, off, idx, n) == TRUE

\* The last element must end exactly at the end of the data.
LastElementExact(d, off, idx, n) ==
  idx = n => off + AttestationLength(d, off) = Len(d)

-----------------------------------------------------------------------------
Reject == pc' = "rejected"

Init ==
  /\ data \in SeqOf(CellValues, MaxDataLen)
  /\ accounts \in AccountCounts
  /\ overflowChecks \in BOOLEAN
  /\ pc = "new"
  /\ offset = 0
  /\ index = 0
  /\ numElements = 0
  /\ accountIndex = 0
  /\ hooks = <<>>
  /\ panicked = FALSE

\* MintAttestation::new: minimum length, num_attestations > 0.
new ==
  /\ pc = "new"
  /\ IF Len(data) < ATTESTATIONS_OFFSET + HOOK_DATA_OFFSET
     THEN Reject /\ UNCHANGED <<numElements, offset>>
     ELSE /\ numElements' = read_u32(data, NUM_ATTESTATIONS_OFFSET)
          /\ offset' = ATTESTATIONS_OFFSET
          /\ pc' = IF numElements' > 0 THEN "accounts" ELSE "rejected"
  /\ UNCHANGED <<data, accounts, overflowChecks, index, accountIndex, hooks,
                 panicked>>

\* gateway_mint: remaining_accounts.len() == num_attestations() * 3, the
\* product in u32.  On overflow a checked build panics, otherwise it wraps.
check_accounts ==
  /\ pc = "accounts"
  /\ LET product == numElements * 3 IN
       IF product >= U32Max /\ overflowChecks THEN Reject
       ELSE pc' = IF accounts = product % U32Max THEN "loop" ELSE "rejected"
  /\ UNCHANGED <<data, accounts, overflowChecks, offset, index, numElements,
                 accountIndex, hooks, panicked>>

\* One turn of `while attestation.next()? { ... }`.  next() steps past the
\* previous element (not on the first call), then checks the new one; the
\* body uses three accounts from account_index.  When next() returns false
\* the loop ends with account_index == remaining_accounts.len().
next ==
  /\ pc = "loop"
  /\ IF index >= numElements
     THEN /\ pc' = IF accountIndex = accounts THEN "accepted" ELSE "rejected"
          /\ UNCHANGED <<offset, index, accountIndex, hooks, panicked>>
     ELSE
       LET off == NextOffset(data, offset, index)
           idx == index + 1
       IN
       /\ offset' = off
       /\ index' = idx
       /\ CASE off > Len(data) ->
                 \* data.len() - offset underflows
                 Reject /\ panicked' = TRUE /\ UNCHANGED <<accountIndex, hooks>>
            [] ~ElementFits(data, off) \/ ~LastElementExact(data, off, idx, numElements) ->
                 Reject /\ UNCHANGED <<accountIndex, hooks, panicked>>
            [] accountIndex + 3 > accounts ->
                 \* remaining_accounts[account_index + 2] is out of range
                 Reject /\ UNCHANGED <<accountIndex, hooks, panicked>>
            [] OTHER ->
                 /\ hooks' = Append(hooks, read_u32(data, off + HOOK_DATA_LENGTH_OFFSET))
                 /\ accountIndex' = accountIndex + 3
                 /\ UNCHANGED <<pc, panicked>>
  /\ UNCHANGED <<data, accounts, overflowChecks, numElements>>

\* The instruction has returned.
Done ==
  /\ pc \in {"accepted", "rejected"}
  /\ UNCHANGED vars

Next == new \/ check_accounts \/ next \/ Done

Spec == Init /\ [][Next]_vars

-----------------------------------------------------------------------------
(* Reference: MintAttestationStruct::encode_attestation, in the scaled     *)
(* layout, for a sequence of hook data lengths.                            *)

EncodeField(size, pos, v) == [i \in 1..size |-> IF i = pos + 1 THEN v ELSE Opaque]

encode_attestation(hs) ==
  EncodeField(ATTESTATIONS_OFFSET, NUM_ATTESTATIONS_OFFSET, Len(hs))
    \o FlattenSeq([k \in DOMAIN hs |->
                     EncodeField(HOOK_DATA_OFFSET, HOOK_DATA_LENGTH_OFFSET, hs[k])
                       \o [i \in 1..hs[k] |-> Opaque]])

\* d is enc, up to the opaque cells.
Matches(d, enc) ==
  /\ Len(d) = Len(enc)
  /\ \A i \in 1..Len(d) : enc[i] # Opaque => d[i] = enc[i]

MaxElements == (MaxDataLen - ATTESTATIONS_OFFSET) \div HOOK_DATA_OFFSET

\* data is the encoding of a non-empty set and comes with three accounts
\* per element.
WellFormed(d, n) ==
  \E hs \in SeqOf(CellValues, MaxElements) :
    /\ hs # <<>>
    /\ Matches(d, encode_attestation(hs))
    /\ n = 3 * Len(hs)

-----------------------------------------------------------------------------
\* MintAttestation never slices past the data nor underflows computing the
\* remaining length: every offset it reaches was checked to fit.
IteratorNeverPanics == ~panicked

\* gateway_mint's decoding accepts exactly the encodings produced by
\* encode_attestation that come with three accounts per element, whatever
\* num_attestations * 3 does in u32, and the elements it processes are the
\* ones encoded.
AttestationDecoded ==
  pc \in {"accepted", "rejected"} =>
    /\ pc = "accepted" <=> WellFormed(data, accounts)
    /\ pc = "accepted" =>
         /\ Matches(data, encode_attestation(hooks))
         /\ accounts = 3 * Len(hooks)
=============================================================================
