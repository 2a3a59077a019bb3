# TLA+ models of the Solana gateway contracts

This directory holds TLA+ models of the two Anchor programs under
`src/programs` and of the shared crate under `src/shared`. It also holds the
TLC configurations that check them.

## The system

* **gateway-wallet** holds users' deposits in a custody token account per
  token. It keeps one ledger per `(depositor, token)` in `GatewayDeposit`:
  `available_amount`, `withdrawing_amount` and `withdrawal_block`.
  - A depositor moves funds from available to withdrawing with
    `initiate_withdrawal`. `withdraw` pays them out once the slot reaches
    `withdrawal_block`.
  - `gateway_burn` spends a deposit. It is authorised by a burn intent signed
    twice: with Ed25519 by the user or the user's delegate (checked through
    the Ed25519 precompile instruction just before it), and with ECDSA by an
    enabled burn signer.
  - Delegates (`GatewayDelegate`, keyed by token, depositor and delegate) and
    a denylist (the existence of a `Denylist` PDA) restrict who may act.
* **gateway-minter** pays out on the destination side. `gateway_mint` takes a
  set of mint attestations signed by an enabled attester. It pays each
  element out of the minter's custody account.
  `gateway_mint_with_params` rebuilds the same bytes from parameters.
* **shared** has the replay registry used by both programs. A transfer spec
  hash is used once its `UsedTransferSpecHash` PDA carries the discriminator:
  `is_transfer_spec_hash_used` checks this and
  `create_used_transfer_spec_hash_account` sets it. The crate also does EVM
  signature recovery.

The programs never call each other. They meet only through the attesters and
burn signers, which sit off chain, and through the shared hash scheme. Each
Solana instruction is atomic: it completes, or it aborts and changes nothing.

## Inventory

| Component | State | Operations | Module |
|---|---|---|---|
| Deposit ledger | `GatewayDeposit` per (depositor, token), custody balance | deposit_for, initiate_withdrawal, withdraw, reduce_balance (inside gateway_burn) | GatewayWallet |
| Delegates | `GatewayDelegate.status` | add_delegate, remove_delegate, validate_signer_authorization | GatewayWallet |
| Denylist | set of keys with a `Denylist` PDA | denylist, undenylist | GatewayWallet |
| Token list | `GatewayWallet.supported_tokens` | add_token | GatewayWallet |
| Burn signers | `GatewayWallet.burn_signers` | add_burn_signer, remove_burn_signer | GatewayWallet |
| gateway_burn | used hashes, deposits, custody | gateway_burn | GatewayWallet |
| Minter mint | used hashes, custody, recipient balances | gateway_mint, gateway_mint_with_params | GatewayMinter |
| Minter custody and tokens | `supported_tokens`, custody balances | add_token, burn_token_custody | GatewayMinter |
| Attesters and pause | `enabled_attesters`, `paused` | add_attester, remove_attester, pause, unpause | GatewayMinter |
| Attestation codec | the iterator's offset, index, num_elements; gateway_mint's account_index | MintAttestation::new, next, encode_attestation | MintAttestationIterator |
| Burn data codec | none (pure) | BurnData::new and accessors, verify_user_signature's length check | BurnDataCodec |
| Ed25519 descriptor codec | none (pure) | Ed25519InstructionData | abstracted in GatewayWallet (`PublicKeyOffsets`) |
| Signature recovery | none (pure) | recover_evm_signer, verify_attestation_signature, verify_burn_signature | EvmSignatureRecovery refines AuthorisedSignatures (secp256k1 and keccak abstracted) |
| Wallet administration | pauser, denylister, token controller, fee recipient | update_pauser, update_denylister, update_token_controller, update_fee_recipient, and the signers of add_token, denylist, undenylist, remove_burn_signer | GatewayWallet |
| Minter administration | owner, pending_owner, token controller | transfer_ownership, accept_ownership, update_token_controller, and the signers of add_token, add_attester, burn_token_custody, pause | GatewayMinter |

What is hard to test here, and what a model checker can reach, is listed
under `hazards` in `PROJECT.json`. In short:
- the replay registry's check-then-create, both across transactions and
  within one attestation set;
- partial deductions by `reduce_balance` on a shortfall;
- the single withdrawal timer, which is restarted by each
  `initiate_withdrawal`;
- the delegate account and the Ed25519 offsets, which the submitter
  chooses;
- the delegate lifecycle;
- the wildcard destination caller;
- numeric edges in the codecs and in `value + fee`.

## Modules

### GatewayWallet.tla

**State.** The variables mirror the on-chain accounts:
- `supported` (the wallet's token list), `deposits`, `depositExists`, `delegates`, `denylisted`, `burnSigners`,
  `used` (the replay registry) and `custody`;
- `slot`, the clock, bounded by `MaxSlot`;
- three history variables that the properties read: `initiatedAt`, `burns`
  and `burnCount`;
- the roles `pauser`, `denylister`, `token_controller` and `fee_recipient`.
  The owner is the constant `UpgradeAuthority`: `initialize` sets it, and
  the ownership handlers are not in the repository.

**Actions.**
- Each instruction is one action. Its guard is the handler's `require`s
  together with the Anchor account constraints.
- `gateway_burn` takes the decoded burn intent and the key that recovered the
  burn signature. It also takes the key that made the Ed25519 signature, the
  offset the precompile read its key from, and the delegate account the
  submitter passed.
- `gateway_burn` applies every check in code order. It then records the hash,
  applies `reduce_balance` and takes the deducted amount out of custody (fee
  plus burn).
- Every handler that takes a token account requires the token to be
  supported. `initiate_withdrawal`, `add_delegate` and `remove_delegate`
  check it directly. `deposit_for`, `withdraw` and `gateway_burn` check it
  through `get_custody_token_account_bump` in their account constraints.
  The token list starts empty, as `initialize` leaves it.
- `reduce_balance` and `validate_signer_authorization` are operators
  translated line by line.
- `value + fee` is u64 arithmetic, scaled to `U64Bits`. The constant
  `OverflowChecks` is the build profile: a checked build panics on overflow
  and the burn aborts, otherwise the sum wraps. No Cargo profile in the
  repository settles which. `reduce_balance`'s `require_gt!(value, 0)` is a
  guard, so a sum that wraps to 0 aborts too.
- A transfer spec hash determines its value (`TransferSpecValue`), because
  the hash covers the TransferSpec. The fee lies outside it.

- Administrative handlers take a signer from `AdminKeys` and may name any
  admin key or `Pubkey::default()`. No property is checked about who holds
  a role: the owner is the upgrade authority and no handler changes it, so
  the wallet's authority checks are single guards on a constant. The role
  updates require the owner and a key other than
  `Pubkey::default()`. `add_token` requires the token controller,
  `denylist` and `undenylist` the denylister, and `remove_burn_signer` the
  owner. `add_burn_signer`'s handler file is missing, so it has no
  authority check. The wallet's `paused` flag stays FALSE because no
  handler in the repository sets it.

**Not enumerated.** Burn data that fails to parse, or that names another
domain, contract or version, aborts and is left out. The EVM burn-signer
signature is modelled by the key it recovers to. `gateway_burn` is assumed
to be the top-level instruction: `load_current_index_checked` names the
transaction's instruction, so under a CPI the Ed25519 "previous
instruction" check refers to the caller's neighbour, and only the burn
signer's signature over burn data that embeds the user's signature bytes
protects the user. EvmSignatureRecovery
justifies that abstraction.

### GatewayMinter.tla

**State.**
- `attesters`, `paused`, `supported`, `used`, `custody` and `received`
  (recipient token balances);
- `owner`, `pending_owner` and `token_controller`. The pauser stays the
  upgrade authority, because `update_pauser`'s handler file is not in the
  repository;
- the history variable `mintCount`.

**Actions.**
- An attestation set is a record with a sequence of elements. The constant
  `Attestations` is the set of attestation sets that attesters have signed.
- `gateway_mint` checks, in order: pause, attester signature, expiry,
  destination caller, then the element loop.
- The loop is the RECURSIVE operator `ProcessElements`. It threads the
  registry and the balances through the elements, so an element sees the
  hash accounts created by the elements before it. A failing element
  discards the whole transaction.
- `gateway_mint_with_params` rebuilds `destination_caller` as zero or as the
  signer. It succeeds only when the rebuilt set is the one the attester
  signed.
- `FundCustody` models anyone transferring tokens into a custody account.
- The ownership hand-over is two actions. `transfer_ownership` is signed by
  the owner and nominates any key, `Pubkey::default()` included.
  `accept_ownership` is signed by the nominee, which becomes owner, and
  clears the nomination. `Untrusted` keys sign any administrative
  instruction with any parameter; trusted signers only appoint trusted keys
  or name `Pubkey::default()`.
- `add_token` and `burn_token_custody` are signed by the token controller,
  `add_attester` by the owner and `pause` by the pauser. The
  `GatewayMinter_*` operators are the state methods behind them.

**From the spec.** `unpause` and `remove_attester` have no handler file. They
are modelled with no authority check. That allows every behaviour a check
would allow, and the properties hold anyway.

### UsedHashRegistry.tla and UsedTransferSpecHashAccounts.tla

**UsedHashRegistry** is what the replay registry promises: a hash is claimed
only while unused, and stays used. `claims` counts the claims of each hash.

**UsedTransferSpecHashAccounts** models the accounts behind the registry.
Each hash's PDA has `lamports`, `owner`, data length (`space`) and whether
the discriminator is written (`marked`).
- `Fund` is anyone sending lamports to a PDA. It needs no signature.
  Balances saturate at `MaxLamports`, because the code only compares a
  balance with 0 and with the rent.
- `Claim` is `is_transfer_spec_hash_used` followed by
  `create_used_transfer_spec_hash_account`, in one instruction. There are two
  paths:
  - an empty account takes `create_account`;
  - a funded one is topped up to rent, then allocated and assigned.
  The system program's preconditions decide whether a path fails.
- The module instantiates UsedHashRegistry with
  `used <- {h : is_transfer_spec_hash_used(h)}` and checks
  `RegistryRefined == Registry!Spec`.
- gateway_burn and gateway_mint use this registry as the set `used`.

### MintAttestationIterator.tla

How `gateway_mint` decodes the attestation bytes (`attestation.rs`), and the
two account-count checks around its loop.

**Scaled layout.** A cell stands for a field. The set header is
`ATTESTATIONS_OFFSET` cells, one of them `num_attestations`. An element is
`HOOK_DATA_OFFSET` cells, one of them `hook_data_length`, followed by that
many hook data cells. Offsets are 0-based as in the code. A u32 is one cell,
and u32 arithmetic is taken modulo `2^U32Bits`. The magic, version, domain and
contract cells are opaque: a mismatch there aborts before the loop.

**State and actions.** The input (`data`, the number of remaining accounts)
is chosen in Init, together with the build profile `overflowChecks`. Rust's
`*` on u32 panics on overflow in a checked build and wraps otherwise; no
Cargo profile in the repository settles which, so both are enumerated.
- `new` is `MintAttestation::new`: minimum length, then `num_attestations > 0`.
- `check_accounts` is the `remaining_accounts.len() == num_attestations * 3`
  check, with the product in u32.
- `next` is one turn of `while attestation.next()?`: `NextOffset` advances
  past the previous element, `ElementFits` and `LastElementExact` are the
  three `require`s, and the body uses accounts `account_index .. +2`. When
  `next()` returns false, `account_index` must equal the account count.
- `Done` stutters once the instruction has returned.

**Reference.** `encode_attestation(hs)` builds the scaled encoding of a set
whose elements have hook data lengths `hs`. `WellFormed(d, n)` says that `d`
is such an encoding and `n` is three accounts per element.

### BurnDataCodec.tla

How `gateway_burn` decodes its burn data (`burn_data.rs`) and ties the user's
Ed25519 signature to it.

**Scaled layout.** A cell stands for a field. A u256 that the code narrows to
u64 is one high cell, which must be zero, followed by the u64. Fields that
`BurnData::new` never checks (fee, signature, addresses, domains, salt) are
cells held at 0. The u16 of the Ed25519 descriptor is scaled to `U16Bits`.

**State and actions.** Init chooses the burn data from `Inputs` and the
`message_data_size` the submitter put in the Ed25519 instruction.
- `new` is `BurnData::new`: length, prefix, both magics,
  `HookDataLengthMatches`, `TransferSpecLengthMatches`, and a positive value
  read with `read_u64_with_data_offset`.
- `verify_user_signature` is the message-length part of that function:
  `burn_intent_message_length <= u16::MAX`, then equality `as u16` with the
  descriptor's size. The offset fields are modelled in GatewayWallet.
- `read_fields` is the later reads of `gateway_burn`: `max_block_height`,
  `max_fee`, and the unchecked slice `encoded_transfer_spec` that the replay
  hash covers.

**Reference.** `encode_burn_data` is the layout documented at the head of
`burn_data.rs`. `WellFormed(d)` says `d` is that encoding of the fields found
in its cells.

### AuthorisedSignatures.tla and EvmSignatureRecovery.tla

`AuthorisedSignatures` is what the signature checks promise. Honest keys
sign digests (`Sign`). A program accepts a digest as signed by `k` only if
`k` signed it and is enabled for that program (`Accept`). GatewayMinter's
`a.signer \in attesters` and GatewayWallet's burn-signer check assume
exactly this.

`EvmSignatureRecovery` is the byte-level code: `recover_evm_signer`
(`shared/src/lib.rs`), `verify_attestation_signature` and
`verify_burn_signature`.
- A signature is a record of its length, its scalars r and s, and its v
  byte. r and s lie in `0..N`; the value `N` stands for every 32-byte value
  at or above the group order, which `parse_standard_slice` rejects.
- The curve is the constant `Owner`: the key `secp256k1_recover` returns for
  a digest, recovery id and scalars. Its one law is ECDSA malleability:
  `(i, r, s)` and `(1 - i, r, N - s)` recover the same key.
- `recover_evm_signer` makes the checks in the code's order: length, v in
  {27, 28}, parse, `is_high`, and then recovery.
- `Sign`: an honest key signs with a nonce and may return either twin,
  because a KMS does not normalise s.
- `Submit`: gateway_mint or gateway_burn reaches its signature check. The
  submitter may send any signature it can build:
  - one that recovers to an attacker key or to a key nobody holds;
  - a signature it has seen, with its length or v byte changed or s
    replaced by `N - s`.
  No one forges an honest key's signature.

The refinement maps each signature to the key it recovers to.
`ethereum_signed_message_hash` and keccak are abstracted to the digests
themselves.

## Runs

| Run | Config | Expect | What it shows |
|---|---|---|---|
| wallet_core | MCGatewayWallet.cfg | pass | Custody always equals the sum of the ledgers. Each transfer spec hash is burned at most once. Each burn was signed by the depositor or by a delegate of that depositor who was authorised at some point. No withdrawal is paid before `WithdrawalDelay` slots have passed since the last initiate_withdrawal. |
| delegate_regress | MCGatewayWalletDelegates.cfg | violation | `add_delegate` on a Revoked delegate sets it back to Authorized (add, remove, add). spec.md says the status never regresses. |
| registry_refinement | MCUsedTransferSpecHashAccounts.cfg | pass | The hash PDAs implement the claim-once registry. Lamports sent to a PDA before use, whether below, at or above rent, never stop the hash from being claimed. Three hashes, rent 2 and funding of 1 or 2 give 216 states. |
| attestation_iterator | MCMintAttestationIterator.cfg | pass | Decoding never slices past the data or underflows. A set is accepted exactly when the data is an encoding from `encode_attestation` and there are three accounts per element, and then the elements processed are the ones encoded. This holds whether `num_attestations * 3` panics or wraps in u32: the final `account_index` check catches a wrapped count. |
| burn_data_codec | MCBurnDataCodec.cfg | pass | Decoding never slices past the burn data. It succeeds exactly for well-formed encodings whose whole burn intent message, from the prefix to the last hook data byte, the Ed25519 instruction covers. Without the `u16::MAX` bound, a message 16 cells longer would match a descriptor that covers only a prefix. |
| burn_charge | MCGatewayWalletCharge.cfg | pass | With overflow checks, every burn debits the depositor value + fee for its transfer spec, or the whole balance on a shortfall. An intent whose sum overflows aborts. |
| burn_charge_wrap | MCGatewayWalletChargeWrap.cfg | violation | Where u64 addition wraps, an intent of value 6 and fee 3 (u64 scaled to 3 bits) passes the custody check, consumes its hash and debits 1. See the finding in `PROJECT.json`. |
| minter_core | MCGatewayMinter.cfg | pass | Each transfer spec hash is paid at most once: across signed sets that share it, inside a set that repeats it, and under either destination-caller mode. |
| minter_admin | MCGatewayMinterAdmin.cfg | pass | An untrusted key signs every administrative instruction, and an untrusted attester key exists. The owner and token controller stay trusted through any ownership hand-over, and no untrusted attester is enabled. |
| evm_signature | MCEvmSignatureRecovery.cfg | pass | The byte-level checks implement AuthorisedSignatures: a malleated, re-v'd or re-sized signature is never accepted unless the key it recovers to signed the digest and is enabled. No program accepts both forms of a malleated pair. Of any signature an enabled key produced, high s or low, one form is accepted. |

Every property of a passing run has a mutant in `PROJECT.json`. A mutant
changes one mapped definition the way a plausible bug would, and TLC finds
the property violated.

### Bounds

**wallet_core** (about 329k distinct states, under 2 minutes):
- two depositors, one extra delegate key, one token, two hashes and one burn
  signer key;
- slots 0..2 with a withdrawal delay of 1, so a withdrawal started at slot
  0 or 1 can be paid and a second initiate can restart the timer;
- deposits of 1 or 2, up to a total balance of 3 per ledger;
- burn value 1, fee 0 or 1, max fee 1, expiry at slot 1, so slot 2 is past
  expiry.

These values are enough to reach every interesting case:
- a burn larger than the available balance, so it takes from withdrawing or
  deducts only part;
- a second initiate_withdrawal while funds are already withdrawing;
- expiry;
- a denylisted delegate;
- a burn signer that is removed and added again;
- two intents that share a hash but differ in fee.

Symmetry over depositors and over hashes is sound: no property or action
distinguishes individual ones.

**evm_signature** (343 distinct states, seconds):
- the group order is scaled to 5, so scalars run 1..4, 1 and 2 are low, and
  5 stands for an overflowing scalar;
- one digest and nonces 1 and 2;
- attester a1, burn signer a2, and x for the attacker's keys and for keys
  nobody holds;
- lengths 64 and 65, and v bytes 0, 1, 27, 28 and 29.

In the recovery table, each honest key has exactly one low-s signature per
nonce, as ECDSA gives it. Recovery id 1 in canonical form recovers to x.
Every honest signature therefore has a high-s twin and a v-flipped
neighbour that recovers to nobody's key. The boundary scalar 2 (`N \div 2`)
is a signature that a2 makes.

**burn_data_codec** (about 271k distinct states, seconds):
- every field right or wrong: prefix, magics, nonzero high cells, zero value;
- 0 to 6 hook data cells, with `hook_data_length` and `transfer_spec_length`
  each within one of the values that agree with them;
- each layout also cut one cell short;
- every `message_data_size` in 0..15.

u16 is 4 bits and the message starts at cell 2, so five or more hook data
cells take the message past `u16::MAX`, where `as u16` would wrap.

**burn_charge** (about 54k distinct states, seconds):
- two depositors, so that custody can cover a burn larger than one balance
  and `reduce_balance` takes the shortfall branch;
- transfer specs of value 1 and 6, fees 0 or 3, and u64 scaled to 3 bits;
- `6 + 3` overflows, while custody (at most two balances of 3) still fits.

Symmetry over depositors is sound for the same reason as in wallet_core.

**minter_core:**
- one token, two recipients, two callers, two attester keys (one enabled at
  start), three hashes;
- four signed sets, chosen to cover the interesting cases:
  - a hash shared by two sets;
  - a set that repeats a hash;
  - a set bound to caller c1;
  - a set from an attester that is not yet enabled;
- custody funded up to 3, and expiries at slots 1 and 2.

**attestation_iterator** (about 129k distinct states, seconds): every data
sequence of up to 6 cells over the values {0, 1, 2, 6}, and 0, 2, 3 or 6
remaining accounts. The header is 2 cells and an element 2 cells plus its
hook data, so one and two elements fit. u32 is 4 bits, so
`num_attestations = 6` makes `6 * 3` wrap to 2: the accounts-length check
then passes with two accounts, and the loop must reject the set.

**minter_admin** (about 3k distinct states): the minter_core instance with
three administrative keys: the upgrade authority, a second trusted key k2
and an untrusted x. Attester a2 is untrusted. Ownership can move
ua -> k2 -> ua, and the token controller can move between them. x tries
every handler with every parameter.

### Fairness

No run assumes fairness and no liveness property is checked. Whether
`withdraw`, `gateway_burn` or `gateway_mint` ever runs depends on users
submitting them, so fairness on those actions is not justified. The one
progress the cluster guarantees, the slot clock advancing, only makes
expiry guards (`require_gte!` on `max_block_height`) eventually false, and
a property about that restates the guard.

## Plan

1. Done: GatewayWallet and GatewayMinter, with the runs above.
2. Done: **replay registry refinement.** Write an abstract `UsedHashRegistry` (a set
   that only grows, with check-and-insert). Then write a detailed account
   model from `create_used_transfer_spec_hash_account`: lamports, a pre-funded
   PDA, and the allocate/assign steps. Show that the detailed model
   implements the abstract one using `INSTANCE ... WITH`, with the abstract
   spec as a PROPERTY.
3. Done: **MintAttestation iterator**, with the steps as actions and the
   input chosen in Init, checked against `encode_attestation`; and the
   BurnData decoding, checked against the documented layout.
4. Done: **width-bounded arithmetic** for `value + fee`, under both build
   profiles (runs burn_charge and burn_charge_wrap).
5. Done: **wallet token list** (`add_token` and the token-supported guard).
   The wallet's pause flag has no handler in the repository.
6. Done: **administration** of both programs. The minter's is checked
   against an untrusted signer; the wallet's owner is a constant, so its
   role updates are modelled as actions but no property is stated.
7. Done: **EVM signature recovery** as a byte-level model that refines
   the signer-set promise.

## Not modelled

- Cryptography itself: keccak, the secp256k1 curve arithmetic (a constant
  recovery table in EvmSignatureRecovery) and Ed25519. The EIP-191 prefixing
  in `ethereum_signed_message_hash` is a hash input with no control flow.
- Events and logging (`events.rs`), error codes (`error.rs`) and the
  program entry points (`lib.rs`), which only dispatch to the handlers.
- The Ed25519 descriptor codec as a module of its own. `verify_user_signature`
  compares every field of the 16-byte header with a constant or with the
  current instruction index. A module of it would only restate that
  conjunction. What it achieves, which key the precompile checked, is
  `PublicKeyOffsets` in GatewayWallet. The one field computed from the data,
  `message_data_size`, is in BurnDataCodec together with its u16 cast.
- Rent and lamports, apart from the planned registry refinement.
- Handlers declared in `lib.rs` / `instructions.rs` whose files are not in
  the repository. In the wallet these are `transfer_ownership`,
  `accept_ownership`, `pause`, `unpause`, `add_burn_signer` and
  `update_withdrawal_delay`. In the minter they are `update_pauser`,
  `unpause` and `remove_attester`. The ones that only widen behaviour
  (`add_burn_signer`, `unpause`, `remove_attester`) are modelled with no
  authority check. The others leave their state at what `initialize`
  set.
