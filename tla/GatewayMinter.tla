--------------------------- MODULE GatewayMinter ---------------------------
(***************************************************************************)
(* The gateway-minter program (programs/gateway-minter).  gateway_mint     *)
(* verifies an attester's ECDSA signature over a mint attestation set,     *)
(* checks its header, then walks its elements; for each one it claims the  *)
(* element's transfer_spec_hash in a UsedTransferSpecHash PDA and moves    *)
(* value tokens out of the minter's custody to the recipient.  The         *)
(* transaction is atomic: one failing element aborts all of them.          *)
(*                                                                         *)
(* An attestation set is a record whose elements are a sequence; which     *)
(* sets attesters signed is the constant Attestations.  Input that fails   *)
(* to decode, or names another domain, contract or version, aborts and is  *)
(* not enumerated.                                                         *)
(*                                                                         *)
(* Authority.  initialize makes the upgrade authority owner, pauser and    *)
(* token controller.  Every handler takes a signer from Keys; Untrusted     *)
(* keys act arbitrarily, trusted signers only appoint trusted keys (or     *)
(* Pubkey::default()), as in an honest administration.  update_pauser,     *)
(* unpause and remove_attester are declared in instructions.rs but their   *)
(* files are not in the repository: update_pauser is left out (the pauser  *)
(* stays the upgrade authority) and the other two are modelled without an  *)
(* authority check, which allows every behaviour a check would.            *)
(***************************************************************************)
EXTENDS Naturals, FiniteSets, Sequences

CONSTANTS
  AttesterKeys,        \* EVM keys that may sign attestations
  InitialAttesters,    \* GatewayMinter.enabled_attesters after set-up
  MaxAttesters,        \* MAX_ATTESTERS
  Callers,             \* keys that may submit (sign) a gateway_mint
  Keys,                \* Solana keys that may sign administrative instructions
  Untrusted,           \* those of Keys that act arbitrarily
  UntrustedAttesters,  \* attester keys no trusted owner enables
  UpgradeAuthority,    \* the program's upgrade authority, which initializes it
  ZeroKey,             \* Pubkey::default(), the wildcard destination_caller
  Tokens,              \* token mints
  MaxSupportedTokens,  \* MAX_SUPPORTED_TOKENS
  MaxCustody,          \* bound on a custody balance (model bound)
  FundAmounts,         \* amounts transferred into custody by anyone
  Recipients,          \* destination token accounts
  Hashes,              \* transfer spec hashes
  Attestations,        \* attestation sets signed by some attester
  BurnAmounts,         \* amounts offered to burn_token_custody
  MaxSlot              \* bound on the slot clock

ASSUME InitialAttesters \subseteq AttesterKeys
ASSUME ZeroKey \notin Callers \cup Keys
ASSUME UpgradeAuthority \in Keys \ Untrusted
ASSUME InitialAttesters \cap UntrustedAttesters = {}

Elements == [token: Tokens, recipient: Recipients, value: Nat, hash: Hashes]

ASSUME \A a \in Attestations :
         /\ a.signer \in AttesterKeys
         /\ a.maxBlockHeight \in Nat
         /\ a.destinationCaller \in Callers \cup {ZeroKey}
         /\ a.elements \in Seq(Elements)

VARIABLES
  slot,        \* Clock::get().slot
  owner,            \* GatewayMinter.owner
  pending_owner,    \* GatewayMinter.pending_owner
  token_controller, \* GatewayMinter.token_controller
  attesters,   \* GatewayMinter.enabled_attesters
  paused,      \* GatewayMinter.paused
  supported,   \* GatewayMinter.supported_tokens
  used,        \* transfer spec hashes whose PDA carries the discriminator
  custody,     \* custody token account balance per token
  received,    \* recipient token account balances
  mintCount    \* history: how many mints each transfer spec hash produced

roles == <<owner, pending_owner, token_controller>>

vars == <<slot, roles, attesters, paused, supported, used, custody, received, mintCount>>

-----------------------------------------------------------------------------
(* The element loop of gateway_mint, threaded through the state it        *)
(* changes.  st.ok turns FALSE at the first failing element; the caller    *)
(* then discards st, as the runtime discards an aborted transaction.       *)

\* Variant that checks each hash against the registry as it was before
\* the transaction, missing hashes claimed by earlier elements.
process_used_transfer_spec_hash_snapshot(e, st) == e.hash \notin used

\* gateway_mint::process_used_transfer_spec_hash: the PDA must not carry
\* the discriminator yet, then is created with it.
process_used_transfer_spec_hash(e, st) == e.hash \notin st.used

\* One pass of the `while attestation.next()?` body.
ElementOK(e, st) ==
  /\ process_used_transfer_spec_hash(e, st)
  /\ e.token \in supported
  /\ e.value > 0
  /\ st.custody[e.token] >= e.value

MintElement(e, st) ==
  [st EXCEPT !.used      = @ \cup {e.hash},
             !.custody   = [@ EXCEPT ![e.token] = @ - e.value],
             !.received  = [@ EXCEPT ![<<e.recipient, e.token>>] = @ + e.value],
             !.mintCount = [@ EXCEPT ![e.hash] = @ + 1]]

RECURSIVE ProcessElements(_, _)
ProcessElements(elems, st) ==
  IF elems = <<>> \/ ~st.ok THEN st
  ELSE IF ElementOK(Head(elems), st)
       THEN ProcessElements(Tail(elems), MintElement(Head(elems), st))
       ELSE [st EXCEPT !.ok = FALSE]

\* GatewayMinter::verify_attestation_signature: the recovered key is an
\* enabled attester.
verify_attestation_signature(a) == a.signer \in attesters

\* require_gte!(max_block_height, Clock::get()?.slot): the set is valid up
\* to and including that slot.
NotExpired(a) == a.maxBlockHeight >= slot

\* A destination_caller other than Pubkey::default() must be the key of
\* the destination_caller signer.
destination_caller_matches(a, caller) ==
  a.destinationCaller # ZeroKey => a.destinationCaller = caller

\* GatewayMinter.pauser: set to the upgrade authority by initialize; no
\* handler in the repository changes it.
pauser == UpgradeAuthority

-----------------------------------------------------------------------------
Init ==
  /\ slot = 0
  /\ owner = UpgradeAuthority
  /\ pending_owner = ZeroKey
  /\ token_controller = UpgradeAuthority
  /\ attesters = InitialAttesters
  /\ paused = FALSE
  /\ supported = {}
  /\ used = {}
  /\ custody = [t \in Tokens |-> 0]
  /\ received = [k \in Recipients \X Tokens |-> 0]
  /\ mintCount = [h \in Hashes |-> 0]

Tick ==
  /\ slot < MaxSlot
  /\ slot' = slot + 1
  /\ UNCHANGED <<roles, attesters, paused, supported, used, custody, received, mintCount>>

\* gateway_mint (gateway_mint.rs), submitted by caller for attestation a.
gateway_mint(a, caller) ==
  LET st0 == [ok |-> TRUE, used |-> used, custody |-> custody,
              received |-> received, mintCount |-> mintCount]
      st  == ProcessElements(a.elements, st0)
  IN
  /\ ~paused
  /\ verify_attestation_signature(a)
  /\ NotExpired(a)
  /\ destination_caller_matches(a, caller)
  /\ Len(a.elements) > 0
  /\ st.ok
  /\ used' = st.used
  /\ custody' = st.custody
  /\ received' = st.received
  /\ mintCount' = st.mintCount
  /\ UNCHANGED <<roles, slot, attesters, paused, supported>>

\* gateway_mint_with_params: the attestation bytes are rebuilt from the
\* parameters, with destination_caller either zero or the transaction's
\* caller, and then handed to gateway_mint.  The attester's signature only
\* verifies when the rebuilt set is the one it signed.
gateway_mint_with_params(a, caller, isDefaultCaller) ==
  /\ a.destinationCaller = IF isDefaultCaller THEN ZeroKey ELSE caller
  /\ gateway_mint(a, caller)

\* burn_token_custody: the token controller burns up to amount from the
\* custody account of a supported token.
burn_token_custody(s, t, amount) ==
  /\ s = token_controller
  /\ t \in supported
  /\ amount # 0
  /\ custody' = [custody EXCEPT ![t] = IF @ > amount THEN @ - amount ELSE 0]
  /\ UNCHANGED <<roles, slot, attesters, paused, supported, used, received, mintCount>>

\* GatewayMinter::add_token: nothing to do for a supported token, an error
\* at MAX_SUPPORTED_TOKENS, else the token is appended.
GatewayMinter_add_token(t) ==
  /\ t \in supported \/ Cardinality(supported) < MaxSupportedTokens
  /\ supported' = supported \cup {t}

\* add_token (add_token.rs), signed by the token controller; the custody
\* account is created if needed.
add_token(s, t) ==
  /\ s = token_controller
  /\ GatewayMinter_add_token(t)
  /\ UNCHANGED <<roles, slot, attesters, paused, used, custody, received, mintCount>>

\* Anyone may transfer tokens into a custody token account.
FundCustody(t, n) ==
  /\ t \in supported
  /\ custody[t] + n <= MaxCustody
  /\ custody' = [custody EXCEPT ![t] = @ + n]
  /\ UNCHANGED <<roles, slot, attesters, paused, supported, used, received, mintCount>>

\* GatewayMinter::add_attester: nothing to do for an enabled attester, an
\* error at MAX_ATTESTERS, else the attester is appended.
GatewayMinter_add_attester(k) ==
  /\ k \in attesters \/ Cardinality(attesters) < MaxAttesters
  /\ attesters' = attesters \cup {k}

\* GatewayMinter::remove_attester: nothing to do for an unknown key.
GatewayMinter_remove_attester(k) == attesters' = attesters \ {k}

\* add_attester (add_attester.rs): the owner enables a key other than
\* Pubkey::default().
add_attester(s, k) ==
  /\ s = owner
  /\ k # ZeroKey
  /\ GatewayMinter_add_attester(k)
  /\ UNCHANGED <<roles, slot, paused, supported, used, custody, received, mintCount>>

\* remove_attester: its handler file is not in the repository; no
\* authority check is assumed.
remove_attester(s, k) ==
  /\ GatewayMinter_remove_attester(k)
  /\ UNCHANGED <<roles, slot, paused, supported, used, custody, received, mintCount>>

\* pause (pause.rs), signed by the pauser, and unpause, whose handler file
\* is not in the repository and is taken with no authority check.
pause(s) ==
  /\ s = pauser
  /\ paused' = TRUE
  /\ UNCHANGED <<roles, slot, attesters, supported, used, custody, received, mintCount>>

unpause ==
  /\ paused' = FALSE
  /\ UNCHANGED <<roles, slot, attesters, supported, used, custody, received, mintCount>>

\* Variant of transfer_ownership without has_one = owner.
transfer_ownership_any_signer(s, k) == /\ pending_owner' = k /\ UNCHANGED <<owner, token_controller, slot, attesters, paused, supported, used, custody, received, mintCount>>

\* transfer_ownership: the owner nominates any key, Pubkey::default()
\* included, as pending owner.
transfer_ownership(s, k) ==
  /\ s = owner
  /\ pending_owner' = k
  /\ UNCHANGED <<owner, token_controller, slot, attesters, paused, supported, used, custody, received, mintCount>>

\* accept_ownership: the pending owner signs, becomes owner and the
\* nomination is cleared.
accept_ownership(s) ==
  /\ s = pending_owner
  /\ owner' = pending_owner
  /\ pending_owner' = ZeroKey
  /\ UNCHANGED <<token_controller, slot, attesters, paused, supported, used, custody, received, mintCount>>

\* update_token_controller: the owner sets a key other than
\* Pubkey::default().
update_token_controller(s, k) ==
  /\ s = owner
  /\ k # ZeroKey
  /\ token_controller' = k
  /\ UNCHANGED <<owner, pending_owner, slot, attesters, paused, supported, used, custody, received, mintCount>>

\* The keys a signer may name: an untrusted one any, a trusted one only
\* trusted keys; Pubkey::default() is always a possible parameter.
Appointees(s) == (IF s \in Untrusted THEN Keys ELSE Keys \ Untrusted) \cup {ZeroKey}

AttesterChoices(s) ==
  (IF s \in Untrusted THEN AttesterKeys ELSE AttesterKeys \ UntrustedAttesters)
    \cup {ZeroKey}

Next ==
  \/ Tick
  \/ \E a \in Attestations, c \in Callers : gateway_mint(a, c)
  \/ \E a \in Attestations, c \in Callers, b \in BOOLEAN :
       gateway_mint_with_params(a, c, b)
  \/ \E t \in Tokens, n \in FundAmounts : FundCustody(t, n)
  \/ unpause
  \/ \E s \in Keys :
       \/ \E t \in Tokens, n \in BurnAmounts : burn_token_custody(s, t, n)
       \/ \E t \in Tokens : add_token(s, t)
       \/ \E k \in AttesterChoices(s) : add_attester(s, k) \/ remove_attester(s, k)
       \/ pause(s)
       \/ \E k \in Appointees(s) :
            transfer_ownership(s, k) \/ update_token_controller(s, k)
       \/ accept_ownership(s)

Spec == Init /\ [][Next]_vars

-----------------------------------------------------------------------------
\* Each transfer spec hash pays out at most once, across every attestation
\* set that carries it and within one set: the UsedTransferSpecHash PDA
\* written by process_used_transfer_spec_hash for an earlier element must
\* stop a later element, or a later transaction, with the same hash.
TransferSpecMintedOnce == \A h \in Hashes : mintCount[h] <= 1

\* No sequence of instructions, untrusted signers' included, puts an
\* untrusted key in charge: the owner and the token controller stay trusted
\* across the two-step hand-over of transfer_ownership and
\* accept_ownership and through update_token_controller, and add_attester
\* never enables an untrusted attester key.
AdministrationNeverCaptured ==
  /\ {owner, token_controller} \cap Untrusted = {}
  /\ attesters \cap UntrustedAttesters = {}
=============================================================================
