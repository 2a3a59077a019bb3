--------------------------- MODULE GatewayWallet ---------------------------
(***************************************************************************)
(* The gateway-wallet program (programs/gateway-wallet).  One Solana       *)
(* transaction runs one instruction to completion or aborts it with no     *)
(* state change, so every handler is one atomic action whose guard is the  *)
(* conjunction of the handler's `require!`s and account constraints, in    *)
(* the order the code evaluates them.  Checks that only reject malformed   *)
(* or mis-addressed input (magic numbers, prefix, version, domain,         *)
(* contract, PDA addresses) abort the transaction; the model does not      *)
(* enumerate such input, which is the same as the action being disabled.  *)
(*                                                                         *)
(* State kept on chain and modelled here:                                  *)
(*   GatewayDeposit accounts      -> deposits, depositExists               *)
(*   GatewayDelegate accounts     -> delegates (absent = "Unauthorized")   *)
(*   Denylist accounts            -> denylisted                            *)
(*   GatewayWallet.burn_signers   -> burnSigners                           *)
(*   GatewayWallet.supported_tokens -> supported                           *)
(*   UsedTransferSpecHash PDAs    -> used                                  *)
(*   custody token accounts       -> custody                               *)
(*   Clock::get().slot            -> slot                                  *)
(*   GatewayWallet.pauser, denylister, token_controller, fee_recipient    *)
(*                                -> the variables of the same names       *)
(* History variables for the properties: initiatedAt, burns, burnCount.  *)
(*                                                                         *)
(* Authority.  initialize makes the upgrade authority owner and every      *)
(* role. Administrative handlers take a signer from AdminKeys and name any *)
(* admin key or Pubkey::default().  transfer_ownership, accept_ownership,  *)
(* pause, unpause, add_burn_signer and update_withdrawal_delay are         *)
(* declared in lib.rs but their handler files are not in the repository:   *)
(* the owner stays the upgrade authority, paused stays FALSE (so the       *)
(* !paused constraints always hold), and add_burn_signer is taken with no  *)
(* authority check.                                                        *)
(***************************************************************************)
EXTENDS Naturals, FiniteSets, Sequences, FiniteSetsExt

CONSTANTS
  Depositors,          \* keys that own GatewayDeposit accounts
  Delegates,           \* further keys that only ever act as delegates
  Tokens,              \* token mints
  Hashes,              \* transfer spec hashes (keccak of the TransferSpec)
  BurnSignerKeys,      \* EVM keys that may sign burn data
  InitialBurnSigners,  \* GatewayWallet.burn_signers after set-up
  MaxBurnSigners,      \* MAX_BURN_SIGNERS
  MaxSupportedTokens,  \* MAX_SUPPORTED_TOKENS
  WithdrawalDelay,     \* GatewayWallet.withdrawal_delay (> 0, initialize.rs)
  MaxSlot,             \* bound on the slot clock
  MaxBalance,          \* bound on a deposit's total balance
  Amounts,             \* deposit / withdrawal amounts offered
  TransferSpecValue,   \* TransferSpec.value of each transfer spec hash
  Fees,                \* BurnData.fee offered
  MaxFees,             \* BurnIntent.max_fee offered
  MaxBlockHeights,     \* BurnIntent.max_block_height offered
  DenylistKeys,        \* keys the denylister acts on
  U64Bits,             \* width of u64, scaled
  OverflowChecks,      \* build profile: u64 overflow panics (TRUE) or wraps
  AdminKeys,           \* Solana keys that may sign administrative instructions
  UpgradeAuthority,    \* the program's upgrade authority, which initializes it
  ZeroKey              \* Pubkey::default()

ASSUME WithdrawalDelay \in Nat \ {0}
ASSUME InitialBurnSigners \subseteq BurnSignerKeys
ASSUME Depositors \cap Delegates = {}
ASSUME TransferSpecValue \in [Hashes -> Nat \ {0}]
ASSUME OverflowChecks \in BOOLEAN
ASSUME UpgradeAuthority \in AdminKeys
ASSUME ZeroKey \notin AdminKeys

U64Max == 2^U64Bits

Keys == Depositors \cup Delegates

\* DelegateStatus (state.rs).  A delegate account that does not exist is
\* modelled as "Unauthorized": the enum's first variant, "never authorized".
DelegateStatus == {"Unauthorized", "Authorized", "Revoked"}

\* Where the Ed25519 precompile instruction points its public-key offset:
\* at the TransferSpec's source_signer field, or at any other 32 bytes of
\* the transaction that the submitter chose.
PublicKeyOffsets == {"SourceSigner", "Elsewhere"}

NoDelegateAccount == <<>>

\* The hash is keccak of the TransferSpec, which carries the value; the
\* fee lies outside it, in the burn data.
BurnIntents ==
  {i \in [hash: Hashes, depositor: Depositors, signer: Keys, token: Tokens,
          value: {TransferSpecValue[h] : h \in Hashes}, fee: Fees,
          maxFee: MaxFees, maxBlockHeight: MaxBlockHeights] :
     i.value = TransferSpecValue[i.hash]}

VARIABLES
  supported, slot, deposits, depositExists, delegates, denylisted, burnSigners,
  used, custody, initiatedAt, burns, burnCount,
  pauser, denylister, token_controller, fee_recipient

roles == <<pauser, denylister, token_controller, fee_recipient>>

vars == <<roles, supported, slot, deposits, depositExists, delegates, denylisted, burnSigners,
          used, custody, initiatedAt, burns, burnCount>>

DepositRecord ==
  [available: Nat, withdrawing: Nat, withdrawalBlock: Nat]

-----------------------------------------------------------------------------
(* Helpers translated from state.rs and utils.rs.                          *)

\* GatewayDelegate::was_ever_authorized_for_balance
was_ever_authorized_for_balance(status, depositor, addr) ==
  addr = depositor \/ status # "Unauthorized"

\* Variant without the delegate account's depositor check.
validate_signer_authorization_any_depositor(source_signer, source_depositor, dacct) ==
  \/ source_signer = source_depositor
  \/ /\ dacct # NoDelegateAccount
     /\ dacct[3] = source_signer
     /\ was_ever_authorized_for_balance(delegates[dacct], source_depositor,
                                        source_signer)

\* utils::validate_signer_authorization.  dacct is the optional delegate
\* account <<token, depositor, delegate>> passed to gateway_burn.
validate_signer_authorization(source_signer, source_depositor, dacct) ==
  \/ source_signer = source_depositor
  \/ /\ dacct # NoDelegateAccount
     /\ dacct[2] = source_depositor
     /\ dacct[3] = source_signer
     /\ was_ever_authorized_for_balance(delegates[dacct], source_depositor,
                                        source_signer)

\* Variant whose last branch forgets to zero the withdrawing balance.
reduce_balance_keep_withdrawing(dep, value) ==
  LET available   == dep.available
      needed      == value - available
      withdrawing == dep.withdrawing
  IN  IF available >= value
      THEN [deposit |-> [dep EXCEPT !.available = available - value],
            fromAvailable |-> value, fromWithdrawing |-> 0]
      ELSE IF withdrawing >= needed
      THEN [deposit |-> [dep EXCEPT !.available = 0,
                                    !.withdrawing = withdrawing - needed],
            fromAvailable |-> available, fromWithdrawing |-> needed]
      ELSE [deposit |-> [dep EXCEPT !.available = 0],
            fromAvailable |-> available, fromWithdrawing |-> withdrawing]

\* GatewayDeposit::reduce_balance: the deposit after taking value, first
\* from available then from withdrawing, and the two amounts taken.  A
\* shortfall is not an error: it returns what could be taken.
reduce_balance(dep, value) ==
  LET available   == dep.available
      needed      == value - available
      withdrawing == dep.withdrawing
  IN  IF available >= value
      THEN [deposit |-> [dep EXCEPT !.available = available - value],
            fromAvailable |-> value, fromWithdrawing |-> 0]
      ELSE IF withdrawing >= needed
      THEN [deposit |-> [dep EXCEPT !.available = 0,
                                    !.withdrawing = withdrawing - needed],
            fromAvailable |-> available, fromWithdrawing |-> needed]
      ELSE [deposit |-> [dep EXCEPT !.available = 0, !.withdrawing = 0],
            fromAvailable |-> available, fromWithdrawing |-> withdrawing]

\* GatewayWallet::is_token_supported.  get_custody_token_account_bump, which
\* the custody account constraints of deposit_for, withdraw and gateway_burn
\* call, fails with TokenNotSupported for the same tokens.
is_token_supported(t) == t \in supported

\* Variant that never sees the discriminator of a used account.
is_transfer_spec_hash_used_never(h) == FALSE

\* gateway_shared::is_transfer_spec_hash_used: the PDA of the hash carries
\* the UsedTransferSpecHash discriminator.
is_transfer_spec_hash_used(h) == h \in used

\* The Ed25519 precompile succeeds when the key it is pointed at signed the
\* message; pointed elsewhere, it checks whatever key the submitter placed
\* there, so any signer passes.  This assumes gateway_burn is the top-level
\* instruction: load_current_index_checked names the transaction's
\* instruction, so under a CPI the "previous instruction" check refers to
\* the caller's neighbour, and only the burn signer's signature over burn
\* data that embeds the user's signature bytes protects the user.
Ed25519Verified(i, signedBy, pkOffset) ==
  pkOffset = "SourceSigner" => signedBy = i.signer

\* gateway_burn::verify_user_signature: every offset of the precompile's
\* descriptor must be the expected one, the public key at source_signer.
verify_user_signature(pkOffset) == pkOffset = "SourceSigner"

\* GatewayWallet.owner: set to the upgrade authority by initialize; no
\* handler in the repository changes it.
owner == UpgradeAuthority

-----------------------------------------------------------------------------
Init ==
  /\ pauser = UpgradeAuthority
  /\ denylister = UpgradeAuthority
  /\ token_controller = UpgradeAuthority
  /\ fee_recipient = UpgradeAuthority
  /\ supported = {}
  /\ slot = 0
  /\ deposits = [k \in Depositors \X Tokens |->
                   [available |-> 0, withdrawing |-> 0, withdrawalBlock |-> 0]]
  /\ depositExists = {}
  /\ delegates = [k \in Tokens \X Depositors \X Delegates |-> "Unauthorized"]
  /\ denylisted = {}
  /\ burnSigners = InitialBurnSigners
  /\ used = {}
  /\ custody = [t \in Tokens |-> 0]
  /\ initiatedAt = [k \in Depositors \X Tokens |-> 0]
  /\ burns = {}
  /\ burnCount = [h \in Hashes |-> 0]

\* The cluster produces the next slot.
Tick ==
  /\ slot < MaxSlot
  /\ slot' = slot + 1
  /\ UNCHANGED <<roles, supported, deposits, depositExists, delegates, denylisted, burnSigners,
                 used, custody, initiatedAt, burns, burnCount>>

\* GatewayDeposit::initialize_if_needed: the first deposit creates the record.
initialize_if_needed(k) == depositExists' = depositExists \cup {k}

\* GatewayDeposit::deposit: a positive amount is added to available.
deposit(k, amount) ==
  /\ amount > 0
  /\ deposits' = [deposits EXCEPT ![k].available = @ + amount]

\* GatewayDeposit::complete_withdrawal: the whole withdrawing balance is
\* paid out and the timer cleared.
complete_withdrawal(k) ==
  deposits' = [deposits EXCEPT ![k].withdrawing = 0, ![k].withdrawalBlock = 0]

\* deposit_for (deposit_for.rs) with GatewayDeposit::initialize_if_needed
\* and GatewayDeposit::deposit: the sender's tokens move into custody and
\* the depositor's available balance grows.  MaxBalance bounds the model:
\* no deposit is offered that would take its total balance above it.
deposit_for(sender, depositor, t, amount) ==
  /\ is_token_supported(t)
  /\ sender \notin denylisted
  /\ depositor \notin denylisted
  /\ deposits[<<depositor, t>>].available
       + deposits[<<depositor, t>>].withdrawing + amount <= MaxBalance
  /\ initialize_if_needed(<<depositor, t>>)
  /\ deposit(<<depositor, t>>, amount)
  /\ custody' = [custody EXCEPT ![t] = @ + amount]
  /\ UNCHANGED <<roles, supported, slot, delegates, denylisted, burnSigners, used, initiatedAt,
                 burns, burnCount>>

\* Variant without the check that amount is covered by the available balance.
initiate_withdrawal_unchecked(d, t, amount) ==
  /\ is_token_supported(t)
  /\ <<d, t>> \in depositExists
  /\ amount > 0
  /\ deposits' = [deposits EXCEPT ![<<d, t>>] =
                    [available       |-> @.available - amount,
                     withdrawing     |-> @.withdrawing + amount,
                     withdrawalBlock |-> slot + WithdrawalDelay]]
  /\ initiatedAt' = [initiatedAt EXCEPT ![<<d, t>>] = slot]
  /\ UNCHANGED <<roles, supported, slot, depositExists, delegates, denylisted, burnSigners,
                 used, custody, burns, burnCount>>

\* Variant that starts the timer only when nothing is withdrawing yet.
initiate_withdrawal_keep_timer(d, t, amount) ==
  /\ is_token_supported(t)
  /\ <<d, t>> \in depositExists
  /\ amount > 0
  /\ amount <= deposits[<<d, t>>].available
  /\ deposits' = [deposits EXCEPT ![<<d, t>>] =
                    [available       |-> @.available - amount,
                     withdrawing     |-> @.withdrawing + amount,
                     withdrawalBlock |-> IF @.withdrawing = 0
                                         THEN slot + WithdrawalDelay
                                         ELSE @.withdrawalBlock]]
  /\ initiatedAt' = [initiatedAt EXCEPT ![<<d, t>>] = slot]
  /\ UNCHANGED <<roles, supported, slot, depositExists, delegates, denylisted, burnSigners,
                 used, custody, burns, burnCount>>

\* initiate_withdrawal (initiate_withdrawal.rs, GatewayDeposit::
\* initiate_withdrawal): moves amount to withdrawing and restarts the one
\* timer of the whole withdrawing balance.
initiate_withdrawal(d, t, amount) ==
  /\ is_token_supported(t)
  /\ <<d, t>> \in depositExists
  /\ amount > 0
  /\ amount <= deposits[<<d, t>>].available
  /\ deposits' = [deposits EXCEPT ![<<d, t>>] =
                    [available       |-> @.available - amount,
                     withdrawing     |-> @.withdrawing + amount,
                     withdrawalBlock |-> slot + WithdrawalDelay]]
  /\ initiatedAt' = [initiatedAt EXCEPT ![<<d, t>>] = slot]
  /\ UNCHANGED <<roles, supported, slot, depositExists, delegates, denylisted, burnSigners,
                 used, custody, burns, burnCount>>

\* withdraw (withdrawal.rs, GatewayDeposit::complete_withdrawal): pays the
\* whole withdrawing balance out of custody once the delay has elapsed.
withdraw(d, t) ==
  /\ is_token_supported(t)
  /\ <<d, t>> \in depositExists
  /\ deposits[<<d, t>>].withdrawing > 0
  /\ slot >= deposits[<<d, t>>].withdrawalBlock
  /\ custody' = [custody EXCEPT ![t] = @ - deposits[<<d, t>>].withdrawing]
  /\ complete_withdrawal(<<d, t>>)
  /\ UNCHANGED <<roles, supported, slot, depositExists, delegates, denylisted, burnSigners,
                 used, initiatedAt, burns, burnCount>>

\* add_delegate (add_delegate.rs): init_if_needed, then status := Authorized
\* whatever the account held before.
add_delegate(d, t, k) ==
  /\ is_token_supported(t)
  /\ k # d
  /\ d \notin denylisted
  /\ k \notin denylisted
  /\ delegates' = [delegates EXCEPT ![<<t, d, k>>] = "Authorized"]
  /\ UNCHANGED <<roles, supported, slot, deposits, depositExists, denylisted, burnSigners,
                 used, custody, initiatedAt, burns, burnCount>>

\* remove_delegate (remove_delegate.rs): the account must exist; an account
\* already Revoked returns Ok without a change, so only Authorized moves.
remove_delegate(d, t, k) ==
  /\ is_token_supported(t)
  /\ delegates[<<t, d, k>>] # "Unauthorized"
  /\ d \notin denylisted
  /\ delegates[<<t, d, k>>] = "Authorized"
  /\ delegates' = [delegates EXCEPT ![<<t, d, k>>] = "Revoked"]
  /\ UNCHANGED <<roles, supported, slot, deposits, depositExists, denylisted, burnSigners,
                 used, custody, initiatedAt, burns, burnCount>>

\* denylist / undenylist (denylist.rs, undenylist.rs): the denylister
\* creates or closes the Denylist PDA of a key; undenylist needs the
\* account to exist.
denylist(s, a) ==
  /\ s = denylister
  /\ denylisted' = denylisted \cup {a}
  /\ UNCHANGED <<roles, supported, slot, deposits, depositExists, delegates, burnSigners, used,
                 custody, initiatedAt, burns, burnCount>>

undenylist(s, a) ==
  /\ s = denylister
  /\ a \in denylisted
  /\ denylisted' = denylisted \ {a}
  /\ UNCHANGED <<roles, supported, slot, deposits, depositExists, delegates, burnSigners, used,
                 custody, initiatedAt, burns, burnCount>>

\* GatewayWallet::add_token: nothing to do for a supported mint, an error
\* at MAX_SUPPORTED_TOKENS, else the mint is appended.
GatewayWallet_add_token(t) ==
  /\ t \in supported \/ Cardinality(supported) < MaxSupportedTokens
  /\ supported' = supported \cup {t}

\* add_token (add_token.rs): signed by the token controller; the custody
\* account is created if needed.
add_token(s, t) ==
  /\ s = token_controller
  /\ GatewayWallet_add_token(t)
  /\ UNCHANGED <<roles, slot, deposits, depositExists, delegates, denylisted,
                 burnSigners, used, custody, initiatedAt, burns, burnCount>>

\* GatewayWallet::is_burn_signer
is_burn_signer(k) == k \in burnSigners

\* GatewayWallet::add_burn_signer (state.rs); its instruction handler is
\* not in the repository.
add_burn_signer(k) ==
  /\ k \in burnSigners \/ Cardinality(burnSigners) < MaxBurnSigners
  /\ burnSigners' = burnSigners \cup {k}
  /\ UNCHANGED <<roles, supported, slot, deposits, depositExists, delegates, denylisted, used,
                 custody, initiatedAt, burns, burnCount>>

\* GatewayWallet::remove_burn_signer: nothing to do for an unknown key.
GatewayWallet_remove_burn_signer(k) == burnSigners' = burnSigners \ {k}

\* remove_burn_signer (remove_burn_signer.rs), signed by the owner.
remove_burn_signer(s, k) ==
  /\ s = owner
  /\ GatewayWallet_remove_burn_signer(k)
  /\ UNCHANGED <<roles, supported, slot, deposits, depositExists, delegates, denylisted, used,
                 custody, initiatedAt, burns, burnCount>>

\* The role updates (update_pauser.rs, update_denylister.rs,
\* update_token_controller.rs, update_fee_recipient.rs): the owner sets a
\* key other than Pubkey::default().
RoleUpdate(s, k) == s = owner /\ k # ZeroKey

Others == <<supported, slot, deposits, depositExists, delegates, denylisted,
            burnSigners, used, custody, initiatedAt, burns, burnCount>>

update_pauser(s, k) ==
  /\ RoleUpdate(s, k)
  /\ pauser' = k
  /\ UNCHANGED <<denylister, token_controller, fee_recipient, Others>>

update_denylister(s, k) ==
  /\ RoleUpdate(s, k)
  /\ denylister' = k
  /\ UNCHANGED <<pauser, token_controller, fee_recipient, Others>>

update_token_controller(s, k) ==
  /\ RoleUpdate(s, k)
  /\ token_controller' = k
  /\ UNCHANGED <<pauser, denylister, fee_recipient, Others>>

update_fee_recipient(s, k) ==
  /\ RoleUpdate(s, k)
  /\ fee_recipient' = k
  /\ UNCHANGED <<pauser, denylister, token_controller, Others>>

\* The keys a signer may name: any admin key, or Pubkey::default().
Appointees(s) == AdminKeys \cup {ZeroKey}

\* gateway_burn (gateway_burn.rs).  i is the decoded burn data, bs the key
\* recovered from the burn signature, signedBy the key that produced the
\* user's Ed25519 signature, pkOffset where the precompile read its public
\* key, dacct the optional delegate account.  The fee goes to the fee
\* recipient and the rest is burned, both out of custody.  value + fee is
\* u64 arithmetic: a checked build panics on overflow, otherwise it wraps.
gateway_burn(i, bs, signedBy, pkOffset, dacct) ==
  LET key      == <<i.depositor, i.token>>
      charge   == (i.value + i.fee) % U64Max
      reduced  == reduce_balance(deposits[key], charge)
      deducted == reduced.fromAvailable + reduced.fromWithdrawing
  IN
  /\ is_token_supported(i.token)
  /\ is_burn_signer(bs)
  /\ i.value > 0
  /\ Ed25519Verified(i, signedBy, pkOffset)
  /\ verify_user_signature(pkOffset)
  /\ i.maxBlockHeight >= slot
  /\ key \in depositExists
  /\ validate_signer_authorization(i.signer, i.depositor, dacct)
  /\ i.maxFee >= i.fee
  /\ OverflowChecks => i.value + i.fee < U64Max
  /\ custody[i.token] >= charge
  /\ ~is_transfer_spec_hash_used(i.hash)
  /\ charge > 0    \* reduce_balance: require_gt!(value, 0)
  /\ used' = used \cup {i.hash}
  /\ deposits' = [deposits EXCEPT ![key] = reduced.deposit]
  /\ custody' = [custody EXCEPT ![i.token] = @ - deducted]
  /\ burns' = burns \cup {[hash |-> i.hash, depositor |-> i.depositor,
                          signer |-> i.signer, signedBy |-> signedBy,
                          token |-> i.token]}
  /\ burnCount' = [burnCount EXCEPT ![i.hash] = @ + 1]
  /\ UNCHANGED <<roles, supported, slot, depositExists, delegates, denylisted, burnSigners,
                 initiatedAt>>

\* Delegate accounts that exist for a token, as gateway_burn may be given.
DelegateAccounts(t) ==
  {a \in {t} \X Depositors \X Delegates : delegates[a] # "Unauthorized"}

Next ==
  \/ Tick
  \/ \E s \in AdminKeys, t \in Tokens : add_token(s, t)
  \/ \E s \in Keys, d \in Depositors, t \in Tokens, a \in Amounts :
       deposit_for(s, d, t, a)
  \/ \E d \in Depositors, t \in Tokens, a \in Amounts :
       initiate_withdrawal(d, t, a)
  \/ \E d \in Depositors, t \in Tokens : withdraw(d, t)
  \/ \E d \in Depositors, t \in Tokens, k \in Delegates : add_delegate(d, t, k)
  \/ \E d \in Depositors, t \in Tokens, k \in Delegates : remove_delegate(d, t, k)
  \/ \E s \in AdminKeys, a \in DenylistKeys : denylist(s, a) \/ undenylist(s, a)
  \/ \E k \in BurnSignerKeys :
       \/ add_burn_signer(k)
       \/ \E s \in AdminKeys : remove_burn_signer(s, k)
  \/ \E s \in AdminKeys : \E k \in Appointees(s) :
       \/ update_pauser(s, k)
       \/ update_denylister(s, k)
       \/ update_token_controller(s, k)
       \/ update_fee_recipient(s, k)
  \/ \E i \in BurnIntents, bs \in BurnSignerKeys, signedBy \in Keys,
        pk \in PublicKeyOffsets :
       \E dacct \in DelegateAccounts(i.token) \cup {NoDelegateAccount} :
         gateway_burn(i, bs, signedBy, pk, dacct)

Spec == Init /\ [][Next]_vars

-----------------------------------------------------------------------------
TypeOK ==
  /\ {pauser, denylister, token_controller, fee_recipient} \subseteq AdminKeys
  /\ supported \subseteq Tokens
  /\ slot \in 0..MaxSlot
  /\ deposits \in [Depositors \X Tokens -> DepositRecord]
  /\ depositExists \subseteq Depositors \X Tokens
  /\ delegates \in [Tokens \X Depositors \X Delegates -> DelegateStatus]
  /\ denylisted \subseteq Keys
  /\ burnSigners \subseteq BurnSignerKeys
  /\ used \subseteq Hashes
  /\ custody \in [Tokens -> Nat]
  /\ initiatedAt \in [Depositors \X Tokens -> 0..MaxSlot]
  /\ burns \subseteq [hash: Hashes, depositor: Depositors, signer: Keys,
                      signedBy: Keys, token: Tokens]
  /\ burnCount \in [Hashes -> Nat]

\* Every token the custody account of a mint holds belongs to some deposit:
\* deposit_for, withdraw and gateway_burn (reduce_balance, then the fee
\* transfer and the burn) move the ledger and custody by the same amount.
CustodyMatchesDeposits ==
  \A t \in Tokens :
    custody[t] = MapThenSumSet(
                   LAMBDA d : deposits[<<d, t>>].available
                              + deposits[<<d, t>>].withdrawing,
                   Depositors)

\* A transfer spec is burned at most once, whatever fee, max_fee or expiry
\* the burn data around it carries: the UsedTransferSpecHash PDA written by
\* gateway_burn is checked before any balance moves.
TransferSpecBurnedOnce ==
  \A h \in Hashes : burnCount[h] <= 1

\* Every burn debits a depositor only on a user signature by the intent's
\* source_signer (the Ed25519 companion proof must point at that field),
\* and that signer is the depositor or a delegate the depositor authorized
\* for this token (validate_signer_authorization's account checks).
BurnAuthorizedByUser ==
  \A b \in burns :
    /\ b.signedBy = b.signer
    /\ \/ b.signer = b.depositor
       \/ delegates[<<b.token, b.depositor, b.signer>>] # "Unauthorized"

\* withdraw pays a withdrawing balance out only when WithdrawalDelay slots
\* have passed since the last initiate_withdrawal of that deposit, so funds
\* added to a pending withdrawal cannot ride on the earlier timer.
WithdrawalDelayRespected ==
  [][\A d \in Depositors, t \in Tokens :
       (deposits[<<d, t>>].withdrawalBlock # 0
        /\ deposits'[<<d, t>>].withdrawalBlock = 0)
       => slot >= initiatedAt[<<d, t>>] + WithdrawalDelay]_vars

\* A gateway_burn that consumes a transfer spec hash debits the depositor
\* value + fee for that transfer spec and a fee it may carry, or, on a
\* shortfall, everything the depositor had (reduce_balance's partial
\* deduction): the u64 sum passed to the custody check and reduce_balance
\* is the amount the intent asks for.
Balance(key, dep) == dep[key].available + dep[key].withdrawing

BurnChargedInFull ==
  [][\A b \in burns' \ burns :
       LET key == <<b.depositor, b.token>>
       IN  \/ Balance(key, deposits') = 0
           \/ \E f \in Fees :
                Balance(key, deposits) - Balance(key, deposits')
                  = TransferSpecValue[b.hash] + f]_vars

\* Spec section 3: a Delegate's status only advances
\* Unauthorized -> Authorized -> Revoked and never regresses.
StatusRank(s) == CASE s = "Unauthorized" -> 0
                   [] s = "Authorized"   -> 1
                   [] s = "Revoked"      -> 2

DelegateStatusNeverRegresses ==
  [][\A a \in DOMAIN delegates :
       StatusRank(delegates'[a]) >= StatusRank(delegates[a])]_vars

=============================================================================
