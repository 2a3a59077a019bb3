-------------------- MODULE UsedTransferSpecHashAccounts --------------------
(***************************************************************************)
(* The replay registry as the accounts it is made of (shared/src/lib.rs).  *)
(* Each hash has a PDA.  Anyone may send lamports to it at any time; only  *)
(* the program can sign for it.  A claim is is_transfer_spec_hash_used     *)
(* followed by create_used_transfer_spec_hash_account, inside one          *)
(* instruction: if any system-program call fails, nothing changes.         *)
(*                                                                         *)
(* The system program's rules, as the calls rely on them:                  *)
(*  create_account fails on an account that already holds lamports;        *)
(*  allocate needs a system-owned account without data; assign needs a     *)
(*  system-owned account; only the owner may write an account's data.     *)
(***************************************************************************)
EXTENDS Naturals

CONSTANTS
  Hashes,
  Rent,            \* Rent::minimum_balance(USED_TRANSFER_SPEC_HASH_ACCOUNT_SPACE)
  Space,           \* USED_TRANSFER_SPEC_HASH_ACCOUNT_SPACE (= DISCRIMINATOR_SIZE)
  Lamports,        \* amounts a third party may send to a PDA
  MaxLamports      \* balances from here up are one value: the code only
                   \* compares a balance with 0 and with Rent

ASSUME Rent \in Nat \ {0} /\ Space \in Nat \ {0} /\ MaxLamports > Rent

VARIABLES
  lamports,   \* hash_account.lamports()
  owner,      \* "System" or "Program"
  space,      \* data length
  marked,     \* the first DISCRIMINATOR_SIZE bytes hold the discriminator
  claims      \* history: successful claims per hash

vars == <<lamports, owner, space, marked, claims>>

\* Variant that takes any account holding lamports for a used one.
is_transfer_spec_hash_used_exists(h) == lamports[h] # 0

\* is_transfer_spec_hash_used: data.len() >= DISCRIMINATOR_SIZE and the
\* first bytes are the discriminator.
is_transfer_spec_hash_used(h) == space[h] >= Space /\ marked[h]

Failed == [ok |-> FALSE, lamports |-> 0, owner |-> "System", space |-> 0,
           marked |-> FALSE]

\* The outcome of create_used_transfer_spec_hash_account: ok, and the
\* account it leaves.
\* A fresh account takes the create_account path; a pre-funded one is
\* topped up to rent, allocated and assigned.  The discriminator is then
\* written by the new owner.
\* Variant that always calls create_account, as if no one could have sent
\* lamports to the PDA first.
create_used_transfer_spec_hash_account_always_create(h) ==
  IF lamports[h] # 0 THEN Failed
  ELSE [ok |-> TRUE, lamports |-> Rent, owner |-> "Program", space |-> Space, marked |-> TRUE]

create_used_transfer_spec_hash_account(h) ==
  IF lamports[h] = 0
  THEN [ok |-> TRUE, lamports |-> Rent, owner |-> "Program", space |-> Space, marked |-> TRUE]
  ELSE IF space[h] # 0 \/ owner[h] # "System" THEN Failed
  ELSE [ok |-> TRUE, lamports |-> IF lamports[h] < Rent THEN Rent ELSE lamports[h],
        owner |-> "Program", space |-> Space, marked |-> TRUE]

Init ==
  /\ lamports = [h \in Hashes |-> 0]
  /\ owner = [h \in Hashes |-> "System"]
  /\ space = [h \in Hashes |-> 0]
  /\ marked = [h \in Hashes |-> FALSE]
  /\ claims = [h \in Hashes |-> 0]

\* Anyone transfers lamports to the PDA (no signature of the PDA needed).
Fund(h, n) ==
  /\ lamports' = [lamports EXCEPT ![h] =
                    IF @ + n < MaxLamports THEN @ + n ELSE MaxLamports]
  /\ UNCHANGED <<owner, space, marked, claims>>

\* The replay check and account creation of gateway_burn and of
\* gateway_mint's process_used_transfer_spec_hash.
Claim(h) ==
  LET acct == create_used_transfer_spec_hash_account(h) IN
  /\ ~is_transfer_spec_hash_used(h)
  /\ acct.ok
  /\ lamports' = [lamports EXCEPT ![h] = acct.lamports]
  /\ owner' = [owner EXCEPT ![h] = acct.owner]
  /\ space' = [space EXCEPT ![h] = acct.space]
  /\ marked' = [marked EXCEPT ![h] = acct.marked]
  /\ claims' = [claims EXCEPT ![h] = @ + 1]

Next ==
  \/ \E h \in Hashes, n \in Lamports : Fund(h, n)
  \/ \E h \in Hashes : Claim(h)

Spec == Init /\ [][Next]_vars

-----------------------------------------------------------------------------
\* No one can block a hash by sending lamports to its PDA before it is
\* used: while a hash is unused, create_used_transfer_spec_hash_account
\* succeeds on its account, whatever balance it was given.
ClaimableWhenUnused ==
  \A h \in Hashes :
    ~is_transfer_spec_hash_used(h) =>
      create_used_transfer_spec_hash_account(h).ok

\* The accounts implement the abstract registry: the used set is the set of
\* hashes whose PDA reads as used, and a claim is an abstract Claim.
Registry == INSTANCE UsedHashRegistry
  WITH used <- {h \in Hashes : is_transfer_spec_hash_used(h)}

RegistryRefined == Registry!Spec
=============================================================================
