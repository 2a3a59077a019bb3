------------------------- MODULE EvmSignatureRecovery -------------------------
(* recover_evm_signer (shared lib.rs) and the two checks built on it,      *)
(* GatewayMinter::verify_attestation_signature and                         *)
(* GatewayWallet::verify_burn_signature.                                   *)
(*                                                                         *)
(* A 65-byte signature is abstracted to its fields: r and s as scalars     *)
(* below a scaled group order N (the value N stands for every 32-byte      *)
(* value >= n, which parse_standard_slice rejects), the recovery byte v,   *)
(* and the byte length.  The curve itself is the constant Owner:           *)
(* Owner[d, i, r, s] is the key secp256k1_recover returns for digest d,    *)
(* recovery id i and scalars r, s.  ECDSA malleability is its one law:     *)
(* (i, r, s) and (1 - i, r, N - s) recover the same key.                   *)
(*                                                                         *)
(* Honest keys sign digests with a nonce r and may return either of the    *)
(* two twins (a KMS does not normalise s).  Submitters know every          *)
(* signature that was produced and may change its length, its v byte and  *)
(* replace s by N - s; apart from that they only produce signatures that   *)
(* recover to their own keys or to no key: no one forges an honest key.  *)
EXTENDS Naturals

CONSTANTS
  Programs,     \* "mint" (gateway_mint) and "burn" (gateway_burn)
  Digests,      \* ethereum_signed_message_hash outputs handed to the check
  Keys,         \* EVM addresses, as Pubkeys with 12 zero bytes
  AttackerKeys, \* keys whose holders submit whatever they can build
  Attesters,    \* GatewayMinter.attesters
  BurnSigners,  \* GatewayWallet.burn_signers
  NoKey,        \* secp256k1_recover fails
  N,            \* the secp256k1 group order n, scaled (odd)
  Nonces,       \* the r values honest signers use
  Owner,        \* secp256k1_recover over valid scalars
  SigLengths,   \* signature byte lengths offered
  RecoveryBytes \* values of the last signature byte offered

Scalars == 1..(N - 1)
RecoveryIds == {0, 1}
HonestKeys == Keys \ AttackerKeys

ASSUME
  /\ N % 2 = 1
  /\ Nonces \subseteq Scalars
  /\ Owner \in [Digests \X RecoveryIds \X Scalars \X Scalars -> Keys \cup {NoKey}]
  /\ \A d \in Digests, i \in RecoveryIds, r, s \in Scalars :
        Owner[d, i, r, s] = Owner[d, 1 - i, r, N - s]
  /\ (Attesters \cup BurnSigners) \subseteq HonestKeys
  /\ 65 \in SigLengths /\ {27, 28} \subseteq RecoveryBytes

\* SIGNATURE_LENGTH, and the two programs' *_SIGNATURE_LENGTH
SIGNATURE_LENGTH == 65

\* A signature as the bytes the programs receive.
Signatures == [len : SigLengths, r : 0..N, s : 0..N, v : RecoveryBytes]

EvmSignatureError ==
  {"InvalidMessageHash", "InvalidSignatureLength", "InvalidRecoveryId",
   "InvalidSignature", "InvalidSignatureSValue"}

is_high_never(s) == FALSE
is_high_from_half(s) == s >= N \div 2

\* libsecp256k1 Scalar::is_high: s above n / 2
is_high(s) == s > N \div 2

\* secp256k1_recover: fails for a zero scalar or a recovery id above 1
\* (2 and 3 need r >= p - n, which no scaled scalar reaches).
secp256k1_recover(d, i, r, s) ==
  IF i \in RecoveryIds /\ r \in Scalars /\ s \in Scalars THEN Owner[d, i, r, s]
  ELSE NoKey

Err(e) == [ok |-> FALSE, key |-> NoKey, err |-> e]

\* recover_evm_signer: the checks in the order the code makes them.  The
\* message hash is always 32 bytes here (both callers pass a [u8; 32]).
recover_evm_signer(d, sig) ==
  IF sig.len # SIGNATURE_LENGTH THEN Err("InvalidSignatureLength")
  ELSE IF sig.v # 27 /\ sig.v # 28 THEN Err("InvalidRecoveryId")
  ELSE IF sig.r >= N \/ sig.s >= N THEN Err("InvalidSignature")
  ELSE IF is_high(sig.s) THEN Err("InvalidSignatureSValue")
  ELSE LET k == secp256k1_recover(d, sig.v - 27, sig.r, sig.s)
       IN IF k = NoKey THEN Err("InvalidSignature")
          ELSE [ok |-> TRUE, key |-> k, err |-> "none"]

verify_attestation_signature_any_key(d, sig) == sig.len = SIGNATURE_LENGTH /\ recover_evm_signer(d, sig).ok

verify_attestation_signature(d, sig) ==
  /\ sig.len = SIGNATURE_LENGTH
  /\ recover_evm_signer(d, sig).ok
  /\ recover_evm_signer(d, sig).key \in Attesters

verify_burn_signature(d, sig) ==
  /\ sig.len = SIGNATURE_LENGTH
  /\ recover_evm_signer(d, sig).ok
  /\ recover_evm_signer(d, sig).key \in BurnSigners

Verify(p, d, sig) ==
  IF p = "mint" THEN verify_attestation_signature(d, sig)
  ELSE verify_burn_signature(d, sig)

\* The key a well-formed signature belongs to, whatever the code checks.
SignerOf(d, sig) ==
  IF sig.v \in {27, 28} THEN secp256k1_recover(d, sig.v - 27, sig.r, sig.s)
  ELSE NoKey

\* The malleated twin of a signature.
Twin(sig) == [sig EXCEPT !.s = N - @, !.v = IF @ = 27 THEN 28 ELSE 27]

VARIABLES
  signed,       \* <<d, sig>>: a signature an honest key produced
  accepted      \* <<p, d, sig>>: a signature program p accepted

vars == <<signed, accepted>>

\* Whether a submitter can put sig in an instruction for digest d.
Buildable(d, sig) ==
  \/ SignerOf(d, sig) \notin HonestKeys
  \/ \E <<d0, sig0>> \in signed :
        d0 = d /\ sig.r = sig0.r /\ sig.s \in {sig0.s, N - sig0.s}

Init == signed = {} /\ accepted = {}

\* An honest key signs d with nonce r; the signer picks one of the twins.
Sign(k, d, r) ==
  /\ \E i \in RecoveryIds, s \in Scalars :
        /\ Owner[d, i, r, s] = k
        /\ signed' = signed \cup
              {<<d, [len |-> 65, r |-> r, s |-> s, v |-> i + 27]>>}
  /\ UNCHANGED accepted

\* gateway_mint or gateway_burn reaches its signature check with sig; a
\* rejected signature fails the whole instruction and changes nothing.
Submit(p, d, sig) ==
  /\ Buildable(d, sig)
  /\ Verify(p, d, sig)
  /\ accepted' = accepted \cup {<<p, d, sig>>}
  /\ UNCHANGED signed

Next ==
  \/ \E k \in HonestKeys, d \in Digests, r \in Nonces : Sign(k, d, r)
  \/ \E p \in Programs, d \in Digests, sig \in Signatures : Submit(p, d, sig)

Spec == Init /\ [][Next]_vars

EnabledKeys == [p \in Programs |-> IF p = "mint" THEN Attesters ELSE BurnSigners]

-----------------------------------------------------------------------------
\* Refinement: with each signature read as the key it recovers to, the
\* byte-level checks of recover_evm_signer and verify_*_signature accept
\* exactly what the abstract specification allows: a digest signed by a
\* key the program has enabled, whatever bytes the submitter built.
Abstract == INSTANCE AuthorisedSignatures
              WITH Enabled <- EnabledKeys,
                   signed <- {<<d, SignerOf(d, sig)>> : <<d, sig>> \in signed},
                   accepted <- {<<a[1], a[2], SignerOf(a[2], a[3])>> : a \in accepted}

AuthorisedSignaturesRefined == Abstract!Spec

\* recover_evm_signer rejects high-s signatures so that a signature has one
\* accepted encoding: no program accepts two different signature byte
\* strings for the same digest, signer and nonce (the malleated twin of an
\* accepted signature is always rejected).
NoMalleatedTwinAccepted ==
  \A a, b \in accepted :
     (/\ a[1] = b[1] /\ a[2] = b[2] /\ a[3].r = b[3].r
      /\ SignerOf(a[2], a[3]) = SignerOf(b[2], b[3])) => a[3] = b[3]

\* The low-s rule never locks an enabled signer out: of any signature an
\* enabled key produced (high s or low s) and its malleated twin,
\* recover_evm_signer and verify_*_signature accept at least one, so the
\* off-chain signer can always normalise and be heard.
EverySignatureHasAnAcceptedForm ==
  \A <<d, sig>> \in signed, p \in Programs :
     SignerOf(d, sig) \in EnabledKeys[p] =>
        \E x \in {sig, Twin(sig)} : Verify(p, d, x)
=============================================================================
