------------------------- MODULE AuthorisedSignatures -------------------------
(* What signature checking promises the two programs, stated without       *)
(* bytes or curves: gateway_mint accepts a signed attestation set only    *)
(* when an enabled attester signed its hash, and gateway_burn accepts a    *)
(* burn intent set only when an enabled burn signer signed its hash.  The  *)
(* GatewayMinter and GatewayWallet modules rely on this when they treat a  *)
(* signature as the name of its signer.                                    *)


CONSTANTS
  Programs,     \* the verifying programs: gateway_mint and gateway_burn
  Digests,      \* the 32-byte hashes handed to the verifier
  HonestKeys,   \* EVM keys whose holders only sign what they mean to
  Enabled       \* Enabled[p]: the keys program p accepts

ASSUME Enabled \in [Programs -> SUBSET HonestKeys]

VARIABLES
  signed,       \* <<d, k>>: key k has signed digest d
  accepted      \* <<p, d, k>>: program p accepted d as signed by k

vars == <<signed, accepted>>

Init == signed = {} /\ accepted = {}

Sign(k, d) ==
  /\ signed' = signed \cup {<<d, k>>}
  /\ UNCHANGED accepted

Accept(p, d, k) ==
  /\ k \in Enabled[p]
  /\ <<d, k>> \in signed
  /\ accepted' = accepted \cup {<<p, d, k>>}
  /\ UNCHANGED signed

Next ==
  \/ \E k \in HonestKeys, d \in Digests : Sign(k, d)
  \/ \E p \in Programs, d \in Digests, k \in HonestKeys : Accept(p, d, k)

Spec == Init /\ [][Next]_vars
=============================================================================
