-------------------------- MODULE MCGatewayMinter --------------------------
(***************************************************************************)
(* GatewayMinter with one token, two recipients, two callers, two attester *)
(* keys of which one is enabled, and four signed attestation sets chosen   *)
(* so that a hash is shared by two sets, repeated inside one set, bound to *)
(* a caller, and signed by a key that is not yet an attester.              *)
(***************************************************************************)
EXTENDS GatewayMinter

CONSTANTS a1, a2, c1, c2, zero, t1, r1, r2, h1, h2, h3, ua, k2, x

MCAttesterKeys == {a1, a2}
MCInitialAttesters == {a1}
MCCallers == {c1, c2}
\* administrative signers: the upgrade authority only, or with a second
\* trusted key and an untrusted one
MCKeys == {ua}
MCAdminKeys == {ua, k2, x}
MCTokens == {t1}
MCRecipients == {r1, r2}
MCHashes == {h1, h2, h3}

El(r, v, h) == [token |-> t1, recipient |-> r, value |-> v, hash |-> h]

MCAttestations == {
  \* any caller, expires at slot 1
  [signer |-> a1, maxBlockHeight |-> 1, destinationCaller |-> zero,
   elements |-> <<El(r1, 1, h1)>>],
  \* bound to c1; shares h1 with the set above
  [signer |-> a1, maxBlockHeight |-> 2, destinationCaller |-> c1,
   elements |-> <<El(r2, 1, h2), El(r1, 1, h1)>>],
  \* the same hash twice in one set
  [signer |-> a1, maxBlockHeight |-> 2, destinationCaller |-> zero,
   elements |-> <<El(r2, 1, h2), El(r2, 1, h2)>>],
  \* signed by a2, which only counts once a2 is added
  [signer |-> a2, maxBlockHeight |-> 2, destinationCaller |-> zero,
   elements |-> <<El(r1, 2, h3)>>]}
=============================================================================
