-------------------------- MODULE MCGatewayWallet --------------------------
(* Model-checking instance of GatewayWallet: two depositors and one       *)
(* further delegate key, one token, two transfer spec hashes, one burn    *)
(* signer key, enabled at start and free to be removed and re-added.    *)
EXTENDS GatewayWallet, TLC

CONSTANTS d1, d2, k1, t1, h1, h2, b1, ua, zero

MCDepositors == {d1, d2}
MCDelegates == {k1}
MCTokens == {t1}
MCHashes == {h1, h2}
MCBurnSignerKeys == {b1}
MCInitialBurnSigners == {b1}
\* the upgrade authority is the only administrative signer
MCAdminKeys == {ua}
MCTransferSpecValue == [h \in MCHashes |-> 1]

\* Hashes and depositors are interchangeable model values.
MCSymmetry == Permutations(MCHashes) \cup Permutations(MCDepositors)
=============================================================================
