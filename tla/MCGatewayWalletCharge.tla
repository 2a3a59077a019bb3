----------------------- MODULE MCGatewayWalletCharge -----------------------
(* Instance of GatewayWallet for the u64 sum value + fee: two depositors, *)
(* whose joint custody lets a burn exceed one balance, one token, two     *)
(* transfer specs of value 1 and 6, fees 0 or 3, and u64 scaled to 3     *)
(* bits: 6 + 3 overflows while custody (at most 2 * 3) still fits.       *)
EXTENDS GatewayWallet, TLC

CONSTANTS d1, d2, t1, h1, h2, b1, ua, zero

MCDepositors == {d1, d2}
MCDelegates == {}
MCTokens == {t1}
MCHashes == {h1, h2}
MCBurnSignerKeys == {b1}
MCInitialBurnSigners == {b1}
\* the upgrade authority is the only administrative signer
MCAdminKeys == {ua}
MCTransferSpecValue == [h \in MCHashes |-> IF h = h1 THEN 1 ELSE 6]

\* Depositors are interchangeable model values.
MCSymmetry == Permutations(MCDepositors)
=============================================================================
