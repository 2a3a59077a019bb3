------------------------ MODULE MCEvmSignatureRecovery ------------------------
(* Model-checking instance of EvmSignatureRecovery: attester a1, burn     *)
(* signer a2, one digest h1, and x, which stands for the attacker's keys and for every    *)
(* key recovered from bytes nobody signed.  The group order is scaled to   *)
(* 5: scalars 1..4, of which 1 and 2 are low.                             *)
EXTENDS EvmSignatureRecovery

CONSTANTS a1, a2, x, h1, none

MCKeys == {a1, a2, x}
MCDigests == {h1}

\* The canonical (low-s) form of a recovery id and scalar.
Canonical(i, s) == IF s <= N \div 2 THEN <<i, s>> ELSE <<1 - i, N - s>>

\* secp256k1_recover for the instance.  For each digest and r the two low
\* scalars with recovery id 0 belong to the keys listed; recovery id 1
\* recovers to a key nobody holds.  Each key has one signature per digest
\* and nonce, as ECDSA gives it.
Holder == [d \in MCDigests |-> <<<<a1, a2>>, <<a2, x>>, <<x, x>>, <<x, x>>>>]

MCOwner == [q \in MCDigests \X {0, 1} \X (1..4) \X (1..4) |->
              LET c == Canonical(q[2], q[4])
              IN IF c[1] = 1 THEN x ELSE Holder[q[1]][q[3]][c[2]]]
=============================================================================
