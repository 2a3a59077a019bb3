------------------- MODULE MCUsedTransferSpecHashAccounts -------------------
(* Three hashes; rent of 2 lamports so that a PDA can be funded below, at    *)
(* and above rent before it is used, and funded again afterwards.         *)
EXTENDS UsedTransferSpecHashAccounts

CONSTANTS h1, h2, h3
=============================================================================
