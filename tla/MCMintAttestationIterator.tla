--------------------- MODULE MCMintAttestationIterator ---------------------
(* Attestation data of up to 6 cells over the cell values 0, 1, 2 and 6,  *)
(* with 0, 2, 3 or 6 remaining accounts and u32 scaled to 4 bits: the      *)
(* data holds up to two elements with hook data, and num_attestations = 6  *)
(* makes num_attestations * 3 wrap to 2.                                   *)
EXTENDS MintAttestationIterator
=============================================================================
