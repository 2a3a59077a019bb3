--------------------------- MODULE MCBurnDataCodec ---------------------------
(* Scaled BurnData layout: prefix cell 2, burn intent magic 3,             *)
(* max_block_height 4-5, max_fee 6-7, transfer_spec_length 8, transfer    *)
(* spec magic 9, value 10-11, hook_data_length 12, hook data from 13.      *)
(* The burn intent message runs from cell 2, so with u16 scaled to 4 bits  *)
(* five or more hook data cells make it longer than u16::MAX.              *)
EXTENDS BurnDataCodec

\* Every field right or wrong, with hook_data_length and transfer_spec_length
\* within one of the values that agree with the hook data present.
MCInputs ==
  {r \in [prefix: {1, 0}, magic: {2, 0}, mbhHigh: {0, 1}, mbh: {1},
          maxFeeHigh: {0, 1}, maxFee: {1}, tsl: 3..11, tsMagic: {3, 0},
          valueHigh: {0, 1}, value: {0, 1}, hdl: 0..6, hookLen: 0..6] :
     /\ r.hdl - r.hookLen \in -1..1
     /\ r.tsl - 4 - r.hdl \in -1..1}
=============================================================================
