----------------------------- MODULE MCRemapping -----------------------------
(***************************************************************************)
(* Two vaults of two banks under every setting of the configuration file.  *)
(***************************************************************************)
EXTENDS Remapping

AllConfigs == [n_remap : 0..2, inter_vault : BOOLEAN, remap : BOOLEAN, off : {FALSE}]

==============================================================================
