----------------------------- MODULE MCDramCache -----------------------------
(***************************************************************************)
(* Two banks, both policies that act, remapping enabled.                   *)
(***************************************************************************)
EXTENDS DramCache

ActingConfigs == [n_remap : {0, 1}, inter_vault : {TRUE}, remap : {TRUE}, off : BOOLEAN]

==============================================================================
