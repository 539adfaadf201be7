------------------------------ MODULE MCDramSim ------------------------------
(* Two channels of two ranks of two banks.  The sets 3 (bank 1 of vault 1)  *)
(* and 12 (bank 2 of vault 0) are written; one bank turns hot and cool.    *)
EXTENDS DramSim

SomeOffsets == {-1, 1, 3}
OneHotBank == {<<0, 0>>}
=============================================================================
