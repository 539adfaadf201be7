--------------------------- MODULE MCRamController ---------------------------
(* Two banks; in the first, two rows, one of them with two columns.        *)
EXTENDS RamController

SomeAddr == {[bank |-> 0, row |-> 1, col |-> 1], [bank |-> 0, row |-> 1, col |-> 2],
             [bank |-> 0, row |-> 2, col |-> 1], [bank |-> 1, row |-> 1, col |-> 1]}
=============================================================================
