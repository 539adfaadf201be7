---------------------------- MODULE MCGridModel ----------------------------
(* A chip of 8 by 8 units of length under floor plans whose blocks end      *)
(* inside cells, on cell borders, and within a single cell.                 *)
EXTENDS GridModel

Block(x, y, w, h) == [x |-> x, y |-> y, w |-> w, h |-> h]
TwoColumns == <<Block(0, 0, 3, 8), Block(3, 0, 5, 8)>>
ThreeBlocks == <<Block(0, 0, 8, 3), Block(0, 3, 5, 5), Block(5, 3, 3, 5)>>
OneBlock == <<Block(0, 0, 8, 8)>>
NarrowStrip == <<Block(0, 0, 8, 4), Block(0, 4, 1, 4), Block(1, 4, 7, 4)>>

Base == [rows |-> 4, cols |-> 4, width |-> 8, height |-> 8, lcf |-> FALSE, sec |-> FALSE,
         det |-> FALSE, slu |-> FALSE, plans |-> <<ThreeBlocks>>, powered |-> {1}, map_mode |-> "center"]
Stacked == [Base EXCEPT !.lcf = TRUE, !.plans = <<TwoColumns, OneBlock, ThreeBlocks>>, !.powered = {1, 3}]

\* The default stack and one from a layer file, with and without the secondary path,
\* by multigrid and by SuperLU on grids that are neither square nor even; the
\* detailed 3D model.
SomeConfigs ==
  {Base,
   [Base EXCEPT !.sec = TRUE, !.cols = 2, !.plans = <<NarrowStrip>>],
   [Base EXCEPT !.slu = TRUE, !.rows = 2, !.width = 9, !.cols = 3,
                !.plans = <<<<Block(0, 0, 4, 8), Block(4, 0, 5, 8)>>>>],
   [Base EXCEPT !.slu = TRUE, !.sec = TRUE, !.cols = 2, !.rows = 2, !.map_mode = "avg"],
   Stacked,
   [Stacked EXCEPT !.sec = TRUE, !.rows = 2, !.map_mode = "avg"],
   [Stacked EXCEPT !.det = TRUE, !.rows = 2, !.cols = 4],
   [Stacked EXCEPT !.det = TRUE, !.sec = TRUE, !.slu = TRUE, !.rows = 2, !.cols = 2]}

SomeTraces == {<<1, 2, 3, 4, 5>>, <<0, 5, 0, 1, 0>>}
=============================================================================
