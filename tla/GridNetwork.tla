---------------------------- MODULE GridNetwork ----------------------------
(***************************************************************************)
(* The heat network of HotSpot's grid model (temperature_grid.cc).  Every   *)
(* layer of the stack is a grid of cells, and nodes around the layers stand *)
(* for the parts of the package that reach beyond the chip.  The code       *)
(* writes the network down three times: in the Gauss-Seidel iteration for   *)
(* steady states, in the slope function for transients and in the matrix    *)
(* for SuperLU.  Each is an operator here, from a node to its links, the    *)
(* pairs of a neighbour and the resistance between them.                    *)
(*                                                                         *)
(* A resistance is named, not computed: <<"rx", n>>, <<"ry", n>> and        *)
(* <<"rz", n>> are those of layer n, <<"edge", n, axis>> is half a cell of  *)
(* layer n and its share of the rim (l.ry/2 + nc*r_..1_y), the others are   *)
(* the sums of package resistances by the names the code gives them.  A     *)
(* cell with its own resistances (detailed 3D) has <<"rx", n, i, j>>.  The  *)
(* conductance and the weighted temperature of a link, which the iteration  *)
(* adds up in two sums, are one link; capacitances are left out.            *)
(*                                                                         *)
(* g is a grid: rows, cols, nl (layers), sec (model_secondary) and det      *)
(* (detailed_3D_used).                                                      *)
(***************************************************************************)
EXTENDS Integers, FiniteSets

EXTRA == 12
EXTRA_SEC == 16
extra_nodes(g) == IF g.sec THEN EXTRA + EXTRA_SEC ELSE EXTRA

LAYER_PCB == 0
LAYER_SOLDER == 1
LAYER_SUB == 2
spidx(g) == g.nl - 2
hsidx(g) == g.nl - 1

-----------------------------------------------------------------------------
(* Nodes *)

Sides == {"W", "E", "N", "S"}
Axis(d) == IF d \in {"N", "S"} THEN "y" ELSE "x"
Ambient == <<"ambient">>

Cells(g) == (0 .. g.nl - 1) \X (0 .. g.rows - 1) \X (0 .. g.cols - 1)
PackParts(g) ==
  {"SP", "SINK_C", "SINK"} \cup (IF g.sec THEN {"SUB", "SOLDER", "PCB_C", "PCB"} ELSE {})
Nodes(g) == Cells(g) \cup (PackParts(g) \X Sides)

\* The number of a package node among the extra nodes.
PackNumber(k, d) ==
    [SP |-> 0, SINK_C |-> 4, SINK |-> 8, SUB |-> 12, SOLDER |-> 16, PCB_C |-> 20, PCB |-> 24][k]
  + [W |-> 0, E |-> 1, N |-> 2, S |-> 3][d]

\* The node's place in the vector of all temperatures, cells first.
Index(g, v) ==
  IF v \in Cells(g) THEN v[1] * g.rows * g.cols + v[2] * g.cols + v[3]
  ELSE g.nl * g.rows * g.cols + PackNumber(v[1], v[2])

\* The cells of layer n along side d.
SideCells(g, n, d) ==
  CASE d = "N" -> {<<n, 0, j>> : j \in 0 .. g.cols - 1}
    [] d = "S" -> {<<n, g.rows - 1, j>> : j \in 0 .. g.cols - 1}
    [] d = "W" -> {<<n, i, 0>> : i \in 0 .. g.rows - 1}
    [] d = "E" -> {<<n, i, g.cols - 1>> : i \in 0 .. g.rows - 1}

\* A cell's own resistance, where the detailed model has one: the maps of the
\* package layers have hasRes reset.
find_res_3D(g, n, i, j, r) ==
  IF g.det /\ n \notin {spidx(g), hsidx(g)} /\ (g.sec => n > LAYER_SUB)
    THEN <<r, n, i, j>>
    ELSE <<r, n>>

\* The part of the package around layer n, none around the chip's own layers.
RimOf(g, n) ==
  CASE n = spidx(g) -> {"SP"}
    [] n = hsidx(g) -> {"SINK_C"}
    [] n = LAYER_SUB /\ g.sec -> {"SUB"}
    [] n = LAYER_SOLDER /\ g.sec -> {"SOLDER"}
    [] n = LAYER_PCB /\ g.sec -> {"PCB_C"}
    [] OTHER -> {}

\* What a layer's cells have to the ambient: the sink through its rz, which
\* includes the convection, the PCB through the secondary convection.
CellAmbient(g, n) ==
  CASE n = hsidx(g) -> {<<"rz", n>>}
    [] n = LAYER_PCB /\ g.sec -> {<<"r_convec_sec">>}
    [] OTHER -> {}

-----------------------------------------------------------------------------
(* The steady state iteration *)

When(p, S) == IF p THEN S ELSE {}

\* The macros NC, SC, EC, WC, BC, AC and the weighted temperatures they go with.
steadyNeighbours(g, n, i, j) ==
       When(i > 0, {<<<<n, i - 1, j>>, find_res_3D(g, n, i - 1, j, "ry")>>})
  \cup When(i < g.rows - 1, {<<<<n, i + 1, j>>, find_res_3D(g, n, i + 1, j, "ry")>>})
  \cup When(j < g.cols - 1, {<<<<n, i, j + 1>>, find_res_3D(g, n, i, j + 1, "rx")>>})
  \cup When(j > 0, {<<<<n, i, j - 1>>, find_res_3D(g, n, i, j - 1, "rx")>>})
  \cup When(n < g.nl - 1, {<<<<n + 1, i, j>>, find_res_3D(g, n, i, j, "rz")>>})
  \cup When(n > 0, {<<<<n - 1, i, j>>, find_res_3D(g, n - 1, i, j, "rz")>>})

single_iteration_steady_grid(g, n, i, j) ==
  steadyNeighbours(g, n, i, j)
  \cup {<<<<k, d>>, <<"edge", n, Axis(d)>>>> :
          k \in RimOf(g, n), d \in {s \in Sides : <<n, i, j>> \in SideCells(g, n, s)}}
  \cup {<<Ambient, r>> : r \in CellAmbient(g, n)}

\* single_iteration_steady_pack: the primary package, then the secondary path.
sideOf(g, n, d) == {<<c, <<"edge", n, Axis(d)>>>> : c \in SideCells(g, n, d)}
packTo(k, d, r) == <<<<k, d>>, <<r, Axis(d)>>>>

steadyPrimary(g, k, d) ==
  CASE k = "SINK" -> {<<Ambient, <<"r_hs_per+r_amb_per">>>>, packTo("SINK_C", d, "r_hs2+r_hs")}
    [] k = "SINK_C" ->
         sideOf(g, hsidx(g), d) \cup {<<Ambient, <<"r_hs_c_per+r_amb_c_per", Axis(d)>>>>,
                                      packTo("SP", d, "r_sp_per"), packTo("SINK", d, "r_hs2+r_hs")}
    [] k = "SP" -> sideOf(g, spidx(g), d) \cup {packTo("SINK_C", d, "r_sp_per")}

steadySecondary(g, k, d) ==
  CASE k = "PCB" -> {<<Ambient, <<"r_amb_sec_per">>>>, packTo("PCB_C", d, "r_pcb2+r_pcb")}
    [] k = "PCB_C" ->
         sideOf(g, LAYER_PCB, d) \cup {<<Ambient, <<"r_amb_sec_c_per", Axis(d)>>>>,
                                       packTo("SOLDER", d, "r_pcb_c_per"), packTo("PCB", d, "r_pcb2+r_pcb")}
    [] k = "SOLDER" ->
         sideOf(g, LAYER_SOLDER, d) \cup {packTo("PCB_C", d, "r_pcb_c_per"), packTo("SUB", d, "r_solder_per")}
    [] k = "SUB" -> sideOf(g, LAYER_SUB, d) \cup {packTo("SOLDER", d, "r_solder_per")}

IsPrimary(k) == k \in {"SP", "SINK_C", "SINK"}

steadyLinks(g, v) ==
  IF v \in Cells(g) THEN single_iteration_steady_grid(g, v[1], v[2], v[3])
  ELSE IF IsPrimary(v[1]) THEN steadyPrimary(g, v[1], v[2])
  ELSE steadySecondary(g, v[1], v[2])

-----------------------------------------------------------------------------
(* The slope of the transient solution *)

\* The macros NP, SP, EP, WP, BP, AP: zero where there is no such cell.
slopeNeighbours(g, n, i, j) ==
  LET up(c) == IF c[1] < n THEN c[1] ELSE n
      res(c) == CASE c[1] # n -> find_res_3D(g, up(c), i, j, "rz")
                  [] c[2] # i -> find_res_3D(g, n, c[2], j, "ry")
                  [] c[3] # j -> find_res_3D(g, n, i, c[3], "rx")
  IN  {<<c, res(c)>> : c \in Cells(g) \cap
         {<<n, i - 1, j>>, <<n, i + 1, j>>, <<n, i, j + 1>>, <<n, i, j - 1>>,
          <<n + 1, i, j>>, <<n - 1, i, j>>}}

slope_fn_grid(g, n, i, j) ==
  slopeNeighbours(g, n, i, j)
  \cup UNION {{<<<<k, d>>, <<"edge", n, Axis(d)>>>> :
                 d \in When(i = 0, {"N"}) \cup When(i = g.rows - 1, {"S"})
                       \cup When(j = 0, {"W"}) \cup When(j = g.cols - 1, {"E"})} :
              k \in RimOf(g, n)}
  \cup {<<Ambient, r>> : r \in CellAmbient(g, n)}

\* slope_fn_pack: the primary package, then the secondary path.  The solder nodes'
\* slope has no term for the substrate.
slopePrimary(g, k, d) ==
  CASE k = "SINK" -> {<<Ambient, <<"r_hs_per+r_amb_per">>>>, packTo("SINK_C", d, "r_hs2+r_hs")}
    [] k = "SINK_C" ->
         sideOf(g, hsidx(g), d) \cup {<<Ambient, <<"r_hs_c_per+r_amb_c_per", Axis(d)>>>>,
                                      packTo("SP", d, "r_sp_per"), packTo("SINK", d, "r_hs2+r_hs")}
    [] k = "SP" -> sideOf(g, spidx(g), d) \cup {packTo("SINK_C", d, "r_sp_per")}

slopeSecondary(g, k, d) ==
  CASE k = "PCB" -> {<<Ambient, <<"r_amb_sec_per">>>>, packTo("PCB_C", d, "r_pcb2+r_pcb")}
    [] k = "PCB_C" ->
         sideOf(g, LAYER_PCB, d) \cup {<<Ambient, <<"r_amb_sec_c_per", Axis(d)>>>>,
                                       packTo("SOLDER", d, "r_pcb_c_per"), packTo("PCB", d, "r_pcb2+r_pcb")}
    [] k = "SOLDER" -> sideOf(g, LAYER_SOLDER, d) \cup {packTo("PCB_C", d, "r_pcb_c_per")}
    [] k = "SUB" -> sideOf(g, LAYER_SUB, d) \cup {packTo("SOLDER", d, "r_solder_per")}

slopeLinks(g, v) ==
  IF v \in Cells(g) THEN slope_fn_grid(g, v[1], v[2], v[3])
  ELSE IF IsPrimary(v[1]) THEN slopePrimary(g, v[1], v[2])
  ELSE slopeSecondary(g, v[1], v[2])

-----------------------------------------------------------------------------
(* The matrix for SuperLU: rows and columns are places in the vector, an     *)
(* entry off the diagonal is the column and the resistance.  The diagonal    *)
(* adds up the row's conductances, to the ambient as well, which is column   *)
(* -1 here; the right-hand side has the ambient's share once more.           *)

AmbientColumn == -1

\* The links of cell x of layer l to the cells on the sides next, to the cells
\* below and above, to the rim on the sides rim, and to the ambient.
linksOf(g, l, x, next, rim) ==
  LET nc == g.cols
      size == g.rows * nc
      i == x \div nc
      j == x % nc
      at == x + l * size
      to(d, step, r) == When(d \in next, {<<at + step, r>>})
  IN       to("W", -1, find_res_3D(g, l, i, j - 1, "rx"))
      \cup to("E", 1, find_res_3D(g, l, i, j + 1, "rx"))
      \cup to("N", -nc, find_res_3D(g, l, i - 1, j, "ry"))
      \cup to("S", nc, find_res_3D(g, l, i + 1, j, "ry"))
      \cup When(l < g.nl - 1, {<<at + size, find_res_3D(g, l, i, j, "rz")>>})
      \cup When(l > 0, {<<at - size, find_res_3D(g, l - 1, i, j, "rz")>>})
      \cup {<<g.nl * size + PackNumber(k, d), <<"edge", l, Axis(d)>>>> : k \in RimOf(g, l), d \in rim}
      \cup {<<AmbientColumn, r>> : r \in CellAmbient(g, l)}

\* One row for each place of the cell in its layer.
topLeftRow(g, l, x) == linksOf(g, l, x, {"E", "S"}, {"N", "W"})
topRightRow(g, l, x) == linksOf(g, l, x, {"W", "S"}, {"N", "E"})
bottomLeftRow(g, l, x) == linksOf(g, l, x, {"E", "N"}, {"S", "W"})
bottomRightRow(g, l, x) == linksOf(g, l, x, {"W", "N"}, {"S", "E"})
topRow(g, l, x) == linksOf(g, l, x, {"W", "E", "S"}, {"N"})
bottomRow(g, l, x) == linksOf(g, l, x, {"W", "E", "N"}, {"S"})
leftRow(g, l, x) == linksOf(g, l, x, {"N", "S", "E"}, {"W"})
\* Mutant: the last cell of a row is linked to the first of the next.
rightRowWrapped(g, l, x) == linksOf(g, l, x, {"N", "S", "W", "E"}, {"E"})
rightRow(g, l, x) == linksOf(g, l, x, {"N", "S", "W"}, {"E"})
innerRow(g, l, x) == linksOf(g, l, x, {"N", "S", "W", "E"}, {})

\* The nine cases of build_steady_grid_matrix, in its order.
cellRow(g, l, x) ==
  LET nr == g.rows
      nc == g.cols
  IN  IF x = 0 THEN topLeftRow(g, l, x)
      ELSE IF x = nc - 1 THEN topRightRow(g, l, x)
      ELSE IF x = nr * nc - nc THEN bottomLeftRow(g, l, x)
      ELSE IF x = nr * nc - 1 THEN bottomRightRow(g, l, x)
      ELSE IF x > 0 /\ x < nc - 1 THEN topRow(g, l, x)
      ELSE IF x > nr * nc - nc /\ x < nr * nc - 1 THEN bottomRow(g, l, x)
      ELSE IF x % nc = 0 THEN leftRow(g, l, x)
      ELSE IF (x + 1) % nc = 0 THEN rightRow(g, l, x)
      ELSE innerRow(g, l, x)

\* A package node's link to another one on the same side, and to the cells of a
\* side of layer n, counted in the vector.
packLink(g, k, d, r) == <<g.nl * g.rows * g.cols + PackNumber(k, d), <<r, Axis(d)>>>>
sideLinks(g, n, d) ==
  LET nc == g.cols
      side == CASE d = "N" -> {j : j \in 0 .. nc - 1}
                [] d = "S" -> {(g.rows - 1) * nc + j : j \in 0 .. nc - 1}
                [] d = "W" -> {i * nc : i \in 0 .. g.rows - 1}
                [] d = "E" -> {i * nc + nc - 1 : i \in 0 .. g.rows - 1}
  IN  {<<n * g.rows * nc + x, <<"edge", n, Axis(d)>>>> : x \in side}

sinkRow(g, d) ==
  {packLink(g, "SINK_C", d, "r_hs2+r_hs"), <<AmbientColumn, <<"r_hs_per+r_amb_per">>>>}
sinkCoreRow(g, d) ==
  sideLinks(g, hsidx(g), d) \cup
  {packLink(g, "SP", d, "r_sp_per"), packLink(g, "SINK", d, "r_hs2+r_hs"),
   <<AmbientColumn, <<"r_hs_c_per+r_amb_c_per", Axis(d)>>>>}
spreaderRow(g, d) == sideLinks(g, spidx(g), d) \cup {packLink(g, "SINK_C", d, "r_sp_per")}
pcbRow(g, d) ==
  {packLink(g, "PCB_C", d, "r_pcb2+r_pcb"), <<AmbientColumn, <<"r_amb_sec_per">>>>}
pcbCoreRow(g, d) ==
  sideLinks(g, LAYER_PCB, d) \cup
  {packLink(g, "SOLDER", d, "r_pcb_c_per"), packLink(g, "PCB", d, "r_pcb2+r_pcb"),
   <<AmbientColumn, <<"r_amb_sec_c_per", Axis(d)>>>>}
solderRow(g, d) ==
  sideLinks(g, LAYER_SOLDER, d) \cup
  {packLink(g, "SUB", d, "r_solder_per"), packLink(g, "PCB_C", d, "r_pcb_c_per")}
substrateRow(g, d) == sideLinks(g, LAYER_SUB, d) \cup {packLink(g, "SOLDER", d, "r_solder_per")}

matrixRow(g, v) ==
  IF v \in Cells(g) THEN cellRow(g, v[1], v[2] * g.cols + v[3])
  ELSE CASE v[1] = "SINK" -> sinkRow(g, v[2])
         [] v[1] = "SINK_C" -> sinkCoreRow(g, v[2])
         [] v[1] = "SP" -> spreaderRow(g, v[2])
         [] v[1] = "PCB" -> pcbRow(g, v[2])
         [] v[1] = "PCB_C" -> pcbCoreRow(g, v[2])
         [] v[1] = "SOLDER" -> solderRow(g, v[2])
         [] v[1] = "SUB" -> substrateRow(g, v[2])

\* The entries a row adds: those off the diagonal and the diagonal.
rowEntries(row) == Cardinality({e \in row : e[1] # AmbientColumn}) + 1

\* The number of entries the arrays are allocated for.
nnz(g) ==
  LET nr == g.rows
      nc == g.cols
  IN  (5 * nr * nc - 2 * (nr + nc)) * g.nl + 2 * (g.nl - 1) * nr * nc
      + (IF g.sec THEN 5 * 2 * 2 * (nr + nc) + EXTRA + EXTRA_SEC + 16 + 24
         ELSE 2 * 2 * 2 * (nr + nc) + EXTRA + 16)

\* The ambient's share of the right-hand side.
build_steady_rhs_vector(g, v) ==
  IF v \in Cells(g)
  THEN IF v[1] = hsidx(g) THEN {<<"rz", v[1]>>}
       ELSE IF v[1] = LAYER_PCB /\ g.sec THEN {<<"r_convec_sec">>}
       ELSE {}
  ELSE LET a == Axis(v[2])
       IN  CASE v[1] = "SINK_C" -> {<<"r_hs_c_per+r_amb_c_per", a>>}
             [] v[1] = "SINK" -> {<<"r_hs_per+r_amb_per">>}
             [] v[1] = "PCB_C" -> {<<"r_amb_sec_c_per", a>>}
             [] v[1] = "PCB" -> {<<"r_amb_sec_per">>}
             [] v[1] \in {"SP", "SUB", "SOLDER"} -> {}
=============================================================================
