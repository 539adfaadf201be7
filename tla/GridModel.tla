----------------------------- MODULE GridModel -----------------------------
(***************************************************************************)
(* HotSpot as the simulator drives it (hotspot.cc) on the grid model        *)
(* (temperature_grid.cc): the layers of the stack and their floor plans,    *)
(* the maps between blocks and cells, a call of calculateTemperature for    *)
(* every power trace, in it one transient solution per row (rk4 in          *)
(* RCutil.cc) and one steady state, by nested multigrid or by SuperLU.      *)
(*                                                                         *)
(* Lengths are integers; powers are densities per unit of area, so the      *)
(* power of a cell is the sum of overlap times density.  A temperature      *)
(* vector is the number of intervals that went into it; a steady state is   *)
(* solved, a guess, or unset, cell by cell.  What the solvers compute is    *)
(* left to GridNetwork's links.  The file of initial temperatures is a      *)
(* sequence of lines, a name and a value; natural convection and the files  *)
(* of powers are left out.                                                  *)
(***************************************************************************)
EXTENDS GridNetwork, Sequences, FiniteSetsExt

CONSTANTS
  Configs,      \* the configurations a run starts from
  Traces,       \* the rows a power trace may hold: a value per block
  MIN_STEP, sampling_intvl,  \* the first step and the interval, in units of time
  MaxCalls,     \* bound: calls of calculateTemperature
  MaxLines      \* bound: rows of a trace

\* power2[k] is 2^k.
power2[k \in Nat] == IF k = 0 THEN 1 ELSE 2 * power2[k - 1]
IsPowerOfTwo(n) == \E k \in 0 .. n : n = power2[k]

\* Without SuperLU, alloc_grid_model ends the program unless rows and columns are powers
\* of two.  A layer file names at least one layer.
Rectangle == [x : Nat, y : Nat, w : Nat, h : Nat]
ASSUME GridAssumption ==
  \A c \in Configs :
    /\ {c.lcf, c.sec, c.det, c.slu} \subseteq BOOLEAN
    /\ c.rows \in Nat \ {0} /\ c.cols \in Nat \ {0}
    /\ ~c.slu => IsPowerOfTwo(c.rows) /\ IsPowerOfTwo(c.cols)
    /\ c.plans \in Seq(Seq(Rectangle)) /\ c.plans # <<>>

VARIABLES
  cfg,          \* the configuration, fixed at the start
  model,        \* rows, cols, quarter (how often rz was divided by 4), r_ready, c_ready
  start,        \* what init_temp starts from: values, and the maximum they are clipped by (0: not)
  bgmap,        \* for the layers that own a map: the blocks of every cell, the cells of every block
  pc,           \* where HotSpot is
  do_transient,
  calls, lines, \* calls made, rows read in this call
  row,          \* power of the row being read, by block
  overall,      \* sum of the rows' powers
  vec,          \* the vectors init_temp and temp
  last_temp,    \* the vector the model will write to
  trans,        \* last_trans, the transient grid temperatures
  rk,           \* t, h of the transient solution
  gp, fine,     \* power on the current grid, and on the finer grids above it
  gt,           \* steady state temperatures of the current grid
  coo           \* rows of the matrix built, entries made

vars == <<cfg, model, start, bgmap, pc, do_transient, calls, lines, row, overall, vec, last_temp,
          trans, rk, gp, fine, gt, coo>>

-----------------------------------------------------------------------------
(* Layers *)

DEFAULT_CHIP_LAYERS == 2
SEC_CHIP_LAYERS == 2
SEC_PACK_LAYERS == 3

\* Without a layer file the chip is silicon and interface, with metal and C4 on the
\* secondary path, all with the one floor plan.
n_layers(c) ==
    (IF c.lcf THEN Len(c.plans) ELSE DEFAULT_CHIP_LAYERS + (IF c.sec THEN SEC_CHIP_LAYERS ELSE 0))
  + 2 + (IF c.sec THEN SEC_PACK_LAYERS ELSE 0)
silidx(c) == IF c.sec THEN SEC_PACK_LAYERS + (IF c.lcf THEN 0 ELSE SEC_CHIP_LAYERS) ELSE 0
LayerNos(c) == 0 .. n_layers(c) - 1

\* populate_default_layers and parse_layer_file: floor plan, the layer that owns the
\* map, whether power is dissipated.
chipLayer(c, n) ==
  IF c.lcf
    THEN LET k == n - (IF c.sec THEN SEC_PACK_LAYERS ELSE 0) + 1
         IN  [flp |-> c.plans[k], owner |-> n, has_power |-> k \in c.powered]
    ELSE [flp |-> c.plans[1], owner |-> silidx(c), has_power |-> n = silidx(c)]

\* append_package_layers: plan and map of the layer next to them, or an own map for
\* each side in the detailed model.
packLayer(c, n) ==
  LET top == n_layers(c) - 2
      above == n >= top
      next == chipLayer(c, IF above THEN top - 1 ELSE silidx(c))
  IN  [next EXCEPT !.has_power = FALSE,
                   !.owner = IF c.det THEN (IF above THEN top ELSE LAYER_SUB) ELSE @]

layer(c, n) ==
  IF n >= n_layers(c) - 2 \/ (c.sec /\ n <= LAYER_SUB) THEN packLayer(c, n) ELSE chipLayer(c, n)

\* The start of a layer's blocks in the block vectors, which hold those of every layer.
BlockNos(c, n) == DOMAIN layer(c, n).flp
sizes(c) == [n \in LayerNos(c) |-> Len(layer(c, n).flp)]
base(c, n) == SumFunctionOnSet(sizes(c), 0 .. n - 1)
total_n_blocks(c) == base(c, n_layers(c))

Grid(c, m) == [rows |-> m.rows, cols |-> m.cols, nl |-> n_layers(c), sec |-> c.sec, det |-> c.det]
Plane(m) == (0 .. m.rows - 1) \X (0 .. m.cols - 1)

-----------------------------------------------------------------------------
(* Blocks and cells *)

Least(a, b) == IF a < b THEN a ELSE b
Most(a, b) == IF a > b THEN a ELSE b
ceil(a, b) == (a + b - 1) \div b

\* Mutant: the last column a block reaches is left out unless the block fills it.
extentFloor(c, m, b) ==
  LET cw == c.width \div m.cols
      ch == c.height \div m.rows
  IN  [i1 |-> m.rows - ceil(b.y + b.h, ch), i2 |-> m.rows - b.y \div ch,
       j1 |-> b.x \div cw, j2 |-> (b.x + b.w) \div cw]

\* The cells of a block: rows count from the top, its coordinates from the bottom.
extent(c, m, b) ==
  LET cw == c.width \div m.cols
      ch == c.height \div m.rows
  IN  [i1 |-> m.rows - ceil(b.y + b.h, ch), i2 |-> m.rows - b.y \div ch,
       j1 |-> b.x \div cw, j2 |-> ceil(b.x + b.w, cw)]
Spans(e, i, j) == i >= e.i1 /\ i < e.i2 /\ j >= e.j1 /\ j < e.j2

\* The area of a cell a block covers: all of it away from the block's border.
overlap(c, m, b, i, j) ==
  LET e == extent(c, m, b)
      cw == c.width \div m.cols
      ch == c.height \div m.rows
      bottom == c.height - (i + 1) * ch
  IN  IF i > e.i1 /\ i < e.i2 - 1 /\ j > e.j1 /\ j < e.j2 - 1
        THEN cw * ch
        ELSE   (Least(b.y + b.h, bottom + ch) - Most(b.y, bottom))
             * (Least(b.x + b.w, (j + 1) * cw) - Most(b.x, j * cw))

\* The list of a cell: its blocks in the order of the plan, with their overlaps.  The
\* first block that fills 95 percent of the cell locks its material.
blist(c, m, flp, i, j) ==
  [u \in {k \in DOMAIN flp : Spans(extent(c, m, flp[k]), i, j)} |-> overlap(c, m, flp[u], i, j)]
material(c, m, list) ==
  LET area == (c.width \div m.cols) * (c.height \div m.rows)
      locking == {u \in DOMAIN list : 100 * list[u] >= 95 * area}
  IN  IF locking = {} THEN DOMAIN list
      ELSE {CHOOSE u \in locking : \A v \in locking : u <= v}

set_bgmap(c, m, flp) ==
  LET lists == [x \in Plane(m) |-> blist(c, m, flp, x[1], x[2])]
  IN  [b2g |-> lists,
       res |-> [x \in Plane(m) |-> material(c, m, lists[x])],
       g2b |-> [u \in DOMAIN flp |-> extent(c, m, flp[u])]]

\* Power of the cells: overlap times density, added over the cell's blocks.
xlate_vector_b2g(c, map, b) ==
  [n \in LayerNos(c) |->
     LET lists == map[layer(c, n).owner].b2g
     IN  [x \in DOMAIN lists |->
            MapThenSumSet(LAMBDA u : lists[x][u] * b[base(c, n) + u], DOMAIN lists[x])]]

\* The cells whose temperatures make the block's: its centre, or all of them.
xlate_temp_g2b(c, map, n, u) ==
  LET e == map[layer(c, n).owner].g2b[u]
      ci == (e.i1 + e.i2) \div 2
      cj == (e.j1 + e.j2) \div 2
      even(k) == IF k % 2 = 0 THEN 1 ELSE 0
  IN  IF c.map_mode = "center"
        THEN {ci, ci - even(e.i2 - e.i1)} \X {cj, cj - even(e.j2 - e.j1)}
        ELSE (e.i1 .. e.i2 - 1) \X (e.j1 .. e.j2 - 1)

-----------------------------------------------------------------------------
(* Nested multigrid *)

\* The power of a coarse cell is that of the four fine cells under it.
multigrid_restrict_power(m, src) ==
  [n \in DOMAIN src |->
     [x \in Plane(m) |->
        LET i == 2 * x[1]
            j == 2 * x[2]
        IN  src[n][<<i, j>>] + src[n][<<i + 1, j>>] + src[n][<<i, j + 1>>] + src[n][<<i + 1, j + 1>>]]]

\* The fine cells between four coarse ones, with the weights (of 16) of each.
interpolate(i, j, a, b) ==
  [at |-> <<2 * i + 1 + a, 2 * j + 1 + b>>,
   weights |-> [x \in {i, i + 1} \X {j, j + 1} |->
                  (IF x[1] = i + a THEN 3 ELSE 1) * (IF x[2] = j + b THEN 3 ELSE 1)]]
interpolated(nr, nc) ==
  {interpolate(i, j, a, b) : i \in 0 .. nr - 2, j \in 0 .. nc - 2, a \in {0, 1}, b \in {0, 1}}
\* The fine cells on the boundary copy the coarse cell they belong to.
copy(i, j, x) == [at |-> <<i, j>>, weights |-> [y \in {x} |-> 16]]
copied(nr, nc) ==
       {copy(2 * i + a, 0, <<i, 0>>) : i \in 0 .. nr - 1, a \in {0, 1}}
  \cup {copy(2 * i + a, 2 * nc - 1, <<i, nc - 1>>) : i \in 0 .. nr - 1, a \in {0, 1}}
  \cup {copy(0, 2 * j + a, <<0, j>>) : j \in 0 .. nc - 1, a \in {0, 1}}
  \cup {copy(2 * nr - 1, 2 * j + a, <<nr - 1, j>>) : j \in 0 .. nc - 1, a \in {0, 1}}

\* The fine grid's first guess: unset where nothing was written, where the weights do
\* not make an average, and where a coarse cell does not exist or was not solved.
multigrid_prolong_temp(m, solved) ==
  LET writes == interpolated(m.rows, m.cols) \cup copied(m.rows, m.cols)
      average(w) == /\ DOMAIN w \subseteq DOMAIN solved
                    /\ \A x \in DOMAIN w : solved[x] = "solved"
                    /\ SumFunctionOnSet(w, DOMAIN w) = 16
      to == [rows |-> 2 * m.rows, cols |-> 2 * m.cols]
  IN  [x \in Plane(to) |->
         IF \E w \in writes : w.at = x /\ average(w.weights) THEN "guess" ELSE "unset"]

-----------------------------------------------------------------------------
(* The vectors of block temperatures and their files *)

VectorSize(c) == total_n_blocks(c) + extra_nodes(Grid(c, c))
InitTemp == 0
DumpedTemp(c) == [k \in 1 .. VectorSize(c) |-> k]
set_temp_grid(c, val) == [k \in 1 .. VectorSize(c) |-> val]

\* What a layer's names begin with.
prefix(c, n) ==
  IF n >= n_layers(c) - 2 THEN <<<<"hsp", "hsink">>[n - n_layers(c) + 3]>>
  ELSE IF c.sec /\ n <= LAYER_SUB THEN <<<<"pcb", "solder", "sub">>[n + 1]>>
  ELSE IF c.lcf THEN <<"layer", n>>
  ELSE <<<<"c4">>, <<"metal">>, <<>>, <<"iface">>>>[n - silidx(c) + 3]

\* A line per block, layer by layer, and one per package node.  A file may hold a
\* layer's blocks in another order, here (flip) the reverse one.
dump_temp_grid(c, temp, flip) ==
  LET lineOf(n, i) ==
        LET u == IF flip THEN Len(layer(c, n).flp) + 1 - i ELSE i
        IN  [prefix |-> prefix(c, n), unit |-> u, val |-> temp[base(c, n) + u]]
      at(k) == CHOOSE n \in LayerNos(c) : base(c, n) < k /\ k <= base(c, n + 1)
  IN  [k \in 1 .. VectorSize(c) |->
         IF k <= total_n_blocks(c) THEN lineOf(at(k), k - base(c, at(k)))
         ELSE [prefix |-> <<"inode">>, unit |-> k - total_n_blocks(c), val |-> temp[k]]]

\* Mutant: a block is stored where its line stands.
read_temp_gridInOrder(c, file, clip) == [vals |-> [k \in 1 .. VectorSize(c) |-> file[k].val], max |-> 0]

\* The layer's next lines, by the names of its blocks, with the layer's prefix.  The
\* temperatures are clipped by the maximum over layer 0 (with a secondary path, the
\* PCB).
read_temp_grid(c, file, clip) ==
  LET linesOf(n) == {file[base(c, n) + i] : i \in BlockNos(c, n)}
      fits == \A n \in LayerNos(c) : \A l \in linesOf(n) : l.prefix = prefix(c, n)
      value(k) ==
        IF k > total_n_blocks(c) THEN file[k].val
        ELSE LET n == CHOOSE m \in LayerNos(c) : base(c, m) < k /\ k <= base(c, m + 1)
             IN  (CHOOSE l \in linesOf(n) : l.unit = k - base(c, n)).val
  IN  IF fits
        THEN [vals |-> [k \in 1 .. VectorSize(c) |-> value(k)],
              max |-> IF clip THEN Max({l.val : l \in linesOf(0)}) ELSE 0]
        ELSE [vals |-> <<>>, max |-> 0]

-----------------------------------------------------------------------------
(* Building the model *)

NoCoo == [built |-> 0, curidx |-> 0]
NoStart == [vals |-> <<>>, max |-> 0]
NoSolution == [t |-> 0, h |-> 0]
NoPower(c) == [k \in 1 .. total_n_blocks(c) |-> 0]

Init ==
  /\ cfg \in Configs
  /\ model = [rows |-> cfg.rows, cols |-> cfg.cols, quarter |-> 0, r_ready |-> FALSE, c_ready |-> FALSE]
  /\ start = NoStart
  /\ bgmap = <<>>
  /\ pc = "alloc"
  /\ do_transient = TRUE
  /\ calls = 0 /\ lines = 0
  /\ row = NoPower(cfg) /\ overall = NoPower(cfg)
  /\ vec = [init |-> 0, temp |-> 0] /\ last_temp = "none" /\ trans = 0
  /\ rk = NoSolution
  /\ gp = <<>> /\ fine = <<>> /\ gt = <<>> /\ coo = NoCoo

unchangedSolver == UNCHANGED <<rk, gp, fine, gt, coo, trans>>
unchangedCall == UNCHANGED <<start, calls, lines, row, overall, vec, last_temp, do_transient>>

populate_R_model_grid ==
  /\ pc = "alloc"
  /\ bgmap' = [o \in {layer(cfg, n).owner : n \in LayerNos(cfg)} |->
                 set_bgmap(cfg, model, layer(cfg, o).flp)]
  /\ model' = [model EXCEPT !.r_ready = TRUE]
  /\ pc' = "resistances"
  /\ unchangedCall /\ unchangedSolver /\ UNCHANGED cfg

populate_C_model_grid ==
  /\ pc = "resistances" /\ model.r_ready
  /\ model' = [model EXCEPT !.c_ready = TRUE]
  /\ pc' = "init"
  /\ unchangedCall /\ unchangedSolver /\ UNCHANGED <<cfg, bgmap>>

\* The initial temperatures: the configured one everywhere, or those of a file an
\* earlier run of the same model dumped, clipped (dtm_used) or not.
initTemp ==
  /\ pc = "init"
  /\ \/ start' = [vals |-> set_temp_grid(cfg, InitTemp), max |-> 0]
     \/ \E flip, clip \in BOOLEAN :
          start' = read_temp_grid(cfg, dump_temp_grid(cfg, DumpedTemp(cfg), flip), clip)
  /\ pc' = "idle"
  /\ unchangedSolver
  /\ UNCHANGED <<cfg, model, bgmap, calls, lines, row, overall, vec, last_temp, do_transient>>

\* startAnalysis and startWarmUp.
switchAnalysis ==
  /\ pc = "idle"
  /\ do_transient' = ~do_transient
  /\ unchangedSolver
  /\ UNCHANGED <<cfg, model, start, bgmap, pc, calls, lines, row, overall, vec, last_temp>>

-----------------------------------------------------------------------------
(* calculateTemperature *)

beginCalculate ==
  /\ pc = "idle" /\ calls < MaxCalls
  /\ calls' = calls + 1
  /\ lines' = 0
  /\ overall' = NoPower(cfg)
  /\ vec' = [vec EXCEPT !.temp = vec.init]
  /\ start' = NoStart
  /\ pc' = "rows"
  /\ unchangedSolver /\ UNCHANGED <<cfg, model, bgmap, do_transient, row, last_temp>>

\* The values of a row in the order of the block vectors: the columns are the blocks of
\* the layers that dissipate power.
permuted(c, vals) ==
  LET powered(n) == {m \in 0 .. n - 1 : layer(c, m).has_power}
      count(n) == MapThenSumSet(LAMBDA m : Len(layer(c, m).flp), powered(n))
      at(k) == CHOOSE n \in LayerNos(c) : base(c, n) < k /\ k <= base(c, n + 1)
  IN  [k \in 1 .. total_n_blocks(c) |->
         LET n == at(k)
         IN  IF layer(c, n).has_power THEN vals[count(n) + k - base(c, n)] ELSE 0]

accumulate(b) == [k \in DOMAIN overall |-> overall[k] + b[k]]

readRow ==
  /\ pc = "rows" /\ lines < MaxLines
  /\ \E vals \in Traces :
       /\ row' = permuted(cfg, vals)
       /\ IF do_transient
            THEN pc' = "compute" /\ UNCHANGED <<lines, overall>>
            ELSE pc' = "rows" /\ lines' = lines + 1 /\ overall' = accumulate(row')
  /\ unchangedSolver /\ UNCHANGED <<cfg, model, start, bgmap, do_transient, calls, vec, last_temp>>

\* Mutant: the comment taken at its word, only the very first row passes temp.
passesTempOnce == lines = 0 /\ calls = 1
\* compute_temp_grid: the first row of a call passes temp, the others NULL.
passesTemp == lines = 0
compute_temp_grid ==
  /\ pc = "compute" /\ model.r_ready /\ model.c_ready
  /\ gp' = xlate_vector_b2g(cfg, bgmap, row)
  /\ trans' = IF passesTemp THEN vec.temp ELSE trans
  /\ last_temp' = IF passesTemp THEN "temp" ELSE last_temp
  /\ rk' = [t |-> 0, h |-> MIN_STEP]
  /\ pc' = "rk4"
  /\ UNCHANGED <<cfg, model, start, bgmap, do_transient, calls, lines, row, overall, vec, fine, gt, coo>>

RK4_MAXUP == 5

\* An attempt at a step of length h, whole and in two halves; the two results are too
\* far apart: a shorter step.  (The slopes are left out.)
rk4Retry ==
  /\ pc = "rk4"
  /\ \E shorter \in 1 .. rk.h - 1 : rk' = [rk EXCEPT !.h = shorter]
  /\ UNCHANGED <<cfg, model, start, bgmap, pc, do_transient, calls, lines, row, overall, vec, last_temp,
                 trans, gp, fine, gt, coo>>

\* The step is made.  After the last one the grid's temperatures are mapped to the blocks of last_temp.
rk4Step ==
  /\ pc = "rk4"
  /\ \E longer \in rk.h .. RK4_MAXUP * rk.h :
       LET t == rk.t + rk.h
           h == Least(longer, sampling_intvl - t)
       IN  IF t < sampling_intvl /\ h > 0
             THEN /\ rk' = [t |-> t, h |-> h]
                  /\ UNCHANGED <<pc, lines, overall, vec, trans>>
             ELSE /\ rk' = [rk EXCEPT !.t = t]
                  /\ trans' = trans + 1
                  /\ vec' = [vec EXCEPT ![last_temp] = trans']
                  /\ lines' = lines + 1
                  /\ overall' = accumulate(row)
                  /\ pc' = "rows"
  /\ UNCHANGED <<cfg, model, start, bgmap, do_transient, calls, row, last_temp, gp, fine, gt, coo>>

\* The trace is read.  The average power is kept as the sum over the rows.
steady_state_temp_grid ==
  /\ pc = "rows" /\ lines > 0 /\ model.r_ready
  /\ gp' = xlate_vector_b2g(cfg, bgmap, overall)
  /\ fine' = <<>>
  /\ rk' = NoSolution
  /\ gt' = [x \in Plane(model) |-> "unset"]
  /\ coo' = NoCoo
  /\ pc' = IF cfg.slu THEN "matrix" ELSE IF cfg.det THEN "heuristic" ELSE "coarsen"
  /\ UNCHANGED <<cfg, model, bgmap, trans>> /\ unchangedCall

-----------------------------------------------------------------------------
(* recursive_multigrid *)

unchangedSteady == UNCHANGED <<cfg, bgmap, trans, rk, coo>> /\ unchangedCall

Coarsest == model.rows <= 1 \/ model.cols <= 1

\* The resistances along z and the capacitances follow the cell's area.
coarser(m) == [m EXCEPT !.rows = @ \div 2, !.cols = @ \div 2, !.quarter = @ + 1]
\* Mutant: the resistances along z are not restored.
finerKeep(m) == [m EXCEPT !.rows = 2 * @, !.cols = 2 * @]
finer(m) == [m EXCEPT !.rows = 2 * @, !.cols = 2 * @, !.quarter = @ - 1]

coarsen ==
  /\ pc = "coarsen" /\ ~Coarsest
  /\ model' = coarser(model)
  /\ gp' = multigrid_restrict_power(model', gp)
  /\ fine' = <<gp>> \o fine
  /\ gt' = [x \in Plane(model') |-> "unset"]
  /\ UNCHANGED pc /\ unchangedSteady

\* The coarsest grid of the multigrid, or the only one of the detailed model.
set_heuristic_temp ==
  /\ pc = "heuristic" \/ (pc = "coarsen" /\ Coarsest)
  /\ gt' = [x \in Plane(model) |-> "guess"]
  /\ pc' = "iterate"
  /\ UNCHANGED <<model, gp, fine>> /\ unchangedSteady

\* Iterations until the temperatures stop changing.
iterate ==
  /\ pc = "iterate"
  /\ gt' = [x \in DOMAIN gt |-> IF gt[x] = "unset" THEN "unset" ELSE "solved"]
  /\ pc' = IF fine = <<>> THEN "solved" ELSE "prolong"
  /\ UNCHANGED <<model, gp, fine>> /\ unchangedSteady

prolong ==
  /\ pc = "prolong"
  /\ gt' = multigrid_prolong_temp(model, gt)
  /\ model' = finer(model)
  /\ gp' = Head(fine)
  /\ fine' = Tail(fine)
  /\ pc' = "iterate"
  /\ unchangedSteady

-----------------------------------------------------------------------------
(* direct_SLU *)

TheGrid == Grid(cfg, model)
NodeCount == TheGrid.nl * model.rows * model.cols + extra_nodes(TheGrid)

\* The node whose row is built next; the loops take the package nodes in another order.
NextNode == CHOOSE v \in Nodes(TheGrid) : Index(TheGrid, v) = coo.built

build_steady_grid_matrix ==
  /\ pc = "matrix" /\ coo.built < NodeCount
  /\ coo' = [built |-> coo.built + 1,
             curidx |-> coo.curidx + rowEntries(matrixRow(TheGrid, NextNode))]
  /\ UNCHANGED <<cfg, bgmap, trans, rk, model, pc, gp, fine, gt>> /\ unchangedCall

direct_SLU ==
  /\ pc = "matrix" /\ coo.built = NodeCount
  /\ IF coo.curidx = nnz(TheGrid)
       THEN pc' = "solved" /\ gt' = [x \in DOMAIN gt |-> "solved"]
       ELSE pc' = "fatal" /\ UNCHANGED gt
  /\ UNCHANGED <<cfg, bgmap, trans, rk, model, gp, fine, coo>> /\ unchangedCall

-----------------------------------------------------------------------------
\* The call ends: temp becomes the next call's initial temperature and is freed.
endCalculate ==
  /\ pc = "solved"
  /\ vec' = [vec EXCEPT !.init = vec.temp]
  /\ last_temp' = "init"
  /\ gp' = <<>> /\ gt' = <<>> /\ coo' = NoCoo /\ rk' = NoSolution
  /\ pc' = "idle"
  /\ row' = NoPower(cfg) /\ overall' = NoPower(cfg) /\ lines' = 0
  /\ UNCHANGED <<cfg, model, start, bgmap, do_transient, calls, trans, fine>>

Next ==
  \/ populate_R_model_grid \/ populate_C_model_grid \/ initTemp \/ switchAnalysis
  \/ beginCalculate \/ readRow \/ compute_temp_grid \/ rk4Retry \/ rk4Step
  \/ steady_state_temp_grid \/ coarsen \/ set_heuristic_temp \/ iterate \/ prolong
  \/ build_steady_grid_matrix \/ direct_SLU \/ endCalculate

Spec == Init /\ [][Next]_vars
-----------------------------------------------------------------------------
(* Properties *)

\* The model's state has its type: the grids, the vectors' ages, the phase of a call.
GridTypeOK ==
  /\ cfg \in Configs
  /\ model \in [rows : 1 .. cfg.rows, cols : 1 .. cfg.cols, quarter : 0 .. cfg.rows,
                r_ready : BOOLEAN, c_ready : BOOLEAN]
  /\ pc \in {"alloc", "resistances", "init", "idle", "rows", "compute", "rk4", "coarsen", "heuristic",
             "iterate", "prolong", "matrix", "solved", "fatal"}
  /\ do_transient \in BOOLEAN /\ calls \in 0 .. MaxCalls /\ lines \in 0 .. MaxLines
  /\ vec \in [init : Nat, temp : Nat] /\ trans \in Nat
  /\ last_temp \in {"none", "temp", "init"}
  /\ rk.t \in 0 .. sampling_intvl /\ rk.h \in 0 .. sampling_intvl + MIN_STEP
  /\ coo.built \in 0 .. NodeCount

\* A link that leaves a node for another comes back with the same resistance.
Reciprocal ==
  \A v \in Nodes(TheGrid) : \A e \in steadyLinks(TheGrid, v) :
     e[1] = Ambient \/ <<v, e[2]>> \in steadyLinks(TheGrid, e[1])

Column(v) == IF v = Ambient THEN AmbientColumn ELSE Index(TheGrid, v)

\* The matrix row of a node holds the links of the iteration, no other, and its
\* right-hand side holds the resistances to the ambient.
MatrixIsIteration ==
  \A v \in Nodes(TheGrid) :
     /\ matrixRow(TheGrid, v) = {<<Column(e[1]), e[2]>> : e \in steadyLinks(TheGrid, v)}
     /\ build_steady_rhs_vector(TheGrid, v) =
          {e[2] : e \in {f \in steadyLinks(TheGrid, v) : f[1] = Ambient}}

\* Where the transient network is known to differ: the solder's slope, whose nodes
\* do not see the substrate.
SlopeIsIteration ==
  \A v \in Nodes(TheGrid) :
     slopeLinks(TheGrid, v) =
       {e \in steadyLinks(TheGrid, v) : \A d \in Sides : v = <<"SOLDER", d>> => e[1] # <<"SUB", d>>}

\* The three ways the code writes the network down describe one network, whatever
\* the grid, the number of layers and the secondary path: the matrix of SuperLU has
\* the iteration's links and as many entries as the arrays are made for, the slopes
\* have them but for the solder nodes' missing term, and heat that leaves a node
\* arrives at another (not in detailed 3D, whose lateral resistances are the
\* neighbour's).  It is checked on every grid the multigrid visits.
NetworkConsistent ==
  /\ pc # "fatal"
  /\ pc \in {"resistances", "iterate"} =>
       /\ ~cfg.det => Reciprocal
       /\ SlopeIsIteration
       /\ model.rows > 1 /\ model.cols > 1 => MatrixIsIteration

Area(S, f(_)) == MapThenSumSet(f, S)
Steady == {"coarsen", "heuristic", "iterate", "prolong", "matrix", "solved"}
PowerMapped(b, powers) ==
  \A n \in LayerNos(cfg) :
     Area(DOMAIN powers[n], LAMBDA x : powers[n][x]) =
     Area(BlockNos(cfg, n),
          LAMBDA u : b[base(cfg, n) + u] * layer(cfg, n).flp[u].w * layer(cfg, n).flp[u].h)

\* The occupancies of every cell add up to the cell (the comment of test_b2gmap), a
\* cell lists a block exactly when the block's cells include it, and the cells a block's
\* temperature is read from are cells it covers.
MapsAgree ==
  \A n \in LayerNos(cfg) :
     LET map == bgmap[layer(cfg, n).owner]
     IN  /\ \A x \in Plane(model) :
              /\ Area(DOMAIN map.b2g[x], LAMBDA u : map.b2g[x][u])
                   = (cfg.width \div model.cols) * (cfg.height \div model.rows)
              /\ \A u \in DOMAIN map.b2g[x] : map.b2g[x][u] > 0
              /\ map.res[x] # {} /\ map.res[x] \subseteq DOMAIN map.b2g[x]
         /\ \A u \in BlockNos(cfg, n) :
              /\ xlate_temp_g2b(cfg, bgmap, n, u) # {}
              /\ \A x \in xlate_temp_g2b(cfg, bgmap, n, u) :
                   x \in DOMAIN map.b2g /\ u \in DOMAIN map.b2g[x]

\* No power is lost or made up between the columns of the trace and the cells: each
\* layer's cells carry the power of its blocks and no other layer's, in a transient
\* row, in the average over the rows, and on every coarser grid of the multigrid.
PowerConserved ==
  /\ pc = "resistances" => MapsAgree
  /\ pc = "rk4" => PowerMapped(row, gp)
  /\ pc \in Steady =>
       /\ PowerMapped(overall, gp)
       /\ \A k \in DOMAIN fine : PowerMapped(overall, fine[k])

\* The steady state is solved on the model that was built: the resistances along z
\* belong to the grid in use at every level, no cell starts an iteration without a
\* value, and the solution is one of the finest grid, with the fine grid's power and
\* the model as it was before.
SteadySolvesModel ==
  /\ model.rows * power2[model.quarter] = cfg.rows
  /\ model.cols * power2[model.quarter] = cfg.cols
  /\ pc = "iterate" => DOMAIN gt = Plane(model) /\ \A x \in DOMAIN gt : gt[x] = "guess"
  /\ pc \in {"solved", "idle", "rows", "rk4"} => model.quarter = 0
  /\ pc = "solved" =>
       /\ gt = [x \in Plane(model) |-> "solved"]
       /\ gp = xlate_vector_b2g(cfg, bgmap, overall)
       /\ fine = <<>>

\* The temperatures of a call go on where the last ones stopped: the grid's
\* temperatures never go back to an earlier interval, although every call starts them
\* from the blocks' of init_temp, and between calls init_temp is as old as the grid.
\* Calls without a transient solution leave both alone.
TemperatureContinuity ==
  [][/\ trans' \in {trans, trans + 1}
     /\ pc' = "idle" => vec'.init = trans'
     /\ (pc = "rk4" /\ pc' = "rows") => vec'.temp = trans + 1]_vars

\* What the model starts from is a temperature for every block of every layer and
\* every package node: the configured one, or exactly what the earlier run dumped for
\* that node, in whatever order the file lists a layer's blocks.
StartsFromTheFile ==
  pc = "idle" /\ calls = 0 => start.vals \in {set_temp_grid(cfg, InitTemp), DumpedTemp(cfg)}
=============================================================================
