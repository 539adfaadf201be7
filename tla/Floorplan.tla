----------------------------- MODULE Floorplan -----------------------------
(***************************************************************************)
(* HotFloorplan: simulated annealing over the Polish expressions of Npe     *)
(* (flp.cc).  An expression becomes a slicing tree whose shape curves are    *)
(* added bottom up and sized top down (shape.cc); small dead blocks are      *)
(* compacted away, the L2 and the rim are wrapped around the core, and the    *)
(* powers and wires of the blocks follow their slots through all of it.       *)
(* Slots, units and positions count from 0, entries of curves from 1;         *)
(* lengths are integers.                                                      *)
(***************************************************************************)
EXTENDS Npe, Sequences, FiniteSetsExt, TLC

CONSTANTS
  NCore,              \* core units of the description
  Shapes,             \* the curves of the core units: widths grow, heights fall
  DescWires,          \* <<i, j, density>>; unit NCore is the L2
  DescPower,          \* <<slot, power>> of the placeholder's slots
  FlpConfigs,         \* [wrap_l2, model_rim : BOOLEAN, compact_ratio : <<num, den>>]
  RimThickness,
  L2Size(_, _),       \* <<x, y>>: width of the arms, height of the base, of a core's sides
  MaxTemp(_, _),      \* hottest block of a plan under a power vector
  lambdaA, lambdaT, lambdaW,
  Kmoves, Rreject,    \* <<num, den>>
  Nmax

MAX_STACK == 128
L2_ARMS == 2
NL == 4
EXTRA_NODES == 12

ASSUME SizeAssumption == NCore \in 2 .. MAX_STACK
ASSUME ConfigAssumption == \A c \in FlpConfigs : c.wrap_l2 \in BOOLEAN /\ c.model_rim \in BOOLEAN
ASSUME WireAssumption == \A t \in DescWires : t[1] \in 0 .. NCore /\ t[2] \in 0 .. NCore
\* A power file names core units, the L2 and its arms, never a dead block.
ASSUME SlotPowerAssumption ==
  \A t \in DescPower :
     /\ t = <<t[1], t[2]>>
     /\ t[1] \in 0 .. NCore - 1 \/ t[1] \in 2 * NCore - 1 .. 2 * NCore - 1 + L2_ARMS
ASSUME ShapeAssumption ==
  /\ DOMAIN Shapes = 0 .. NCore - 1
  /\ \A u \in DOMAIN Shapes : \A k \in 1 .. Len(Shapes[u]) - 1 :
        Shapes[u][k].x < Shapes[u][k + 1].x /\ Shapes[u][k].y > Shapes[u][k + 1].y

VARIABLES
  flp_cfg, phase,
  flp,        \* [n_units, units, wires]: units of the slots in use, all wires
  model_n_units,  \* n_units of the thermal model
  power, tpower,
  compacted, rim_blocks,
  expr, next, best,
  cost, new_cost, best_cost,
  run         \* [steps, i, downs, rejects]
flp_vars == <<flp_cfg, phase, flp, model_n_units, power, tpower, compacted, rim_blocks, expr, next, best,
          cost, new_cost, best_cost, run>>

larger(a, b) == IF a >= b THEN a ELSE b
smaller(a, b) == IF a <= b THEN a ELSE b
abs(a) == larger(a, -a)
Rect(x, y, w, h) == [x |-> x, y |-> y, w |-> w, h |-> h]

----------------------------------------------------------------------------
(* Shape curves and slicing trees (shape.cc).                               *)

\* A horizontal cut is a vertical one with x and y exchanged; a curve is then also
\* read backwards.
turn(c) == [c EXCEPT !.x = c.y, !.y = c.x]
turned(curve) == [k \in DOMAIN curve |-> turn(curve[Len(curve) + 1 - k])]

\* Mutant: the curve with the lower entry advances.
advanceLower(a, b) == a <= b
\* The left curve's entry limits the height, and its next one is taken.
advanceLeft(a, b) == a >= b

verticalAdd(c1, c2) ==
  LET entry(i, j) == [x |-> c1[i].x + c2[j].x, y |-> larger(c1[i].y, c2[j].y),
                      left_pos |-> i, right_pos |-> j, median |-> c1[i].x]
      walk[i \in 1 .. Len(c1) + 1, j \in 1 .. Len(c2) + 1] ==
        IF i > Len(c1) \/ j > Len(c2) THEN <<>>
        ELSE <<entry(i, j)>> \o (IF advanceLeft(c1[i].y, c2[j].y) THEN walk[i + 1, j] ELSE walk[i, j + 1])
  IN  walk[1, 1]

shape_add(c1, c2, cut) ==
  IF cut = CUT_VERTICAL THEN verticalAdd(c1, c2)
  ELSE LET sum == turned(verticalAdd(turned(c1), turned(c2)))
       IN  [k \in DOMAIN sum |-> [sum[k] EXCEPT !.left_pos = Len(c1) + 1 - @,
                                                !.right_pos = Len(c2) + 1 - @]]

\* The nodes of the tree are the positions of the expression.  The stack after each
\* position; the children of a cut; the first leaf and the curve of every node.
tree_from_NPE(e) ==
  LET stack[i \in -1 .. Size(e) - 1] ==
        IF i = -1 THEN <<>>
        ELSE IF IsUnit(e, i) THEN Append(stack[i - 1], i)
        ELSE Append(SubSeq(stack[i - 1], 1, Len(stack[i - 1]) - 2), i)
      right(i) == stack[i - 1][Len(stack[i - 1])]
      left(i) == stack[i - 1][Len(stack[i - 1]) - 1]
      first[i \in DOMAIN e] == IF IsUnit(e, i) THEN i ELSE first[left(i)]
      curve[i \in DOMAIN e] ==
        IF IsUnit(e, i) THEN Shapes[e[i]]
        ELSE shape_add(curve[left(i)], curve[right(i)], e[i])
      leaves == {i \in DOMAIN e : IsUnit(e, i)}
  IN     [i \in leaves |-> [label |-> e[i], first |-> i, curve |-> Shapes[e[i]]]]
      @@ [i \in DOMAIN e \ leaves |->
            [label |-> e[i], first |-> first[i], curve |-> curve[i], left |-> left(i), right |-> right(i)]]

\* The first entry of least area.
min_area_pos(curve) ==
  LET area(k) == curve[k].x * curve[k].y
  IN  CHOOSE k \in DOMAIN curve :
        /\ \A j \in DOMAIN curve : area(k) <= area(j)
        /\ \A j \in 1 .. k - 1 : area(k) < area(j)

\* A vertical cut of p between x1 and x2 wide children of heights y1 and y2: a dead
\* block fills the corner above the lower child, or that child grows over it.
divide(ratio, p, median, x1, x2, y1, y2) ==
  LET compact == abs(y2 - y1) * ratio[2] <= smaller(y1, y2) * ratio[1]
  IN  [left |-> Rect(p.x, p.y, x1, IF compact THEN larger(y1, y2) ELSE y1),
       right |-> Rect(p.x + median, p.y, x2, IF compact THEN larger(y1, y2) ELSE y2),
       compact |-> compact,
       dead |-> Rect(p.x + (IF y2 >= y1 THEN 0 ELSE x1), p.y + smaller(y1, y2),
                     IF y2 >= y1 THEN x1 ELSE x2, abs(y2 - y1))]

\* Mutant: the children keep their shapes.
sizeVerticalRigid(ratio, p, median, c1, c2) ==
  divide(ratio, p, median, c1.x, c2.x, c1.y, c2.y)

\* The children grow into the area an ancestor compacted away.
sizeVertical(ratio, p, median, c1, c2) ==
  LET grow == larger(0, p.h - larger(c1.y, c2.y))
  IN  divide(ratio, p, median, c1.x, c2.x + larger(0, p.w - (c1.x + c2.x)), c1.y + grow, c2.y + grow)

turnRect(r) == Rect(r.y, r.x, r.h, r.w)
sizeHorizontal(ratio, p, median, c1, c2) ==
  LET s == sizeVertical(ratio, turnRect(p), median, turn(c1), turn(c2))
  IN  [s EXCEPT !.left = turnRect(@), !.right = turnRect(@), !.dead = turnRect(@)]

\* Node i at entry pos of its curve in the rectangle r; how a cut divides it.
placed(tree, ratio, i, pos, r) ==
  LET t == tree[i]
      entry == t.curve[pos]
      c1 == tree[t.left].curve[entry.left_pos]
      c2 == tree[t.right].curve[entry.right_pos]
  IN  [pos |-> pos, rect |-> r,
       cut |-> CASE t.label >= 0 -> <<>>
                 [] t.label = CUT_VERTICAL -> <<sizeVertical(ratio, r, entry.median, c1, c2)>>
                 [] OTHER -> <<sizeHorizontal(ratio, r, entry.median, c1, c2)>>]

placedRoot(tree, ratio, i, pos) ==
  placed(tree, ratio, i, pos, Rect(0, 0, tree[i].curve[pos].x, tree[i].curve[pos].y))

placedChild(tree, ratio, i, up, parent, entry) ==
  IF i = parent.left THEN placed(tree, ratio, i, entry.left_pos, up.cut[1].left)
                     ELSE placed(tree, ratio, i, entry.right_pos, up.cut[1].right)

\* Every node's place, from the root down.
recursive_sizing(tree, ratio) ==
  LET root == Size(tree) - 1
      parent(i) == CHOOSE j \in DOMAIN tree : tree[j].label < 0 /\ i \in {tree[j].left, tree[j].right}
      below(i, j, up) == placedChild(tree, ratio, i, up, tree[j], tree[j].curve[up.pos])
      place[i \in DOMAIN tree] ==
        IF i = root THEN placedRoot(tree, ratio, i, min_area_pos(tree[i].curve))
        ELSE below(i, parent(i), place[parent(i)])
  IN  place

\* Nodes are visited root first and left before right.
visitedBefore(tree, j, i) ==
  j # i /\ (j < tree[i].first \/ (tree[j].first <= tree[i].first /\ i < j))

\* The dead blocks that stay take the slots after the core units in that order.
slotUnits(tree, place, core, kept) ==
  LET rank(i) == Cardinality({j \in kept : visitedBefore(tree, j, i)})
  IN     [k \in 0 .. core - 1 |-> place[CHOOSE i \in DOMAIN tree : tree[i].label = k].rect]
      @@ [k \in core .. core + Cardinality(kept) - 1 |->
            place[CHOOSE i \in kept : rank(i) = k - core].cut[1].dead]

fillSlots(f, tree, place, core, kept) ==
  [n_units |-> core + Cardinality(kept), units |-> slotUnits(tree, place, core, kept), wires |-> f.wires]

placeTree(f, e, tree, place) ==
  fillSlots(f, tree, place, (f.n_units + 1) \div 2,
            {i \in DOMAIN e : ~IsUnit(e, i) /\ ~place[i].cut[1].compact})

sizeTree(f, e, tree, ratio) == placeTree(f, e, tree, recursive_sizing(tree, ratio))
tree_to_flp(f, e, ratio) == sizeTree(f, e, tree_from_NPE(e), ratio)

----------------------------------------------------------------------------
(* Floor plans (flp.cc).                                                     *)

lefts(units) == {units[k].x : k \in DOMAIN units}
rights(units) == {units[k].x + units[k].w : k \in DOMAIN units}
bottoms(units) == {units[k].y : k \in DOMAIN units}
tops(units) == {units[k].y + units[k].h : k \in DOMAIN units}
get_total_width(units) == Max(rights(units)) - Min(lefts(units))
get_total_height(units) == Max(tops(units)) - Min(bottoms(units))
get_total_area(units) == MapThenSumSet(LAMBDA k : units[k].w * units[k].h, DOMAIN units)

\* Twice the distance of two centres.
get_manhattan_dist(units, i, j) ==
    abs(2 * (units[j].x - units[i].x) + units[j].w - units[i].w)
  + abs(2 * (units[j].y - units[i].y) + units[j].h - units[i].h)

wireMetric(units, wires) ==
  MapThenSumSet(LAMBDA t : t[3] * get_manhattan_dist(units, t[1], t[2]), wires)
get_wire_metric(f) ==
  wireMetric(f.units, {t \in f.wires : t[1] < f.n_units /\ t[2] < f.n_units})

flp_evaluate_metric(f, p) ==
  lambdaA * get_total_area(f.units) + lambdaT * MaxTemp(f.units, p) + lambdaW * get_wire_metric(f)

is_horiz_adj(units, i, j) ==
  LET a == units[i]
      b == units[j]
      corner == \/ a.x + a.w = b.x /\ a.y + a.h = b.y
                \/ a.x = b.x + b.w /\ a.y = b.y + b.h
                \/ a.x + a.w = b.x /\ a.y = b.y + b.h
                \/ a.x = b.x + b.w /\ a.y + a.h = b.y
  IN  /\ i # j
      /\ ~corner
      /\ a.x = b.x + b.w \/ a.x + a.w = b.x
      /\ b.y \in a.y .. a.y + a.h \/ b.y + b.h \in a.y .. a.y + a.h
         \/ a.y \in b.y .. b.y + b.h \/ a.y + a.h \in b.y .. b.y + b.h

is_vert_adj(units, i, j) ==
  is_horiz_adj([k \in DOMAIN units |-> turnRect(units[k])], i, j)

get_shared_len(units, i, j) ==
  LET a == units[i]
      b == units[j]
  IN  CASE is_vert_adj(units, i, j) -> smaller(a.x + a.w, b.x + b.w) - larger(a.x, b.x)
        [] is_horiz_adj(units, i, j) -> smaller(a.y + a.h, b.y + b.h) - larger(a.y, b.y)
        [] OTHER -> 0

\* The wires of the L2, to its base and to each arm.
copy_l2_info(wires, to) ==
  {t \in wires : ~ \/ t[1] \in to .. to + L2_ARMS /\ t[2] < NCore
                   \/ t[2] \in to .. to + L2_ARMS /\ t[1] < NCore}
  \cup {<<to + c, t[2], t[3]>> : c \in 0 .. L2_ARMS, t \in {w \in DescWires : w[1] = NCore /\ w[2] < NCore}}
  \cup {<<t[1], to + c, t[3]>> : c \in 0 .. L2_ARMS, t \in {w \in DescWires : w[2] = NCore /\ w[1] < NCore}}

\* Slots of the core and of its dead blocks, with the L2, and with the rim.
SlicedUnits == 2 * NCore - 1
wrappedUnits(c) == SlicedUnits + (IF c.wrap_l2 THEN L2_ARMS + 1 ELSE 0)
placeholderUnits(c) ==
  wrappedUnits(c) + (IF c.model_rim THEN 2 * wrappedUnits(c) + 2 ELSE 0)

flp_placeholder(c) ==
  LET core == {t \in DescWires : t[1] < NCore /\ t[2] < NCore}
  IN  [n_units |-> placeholderUnits(c),
       units |-> [k \in 0 .. placeholderUnits(c) - 1 |-> Rect(0, 0, 0, 0)],
       wires |-> IF c.wrap_l2 THEN copy_l2_info(core, SlicedUnits) ELSE core]

flp_translate(units, x, y) ==
  LET dx == x - Min(lefts(units))
      dy == y - Min(bottoms(units))
  IN  [k \in DOMAIN units |-> [units[k] EXCEPT !.x = @ + dx, !.y = @ + dy]]

\* Slots appended after those in use.
appended(units, s) ==
  LET n == Cardinality(DOMAIN units)
  IN  units @@ [k \in n .. n + Len(s) - 1 |-> s[k - n + 1]]

placeL2(f, core_width, core_height, x, y) ==
  [n_units |-> f.n_units + L2_ARMS + 1,
   units |-> appended(flp_translate(f.units, x, y),
                      <<Rect(0, 0, 2 * x + core_width, y), Rect(0, y, x, core_height),
                        Rect(x + core_width, y, x, core_height)>>),
   wires |-> copy_l2_info(f.wires, f.n_units)]

flp_wrap_l2(f) ==
  LET size == L2Size(get_total_width(f.units), get_total_height(f.units))
  IN  placeL2(f, get_total_width(f.units), get_total_height(f.units), size[1], size[2])

\* The strips of one block, west, east, north and south, each longer at one corner.
stripsOf(u, t, width, height) ==
  LET west == u.x = t
      east == u.x + u.w = width - t
      north == u.y + u.h = height - t
      south == u.y = t
      more(b) == IF b THEN t ELSE 0
  IN     (IF west THEN <<Rect(0, u.y, t, u.h + more(north))>> ELSE <<>>)
      \o (IF east THEN <<Rect(u.x + u.w, u.y - more(south), t, u.h + more(south))>> ELSE <<>>)
      \o (IF north THEN <<Rect(u.x, u.y + u.h, u.w + more(east), t)>> ELSE <<>>)
      \o (IF south THEN <<Rect(u.x - more(west), 0, u.w + more(west), t)>> ELSE <<>>)

appendStrips(f, moved, strips, n) ==
  [n_units |-> n + Len(strips),
   units |-> appended(moved, strips),
   wires |-> {w \in f.wires : larger(w[1], w[2]) \notin n .. n + Len(strips) - 1}]

\* The strips of the blocks in the first n slots.
rimStrips(moved, n, t, width, height) ==
  LET strips[k \in 0 .. n] ==
        IF k = 0 THEN <<>> ELSE strips[k - 1] \o stripsOf(moved[k - 1], t, width, height)
  IN  strips[n]

placeStrips(f, moved, t, width, height) ==
  appendStrips(f, moved, rimStrips(moved, f.n_units, t, width, height), f.n_units)

flp_wrap_rim(f, t) ==
  placeStrips(f, flp_translate(f.units, t, t), t,
              get_total_width(f.units) + 2 * t, get_total_height(f.units) + 2 * t)

\* Mutant: the wires of the dead blocks' slots are kept.
restore_dead_blocksWired(c, f, gone, rim) ==
  LET n == f.n_units - (IF c.model_rim THEN rim ELSE 0) - (IF c.wrap_l2 THEN L2_ARMS + 1 ELSE 0) + gone
  IN  [f EXCEPT !.n_units = n,
                !.units = [k \in 0 .. n - 1 |-> IF k < NCore THEN f.units[k] ELSE Rect(0, 0, 0, 0)]]

restore_dead_blocks(c, f, gone, rim) ==
  LET n == f.n_units - (IF c.model_rim THEN rim ELSE 0) - (IF c.wrap_l2 THEN L2_ARMS + 1 ELSE 0) + gone
      dead == NCore .. 2 * NCore - 2
  IN  [n_units |-> n,
       units |-> [k \in 0 .. n - 1 |-> IF k < NCore THEN f.units[k] ELSE Rect(0, 0, 0, 0)],
       wires |-> {w \in f.wires : ~ \/ w[1] \in dead /\ w[2] < n
                                    \/ w[2] \in dead /\ w[1] < n}]

----------------------------------------------------------------------------
(* The power vector and the thermal model's size (temperature_block.cc).      *)

nodes(n) == NL * n + EXTRA_NODES

\* src without the window at .. at + size - 1; what is not written stays.  A power
\* vector is the set of its nodes with a power.
trim_hotspot_vector(dst, src, n_nodes, at, size) ==
  LET written == 0 .. smaller(at, n_nodes) - 1 \cup at .. n_nodes - 1 - size
  IN       {t \in src : t[1] < at /\ t[1] < n_nodes}
      \cup {<<t[1] - size, t[2]>> : t \in {u \in src : u[1] \in at + size .. n_nodes - 1}}
      \cup {t \in dst : t[1] \notin written}

\* A plan for the expression e: sized, powers trimmed, wrapped, model resized.
finished(with_rim, with_l2, gone, p) ==
  [flp |-> with_rim, compacted |-> gone, rim_blocks |-> with_rim.n_units - with_l2.n_units, power |-> p]
wrapRim(c, with_l2, gone, p) ==
  finished(IF c.model_rim THEN flp_wrap_rim(with_l2, RimThickness) ELSE with_l2, with_l2, gone, p)
wrapped(c, sized, gone, m, dst, src) ==
  wrapRim(c, IF c.wrap_l2 THEN flp_wrap_l2(sized) ELSE sized, gone,
          trim_hotspot_vector(dst, src, nodes(m), sized.n_units, gone))
compaction(c, f, sized, m, dst, src) ==
  wrapped(c, sized, (f.n_units - 1) \div 2 - (sized.n_units - (f.n_units + 1) \div 2), m, dst, src)
planFor(c, f, m, dst, src, e) ==
  compaction(c, f, tree_to_flp(f, e, c.compact_ratio), m, dst, src)

\* What ends the program: a cut without two subtrees, two equal cuts in a row, more
\* blocks than the model was allocated for.
planFatal(c, plan, e) ==
  ~Balloted(e) \/ ~Normalized(e) \/ plan.flp.n_units > placeholderUnits(c)

----------------------------------------------------------------------------
(* floorplan().                                                              *)

tries == (Kmoves[1] * flp.n_units) \div Kmoves[2]
NewStep(k) == [steps |-> k, i |-> 0, downs |-> 0, rejects |-> 0]

FlpInit ==
  /\ flp_cfg \in FlpConfigs
  /\ phase = "start"
  /\ flp = flp_placeholder(flp_cfg)
  /\ model_n_units = flp.n_units
  /\ power = {t \in DescPower : t[1] < wrappedUnits(flp_cfg)}
  /\ tpower = {}
  /\ compacted = 0 /\ rim_blocks = 0
  /\ expr = NPE_get_initial(NCore) /\ next = expr /\ best = expr
  /\ cost = 0 /\ new_cost = 0 /\ best_cost = 0
  /\ run = NewStep(0)

\* The plan of e becomes flp, to be evaluated at the label where.
evaluate(f, e, where) ==
  IF ~Balloted(e.elements)
    THEN phase' = "fatal" /\ UNCHANGED <<flp, model_n_units, tpower, compacted, rim_blocks>>
    ELSE \E plan \in {planFor(flp_cfg, f, model_n_units, tpower, power, e.elements)} :
             /\ phase' = IF planFatal(flp_cfg, plan, e.elements) THEN "fatal" ELSE where
             /\ flp' = plan.flp
             /\ model_n_units' = plan.flp.n_units
             /\ tpower' = plan.power
             /\ compacted' = plan.compacted
             /\ rim_blocks' = plan.rim_blocks

\* The rim and the L2 disappear for the slicing tree.
hidden ==
  LET without == IF flp_cfg.model_rim THEN (flp.n_units - 2) \div 3 ELSE flp.n_units
      n == without - (IF flp_cfg.wrap_l2 THEN L2_ARMS + 1 ELSE 0)
  IN  [n_units |-> n, units |-> [k \in 0 .. n - 1 |-> flp.units[k]], wires |-> flp.wires]

begin ==
  /\ phase = "start"
  /\ evaluate(hidden, expr, "initial")
  /\ UNCHANGED <<flp_cfg, power, expr, next, best, cost, new_cost, best_cost, run>>

restored == restore_dead_blocks(flp_cfg, flp, compacted, rim_blocks)

firstCost ==
  /\ phase = "initial"
  /\ cost' = flp_evaluate_metric(flp, tpower)
  /\ best_cost' = cost'
  /\ best' = expr
  /\ flp' = restored
  /\ \E cold \in BOOLEAN : phase' = IF ~cold /\ run.steps < Nmax THEN "anneal" ELSE "final"
  /\ UNCHANGED <<flp_cfg, model_n_units, power, tpower, compacted, rim_blocks, expr, next, new_cost, run>>

more == run.i < 2 * tries /\ run.downs < tries

tryMove ==
  /\ phase = "anneal" /\ more
  /\ next' \in make_random_move(expr)
  /\ evaluate(flp, next', "tried")
  /\ UNCHANGED <<flp_cfg, power, expr, best, cost, new_cost, best_cost, run>>

\* M3 refused, or made last, in MAX_MOVES moves in a row.
giveUp ==
  /\ phase = "anneal" /\ more
  /\ \E k \in DOMAIN expr.flip_pos : ~swapLegal(expr, expr.flip_pos[k])
  /\ phase' = "gave up"
  /\ UNCHANGED <<flp_cfg, flp, model_n_units, power, tpower, compacted, rim_blocks, expr, next, best,
                 cost, new_cost, best_cost, run>>

\* Mutant: the best expression stays when the best cost changes.
acceptStale ==
  /\ expr' = next
  /\ cost' = new_cost'
  /\ best' = best
  /\ best_cost' = smaller(new_cost', best_cost)
  /\ run' = [run EXCEPT !.downs = IF new_cost' < cost THEN @ + 1 ELSE @, !.i = @ + 1]

\* Downhill always; uphill, or at equal cost, by chance.
accept ==
  /\ expr' = next
  /\ cost' = new_cost'
  /\ best' = IF new_cost' < cost /\ new_cost' < best_cost THEN next ELSE best
  /\ best_cost' = IF new_cost' < cost /\ new_cost' < best_cost THEN new_cost' ELSE best_cost
  /\ run' = [run EXCEPT !.downs = IF new_cost' < cost THEN @ + 1 ELSE @, !.i = @ + 1]

reject ==
  /\ new_cost' > cost
  /\ run' = [run EXCEPT !.rejects = @ + 1, !.i = @ + 1]
  /\ UNCHANGED <<expr, cost, best, best_cost>>

decide ==
  /\ phase = "tried"
  /\ new_cost' = flp_evaluate_metric(flp, tpower)
  /\ flp' = restored
  /\ accept \/ reject
  /\ next' = expr'
  /\ phase' = "anneal"
  /\ UNCHANGED <<flp_cfg, model_n_units, power, tpower, compacted, rim_blocks>>

\* The end of one temperature: too many rejects end the annealing, and so does a
\* temperature below the last.
cool ==
  /\ phase = "anneal" /\ ~more
  /\ IF run.rejects * Rreject[2] > run.i * Rreject[1]
       THEN phase' = "final" /\ UNCHANGED run
       ELSE /\ run' = NewStep(run.steps + 1)
            /\ \E cold \in BOOLEAN : phase' = IF ~cold /\ run'.steps < Nmax THEN "anneal" ELSE "final"
  /\ UNCHANGED <<flp_cfg, flp, model_n_units, power, tpower, compacted, rim_blocks, expr, next, best,
                 cost, new_cost, best_cost>>

\* The plan of the best expression; now the power vector itself is trimmed.
selectBest ==
  /\ phase = "final"
  /\ \E plan \in {planFor(flp_cfg, flp, model_n_units, power, power, best.elements)} :
         /\ phase' = IF planFatal(flp_cfg, plan, best.elements) THEN "fatal" ELSE "done"
         /\ flp' = plan.flp
         /\ model_n_units' = plan.flp.n_units
         /\ power' = plan.power
         /\ compacted' = plan.compacted
         /\ rim_blocks' = plan.rim_blocks
  /\ UNCHANGED <<flp_cfg, tpower, expr, next, best, cost, new_cost, best_cost, run>>

FlpNext == begin \/ firstCost \/ tryMove \/ giveUp \/ decide \/ cool \/ selectBest
FlpSpec == FlpInit /\ [][FlpNext]_flp_vars

----------------------------------------------------------------------------
(* Properties.                                                               *)

Exprs == {expr, next, best}
planned == phase \in {"initial", "tried", "done"}
shown == CASE phase = "done" -> best [] phase = "tried" -> next [] OTHER -> expr

\* Every variable stays in its type: the slots in use are those of the plan, the
\* counters stay below the limits of the loops.
FloorplanTypeOK ==
  /\ flp_cfg \in FlpConfigs
  /\ phase \in {"start", "initial", "anneal", "tried", "final", "done", "gave up", "fatal"}
  /\ DOMAIN flp.units = 0 .. flp.n_units - 1
  /\ \A t \in flp.wires : t[1] \in 0 .. placeholderUnits(flp_cfg) - 1 /\ t[2] \in 0 .. placeholderUnits(flp_cfg) - 1
  /\ model_n_units \in 1 .. placeholderUnits(flp_cfg)
  /\ \A t \in power \cup tpower : t[1] \in 0 .. nodes(placeholderUnits(flp_cfg)) - 1
  /\ compacted \in 0 .. NCore - 1 /\ rim_blocks \in Nat
  /\ cost \in Nat /\ new_cost \in Nat /\ best_cost \in Nat
  /\ run.steps \in 0 .. Nmax /\ run.rejects \in 0 .. run.i /\ run.downs \in 0 .. run.i - run.rejects

\* However the moves follow one another, every expression is a permutation of the
\* units with one cut less, balloted and normalized, and the positions and counts the
\* moves update piecemeal (NPE_swap_cut_unit, update_unit_pos) are those a scan of the
\* expression finds; so no fatal of npe.cc, or of the stack of shape.cc, is reached.
PolishNormalized == \A x \in Exprs : WellFormed(x, NCore)

overlapping(a, b) ==
  a.x < b.x + b.w /\ b.x < a.x + a.w /\ a.y < b.y + b.h /\ b.y < a.y + a.h

\* After compaction, the L2's arms and the rim's corners, the blocks of a plan tile
\* its bounding box: no two overlap, their areas add up to it, the lengths each
\* shares with the others (get_shared_len, what the block model's lateral resistances
\* are made of) and with the border add up to its perimeter, and every core unit got
\* at least one of its shapes.  No plan ends the program by needing more blocks than
\* the thermal model was allocated for.
PlanTiles ==
  /\ phase # "fatal"
  /\ planned =>
    LET u == flp.units
        onBorder(r) == (IF r.x = 0 THEN r.h ELSE 0) + (IF r.x + r.w = get_total_width(u) THEN r.h ELSE 0)
                     + (IF r.y = 0 THEN r.w ELSE 0) + (IF r.y + r.h = get_total_height(u) THEN r.w ELSE 0)
    IN  /\ \A i, j \in DOMAIN u : i < j => ~overlapping(u[i], u[j])
        /\ get_total_area(u) = get_total_width(u) * get_total_height(u)
        /\ \A i \in DOMAIN u :
             MapThenSumSet(LAMBDA j : get_shared_len(u, i, j), DOMAIN u) + onBorder(u[i])
               = 2 * (u[i].w + u[i].h)
        /\ \A k \in 0 .. NCore - 1 : \E s \in DOMAIN Shapes[k] :
             u[k].w >= Shapes[k][s].x /\ u[k].h >= Shapes[k][s].y

\* The width and height of a tree whose units take the given shapes.
boxOf(e, choice) ==
  LET tree == tree_from_NPE(e)
      box[i \in DOMAIN e] ==
        IF IsUnit(e, i) THEN <<Shapes[e[i]][choice[e[i]]].x, Shapes[e[i]][choice[e[i]]].y>>
        ELSE LET a == box[tree[i].left]
                 b == box[tree[i].right]
             IN  IF e[i] = CUT_VERTICAL THEN <<a[1] + b[1], larger(a[2], b[2])>>
                                        ELSE <<larger(a[1], b[1]), a[2] + b[2]>>
  IN  box[Size(e) - 1]

\* Adding the curves (shape_add drops most pairs of entries) loses no good plan: the
\* core of the shown plan has the least area over every choice of one shape per unit.
SizingOptimal ==
  planned =>
    LET core == [k \in 0 .. 2 * NCore - 2 - compacted |-> flp.units[k]]
        choices == {f \in [0 .. NCore - 1 -> 1 .. Max({Len(Shapes[k]) : k \in DOMAIN Shapes})] :
                      \A k \in 0 .. NCore - 1 : f[k] <= Len(Shapes[k])}
    IN  get_total_width(core) * get_total_height(core)
          = Min({boxOf(shown.elements, f)[1] * boxOf(shown.elements, f)[2] : f \in choices})

\* The slots of the L2's base and arms in the plan at hand.
l2Slots == IF flp_cfg.wrap_l2 THEN 2 * NCore - 1 - compacted .. 2 * NCore + 1 - compacted ELSE {}

\* While dead blocks come and go, the L2 moves from slot to slot and rim blocks are
\* overwritten, every slot of a plan has the power and the wires of the block in it
\* and no others, whatever plans were tried before.
SlotsFollowBlocks ==
  planned =>
    LET p == IF phase = "done" THEN power ELSE tpower
        unitOf(k) == IF k < NCore THEN k ELSE IF k \in l2Slots THEN NCore ELSE -1
    IN  /\ {t \in p : t[1] < flp.n_units} =
             {t \in DescPower : t[1] < NCore}
             \cup {t \in l2Slots \X {w[2] : w \in DescPower} : <<t[1] + compacted, t[2]>> \in DescPower}
        /\ \A i, j \in 0 .. flp.n_units - 1 :
             {t[3] : t \in {w \in flp.wires : w[1] = i /\ w[2] = j}} =
               IF i \in l2Slots /\ j \in l2Slots THEN {}
               ELSE {t[3] : t \in {w \in DescWires : w[1] = unitOf(i) /\ w[2] = unitOf(j)}}

\* A plan of e made from nothing.
freshPlan(e) ==
  LET n == wrappedUnits(flp_cfg) - (IF flp_cfg.wrap_l2 THEN L2_ARMS + 1 ELSE 0)
      fresh == [flp_placeholder(flp_cfg) EXCEPT !.n_units = n]
  IN  planFor(flp_cfg, fresh, placeholderUnits(flp_cfg), {}, {t \in DescPower : t[1] < wrappedUnits(flp_cfg)}, e)
costOf(plan) == flp_evaluate_metric(plan.flp, plan.power)
freshCost(e) == costOf(freshPlan(e))

\* The current and the best cost are those of plans made from nothing, and the plan
\* returned is that of the best expression; the slots of the slicing tree are given
\* back after every trial.
CostsFresh ==
  /\ phase \in {"anneal", "tried", "final", "done"} =>
       /\ cost = freshCost(expr.elements)
       /\ best_cost = freshCost(best.elements)
  /\ phase \in {"anneal", "final"} => flp.n_units = SlicedUnits
  /\ phase = "done" => flp.units = freshPlan(best.elements).flp.units

\* What the annealing compares are the costs of the expressions alone, whatever plans
\* were tried before (CostsFresh), and the best cost is never above the current one.
BestKept ==
  /\ CostsFresh
  /\ phase \in {"anneal", "tried", "final", "done"} => best_cost <= cost
=============================================================================
