----------------------------- MODULE MCFloorplan -----------------------------
(* Three core units and an L2.                                               *)
EXTENDS Floorplan

\* A unit with three shapes, one that is rotated, one of a single shape.
SomeShapes ==
  [u \in 0 .. 2 |-> CASE u = 0 -> <<[x |-> 2, y |-> 6], [x |-> 3, y |-> 4], [x |-> 6, y |-> 2]>>
                      [] u = 1 -> <<[x |-> 2, y |-> 4], [x |-> 4, y |-> 2]>>
                      [] u = 2 -> <<[x |-> 3, y |-> 5]>>]

SomeWires == {<<0, 1, 3>>, <<1, 0, 3>>, <<1, 2, 1>>, <<2, 1, 1>>, <<0, 3, 1>>, <<3, 0, 1>>, <<2, 3, 2>>, <<3, 2, 2>>}
\* Two core units, the L2's base and its right arm have a power.
SomePower == {<<0, 24>>, <<2, 6>>, <<5, 12>>, <<7, 4>>}

SomeConfigs ==
  {[wrap_l2 |-> TRUE, model_rim |-> TRUE, compact_ratio |-> <<1, 2>>],
   [wrap_l2 |-> TRUE, model_rim |-> FALSE, compact_ratio |-> <<0, 1>>],
   [wrap_l2 |-> FALSE, model_rim |-> TRUE, compact_ratio |-> <<1, 3>>]}

\* Arms and base that make the chip a square.
Square(w, h) == IF w >= h THEN <<1, (w - h) + 2>> ELSE <<(h - w) + 1, h - w + 2>>

\* Power over area: the hottest block of a plan.
Density(units, p) ==
  LET of(t) == IF t[1] \in DOMAIN units THEN (60 * t[2]) \div (units[t[1]].w * units[t[1]].h) ELSE 0
  IN  Max({of(t) : t \in p} \cup {0})

HalfRejected == <<1, 2>>
OneTry == <<1, 5>>
=============================================================================
