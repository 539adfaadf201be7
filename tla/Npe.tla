-------------------------------- MODULE Npe --------------------------------
(***************************************************************************)
(* Normalized Polish expressions of HotSpot's floorplanner (npe.cc): the    *)
(* postfix form of a slicing floor plan, with the positions of its units,   *)
(* chains of cuts and flips kept beside it, and the three moves of the      *)
(* annealing.  Units are 0, 1, ..., cuts are negative; positions count from *)
(* 0, as in the code.                                                       *)
(***************************************************************************)
EXTENDS Integers, FiniteSets

CUT_VERTICAL == -2
CUT_HORIZONTAL == -3
Other(cut) == IF cut = CUT_VERTICAL THEN CUT_HORIZONTAL ELSE CUT_VERTICAL

IsUnit(e, i) == e[i] >= 0
Size(e) == Cardinality(DOMAIN e)

\* A set of positions as an array, in ascending order.
ascending(S) ==
  [k \in 0 .. Cardinality(S) - 1 |-> CHOOSE x \in S : Cardinality({y \in S : y < x}) = k]

fill_unit_pos(e) == ascending({i \in DOMAIN e : IsUnit(e, i)})
fill_flip_pos(e) == ascending({i \in 0 .. Size(e) - 2 : IsUnit(e, i) # IsUnit(e, i + 1)})
fill_chain_pos(e) == ascending({i \in DOMAIN e : ~IsUnit(e, i) /\ (i = 0 \/ IsUnit(e, i - 1))})
fill_ballot_count(e) == [i \in DOMAIN e |-> Cardinality({j \in 0 .. i : ~IsUnit(e, j)})]

\* No cut is followed by the same cut: fill_chain_pos ends the program otherwise.
Normalized(e) == \A i \in 0 .. Size(e) - 2 : IsUnit(e, i) \/ e[i] # e[i + 1]

\* Every cut finds two subtrees on the stack: tree_node_stack_pop ends the program
\* otherwise.
Balloted(e) == \A i \in DOMAIN e : 2 * fill_ballot_count(e)[i] < i + 1

NPE_get_initial(n) ==
  LET e == [i \in 0 .. 2 * n - 2 |->
              IF i = 0 THEN 0 ELSE IF i % 2 = 1 THEN (i + 1) \div 2 ELSE CUT_VERTICAL]
  IN  [elements |-> e, unit_pos |-> fill_unit_pos(e), flip_pos |-> fill_flip_pos(e),
       chain_pos |-> fill_chain_pos(e), ballot_count |-> fill_ballot_count(e)]

swapped(f, i, j) == [f EXCEPT ![i] = f[j], ![j] = f[i]]

\* M1: the unit at pos and the next one.
NPE_swap_units(x, pos) ==
  LET next == CHOOSE i \in DOMAIN x.elements :
                /\ i > pos /\ IsUnit(x.elements, i)
                /\ \A j \in pos + 1 .. i - 1 : ~IsUnit(x.elements, j)
  IN  [x EXCEPT !.elements = swapped(@, pos, next)]

\* M2: every cut of the chain that starts at pos.
NPE_invert_chain(x, pos) ==
  LET inChain(i) == i >= pos /\ \A j \in pos .. i : ~IsUnit(x.elements, j)
  IN  [x EXCEPT !.elements = [i \in DOMAIN @ |-> IF inChain(i) THEN Other(@[i]) ELSE @[i]]]

\* A binary search in the ascending unit_pos.
update_unit_pos(unit_pos, pos, delta) ==
  [k \in DOMAIN unit_pos |-> IF unit_pos[k] = pos THEN pos + delta ELSE unit_pos[k]]

\* Mutant: the balloting test counts the position itself as one more.
swapLegalLoose(x, pos) ==
  LET e == x.elements
  IN  IF IsUnit(e, pos)
        THEN e[pos - 1] # e[pos + 1] /\ 2 * x.ballot_count[pos + 1] < pos + 2
        ELSE pos < Size(e) - 2 => e[pos] # e[pos + 2]

\* Would swapping the elements at pos and pos + 1, a unit and a cut, leave two equal
\* cuts side by side or more cuts than units allow?
swapLegal(x, pos) ==
  LET e == x.elements
  IN  IF IsUnit(e, pos)
        THEN e[pos - 1] # e[pos + 1] /\ 2 * x.ballot_count[pos + 1] < pos + 1
        ELSE pos < Size(e) - 2 => e[pos] # e[pos + 2]

\* Where the swap would end the program.
swapFatal(x, pos) ==
  \/ pos <= 0 \/ pos >= Size(x.elements) - 1
  \/ \A k \in DOMAIN x.unit_pos :
        x.unit_pos[k] # (IF IsUnit(x.elements, pos) THEN pos ELSE pos + 1)

\* M3.
NPE_swap_cut_unit(x, pos) ==
  LET e == swapped(x.elements, pos, pos + 1)
      unit == IsUnit(x.elements, pos)
  IN  [x EXCEPT !.elements = e,
                !.unit_pos = IF unit THEN update_unit_pos(@, pos, 1) ELSE update_unit_pos(@, pos + 1, -1),
                !.ballot_count[pos] = IF unit THEN @ + 1 ELSE @ - 1,
                !.flip_pos = fill_flip_pos(e),
                !.chain_pos = fill_chain_pos(e)]

\* The expressions a random move can lead to; a refused M3 is tried again.
make_random_move(x) ==
       {NPE_swap_units(x, x.unit_pos[i]) : i \in DOMAIN x.unit_pos \ {Cardinality(DOMAIN x.unit_pos) - 1}}
  \cup {NPE_invert_chain(x, x.chain_pos[i]) : i \in DOMAIN x.chain_pos}
  \cup {NPE_swap_cut_unit(x, p) :
          p \in {x.flip_pos[i] : i \in {k \in DOMAIN x.flip_pos :
                   ~swapFatal(x, x.flip_pos[k]) /\ swapLegal(x, x.flip_pos[k])}}}

----------------------------------------------------------------------------
\* What the moves keep: the n units and one cut less, balloted and normalized, with the
\* positions and counts that a scan of the elements finds, and no M3 that is fatal.
WellFormed(x, n) ==
  LET e == x.elements
  IN  /\ Size(e) = 2 * n - 1
      /\ \A u \in 0 .. n - 1 : \E i \in DOMAIN e : e[i] = u
      /\ Balloted(e) /\ Normalized(e)
      /\ x.unit_pos = fill_unit_pos(e)
      /\ x.flip_pos = fill_flip_pos(e)
      /\ x.chain_pos = fill_chain_pos(e)
      /\ x.ballot_count = fill_ballot_count(e)
      /\ \A k \in DOMAIN x.flip_pos : ~swapFatal(x, x.flip_pos[k])
=============================================================================
