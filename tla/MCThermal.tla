------------------------------ MODULE MCThermal ------------------------------
(* Two cores of two units, two vaults of two banks on one layer each.      *)
EXTENDS Thermal

TwoUnits == <<"inssch", "l1i">>

\* Everything cool; one unit of the first core hot, or all of it; one bank hot, or
\* above 95 degrees; a hot core under another bank.
SomeTemps ==
  LET l1i == <<"core", 0, "l1i">>
      core == {l1i, <<"core", 0, "inssch">>}
      map(c, b, t) == [u \in Unit |-> IF u \in c THEN 110 ELSE IF u = b THEN t ELSE 70]
  IN  {map({}, <<>>, 0), map({l1i}, <<>>, 0), map(core, <<>>, 0),
       map({}, <<"bank", 0, 1>>, 90), map({}, <<"bank", 0, 1>>, 100),
       map(core, <<"bank", 1, 0>>, 100)}

\* An idle processor, a busy first core.
SomePowers ==
  {[u \in CoreUnit |-> 0],
   [u \in CoreUnit |-> IF u[2] = 0 THEN 2 ELSE 0]}

\* Without DTM; by the cores' average temperature, two cores to a domain; by
\* their maximum; by cores and DRAM; with the DRAM below the cores.
Config(m, t, n) == [reverse |-> FALSE, dtm_method |-> m, temperature_type |-> t, socket |-> n]
SomeConfigs ==
  {Config(0, 0, 1), Config(1, 0, 2), Config(1, 1, 1), Config(2, 0, 1),
   [Config(1, 1, 2) EXCEPT !.reverse = TRUE]}
==============================================================================
