---------------------------- MODULE MCCacheCntlr ----------------------------
(* Two nodes, one of them with three cores; two lines that compete for a set. *)
EXTENDS CacheCntlr, TLC

CONSTANTS n1, n2, c1, c2, c3, c4

MCNodeOf == (c1 :> n1) @@ (c2 :> n1) @@ (c3 :> n2) @@ (c4 :> n1)

MCKinds == (c1 :> {"R", "W", "X"}) @@ (c2 :> {"R", "W"}) @@ (c3 :> {"R", "W"}) @@ (c4 :> {"R"})
Ops(i, j, k, l) == (c1 :> i) @@ (c2 :> j) @@ (c3 :> k) @@ (c4 :> l)
Config(direct, wt, pf, ops) == [direct |-> direct, wt |-> wt, pf |-> pf, ops |-> ops]

\* The directory protocol, with write-through L1s, with a prefetching LLC, and
\* direct DRAM access, which has all running cores on one LLC.  Three cores on
\* one LLC are two readers and a writer that wait for the same reply.
MCConfigs == {Config(FALSE, FALSE, FALSE, Ops(1, 1, 1, 0)),
              Config(FALSE, FALSE, FALSE, Ops(2, 0, 2, 0)),
              Config(FALSE, FALSE, FALSE, Ops(2, 2, 0, 0)),
              Config(FALSE, FALSE, FALSE, Ops(1, 1, 0, 1)),
              Config(FALSE, TRUE, FALSE, Ops(1, 1, 1, 0)),
              Config(FALSE, FALSE, TRUE, Ops(1, 0, 1, 0)),
              Config(TRUE, FALSE, TRUE, Ops(3, 2, 0, 0))}
=============================================================================
