------------------------------ MODULE Coherence ------------------------------
(***************************************************************************)
(* What the last-level caches promise each other, without messages, locks  *)
(* or levels: a cache may read or write a line, and it gains a permission  *)
(* only when no other cache holds one that conflicts with it.  CacheCntlr  *)
(* implements this specification.                                          *)
(***************************************************************************)
CONSTANTS Nodes, Addrs

VARIABLE perm       \* perm[n][a]: what cache n may do with line a

Permissions == {"none", "read", "write"}

\* p and q may be held on one line by two different caches.
Compatible(p, q) == p = "none" \/ q = "none" \/ (p = "read" /\ q = "read")

TypeOK == perm \in [Nodes -> [Addrs -> Permissions]]

Init == perm = [n \in Nodes |-> [a \in Addrs |-> "none"]]

\* One cache changes its permissions: it drops any of them freely, and what
\* it gains conflicts with no other cache.
Change(n) ==
    /\ \A m \in Nodes \ {n} : perm'[m] = perm[m]
    /\ \A a \in Addrs :
          \/ perm'[n][a] = perm[n][a]
          \/ \A m \in Nodes \ {n} : Compatible(perm'[n][a], perm[m][a])

Next == TypeOK' /\ \E n \in Nodes : Change(n)

Spec == Init /\ [][Next]_perm

\* At most one cache can write a line, and then nobody else reads it.
SingleWriter ==
    \A a \in Addrs, n, m \in Nodes : n # m => Compatible(perm[n][a], perm[m][a])
==============================================================================
