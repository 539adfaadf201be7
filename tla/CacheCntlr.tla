----------------------------- MODULE CacheCntlr -----------------------------
(***************************************************************************)
(* The cache controllers of src/cache_cntlr.cc: an L1 per core, one        *)
(* last-level cache (LLC) per node shared by the node's cores, the user    *)
(* threads that access the L1s, the node's network thread that answers the *)
(* directory, the shared/exclusive set lock between them and the queue of  *)
(* directory waiters.  All lines of the model fall into one cache set, so  *)
(* each node has one set lock.                                             *)
(*                                                                         *)
(* A cached line is a cell: its coherence state s and a ghost f that says  *)
(* whether its data is the value written last.  A step under the exclusive *)
(* lock is one action, because every other thread of the node that touches *)
(* the set takes that lock.  Timing and statistics are left out.           *)
(*                                                                         *)
(* External, from the way the controller uses them: the tag directory (a   *)
(* FIFO channel to and from each LLC, a request queue per line), the set   *)
(* lock, DRAM, the replacement policy (any victim) and the prefetcher (any *)
(* suggestion).                                                            *)
(***************************************************************************)
EXTENDS Integers, Sequences, FiniteSetsExt

CONSTANTS
    Nodes,          \* last-level caches
    Cores,          \* cores, each with an L1
    NodeOf,         \* NodeOf[c]: the LLC that core c shares
    Addrs,          \* cache lines, all of one set
    None,           \* no line / no node
    L1Ways, LLCWays,\* associativity
    Kinds,          \* Kinds[c]: the operations core c issues: R(ead), W(rite), X (atomic pair)
    PrefetchMax,    \* PREFETCH_MAX_QUEUE_LENGTH
    Configs         \* configurations a run starts from

\* With direct DRAM access there is no directory: one LLC serves all running cores.
ASSUME CacheAssumption ==
    /\ NodeOf \in [Cores -> Nodes] /\ IsFiniteSet(Cores)
    /\ None \notin Addrs \cup Nodes /\ "free" \notin Cores
    /\ Kinds \in [Cores -> SUBSET {"R", "W", "X"}]
    /\ {L1Ways, LLCWays} \subseteq Nat \ {0} /\ PrefetchMax \in Nat
    /\ Configs \subseteq [direct : BOOLEAN, wt : BOOLEAN, pf : BOOLEAN, ops : [Cores -> Nat]]
    /\ \A cf \in Configs : cf.direct =>
          \A c, d \in Cores : NodeOf[c] # NodeOf[d] => cf.ops[c] = 0 \/ cf.ops[d] = 0

VARIABLES
    cfg,            \* [direct, wt, pf, ops]: direct DRAM access, write-through L1, LLC
                    \* prefetcher, bound on the operations of each core
    stack,          \* stack[n]: the L1s and the LLC of node n
    lock,           \* lock[n]: set lock, shared holders and exclusive holder
    pc, op, todo,   \* user thread of each core: control, current operation, operations left
    waiters,        \* waiters[n][a]: m_directory_waiters
    plist,          \* plist[n]: m_prefetch_list
    net,            \* network thread of each node
    toDir, toCache, \* FIFO channels between LLC and directory
    dir,            \* dir[a]: directory entry and its request queue
    dram,           \* dram[a]: DRAM holds the value written last
    failed          \* the assertion that ended the program, or "no"

cacheVars == <<stack, lock, waiters, plist, net>>
userVars == <<pc, op, todo>>
dirVars == <<dir, dram>>
vars == <<cfg, cacheVars, userVars, toDir, toCache, dirVars, failed>>

States == {"I", "S", "u", "E", "M"}
Cell == [s : States, f : BOOLEAN]
NoCell == [s |-> "I", f |-> FALSE]
CoresOf(n) == {c \in Cores : NodeOf[c] = n}
Msg(t, a, f, d) == [t |-> t, a |-> a, f |-> f, d |-> d]

Valid(cell) == cell.s # "I"
\* operationPermissibleinCache: READ needs a readable state, READ_EX ("X")
\* and WRITE a writable one.
Permissible(cell, t) == IF t \in {"R", "P"} THEN cell.s \in {"S", "E", "M"}
                                            ELSE cell.s = "M"

\* The first failing assertion is the one that ends the program.
Check(st, ok, name) == [st EXCEPT !.err = IF @ = "no" /\ ~ok THEN name ELSE @]

-----------------------------------------------------------------------------
(* Cache block operations on one node's stack *)

\* updateCacheBlock(a, new) on the L1s of C: a MODIFIED copy is written to
\* the next level first, then every copy takes the new state.  While the LLC
\* evicts the line itself the data goes to its evict buffer.
UpdatePrev(st, C, a, new, evicting) ==
    LET dirty == {c \in C : st.l1[c][a].s = "M"}
        back == dirty # {} /\ ~cfg.wt
        newCell(cell) == IF new = "I" THEN NoCell ELSE [cell EXCEPT !.s = new]
        upd == [st EXCEPT
                  !.l1 = [c \in DOMAIN st.l1 |->
                            IF c \in C /\ Valid(st.l1[c][a])
                              THEN [st.l1[c] EXCEPT ![a] = newCell(@)]
                              ELSE st.l1[c]],
                  !.llc[a].f = IF back THEN st.l1[CHOOSE c \in dirty : TRUE][a].f ELSE @]
    IN Check(upd, back /\ ~evicting => st.llc[a].s = "M", "writeback to non-M line")

UpdateLLCKeep(st, a, new, wantsData) == \* mutant: the LLC only downgrades the line
    LET prev == UpdatePrev(st, DOMAIN st.l1, a, new, FALSE)
    IN IF Valid(prev.llc[a]) THEN [prev EXCEPT !.llc[a].s = IF new = "I" THEN "S" ELSE new]
                             ELSE prev
\* updateCacheBlock(a, new, out_buf) on the LLC; wantsData: out_buf is given.
UpdateLLC(st, a, new, wantsData) ==
    LET prev == UpdatePrev(st, DOMAIN st.l1, a, new, FALSE)
        old == prev.llc[a]
        lost == old.s = "M" /\ ~wantsData
        written == Valid(old) /\ (new \in {"I", "S"} \/ old.s \in {new, "M"})
        upd == IF Valid(old)
                 THEN [prev EXCEPT !.llc[a] = IF new = "I" THEN NoCell
                                                ELSE [@ EXCEPT !.s = new]]
                 ELSE prev
    IN Check(Check(upd, ~lost, "MODIFIED data lost"),
             wantsData => written, "out_buf never written")

\* The victims insertSingleLine may choose when line a comes in.
Victims(cache, a, ways) ==
    LET held == {x \in Addrs : Valid(cache[x])}
    IN IF Cardinality(held) < ways THEN {None} ELSE held \ {a}

InsertLLCNoBackInval(st, a, cell, v) == \* mutant: the victim stays in the L1s
    [st EXCEPT !.llc = [x \in Addrs |-> IF x = a THEN cell
                                        ELSE IF x = v THEN NoCell ELSE st.llc[x]]]
\* insertCacheBlock at the LLC: the victim v is invalidated in the L1s first,
\* which write their data to the evict buffer.
InsertLLC(st, a, cell, v) ==
    LET st1 == Check(st, ~Valid(st.llc[a]), "line already in LLC")
        st2 == IF v = None THEN st1 ELSE UpdatePrev(st1, DOMAIN st.l1, v, "I", TRUE)
        st3 == Check(st2, v # None /\ ~cfg.direct => st2.llc[v].s \in {"S", "E", "M"},
                     "evicting an upgrading line")
    IN [st3 EXCEPT !.llc = [x \in Addrs |-> IF x = a THEN cell
                                            ELSE IF x = v THEN NoCell ELSE st3.llc[x]]]
EvictedOwnData(st, v) == st.llc[v]      \* mutant: the evict buffer is sent unmerged
\* The evicted cell as insertCacheBlock sends it down, after the L1s wrote back.
Evicted(st, v) == UpdatePrev(st, DOMAIN st.l1, v, "I", TRUE).llc[v]
EvictMsgs(st, v) ==
    IF v = None THEN <<>>
    ELSE IF Evicted(st, v).s = "M"
      THEN <<Msg("FLUSH_REP", v, Evicted(st, v).f, TRUE)>>
      ELSE <<Msg("INV_REP", v, FALSE, FALSE)>>

\* insertCacheBlock at an L1: a MODIFIED victim is written to the LLC
\* (writeCacheBlock), unless the L1 is write-through.
InsertL1(st, c, a, cell, v) ==
    LET dirty == v # None /\ ~cfg.wt /\ st.l1[c][v].s = "M"
        st1 == Check(st, ~Valid(st.l1[c][a]), "line already in L1")
        st2 == Check(st1, dirty => st.llc[v].s = "M", "writeback to non-M line")
        st3 == IF dirty THEN [st2 EXCEPT !.llc[v].f = st.l1[c][v].f] ELSE st2
    IN [st3 EXCEPT !.l1[c] = [x \in Addrs |-> IF x = a THEN cell
                                              ELSE IF x = v THEN NoCell ELSE st.l1[c][x]]]

\* copyDataFromNextLevel: the L1 takes data and state of the LLC's line.
CopyDataFromNextLevel(st, c, t, a, v) ==
    InsertL1(Check(st, Permissible(st.llc[a], t), "data already gone"),
             c, a, st.llc[a], v)

\* invalidateCacheBlock on the L1 that missed, before the LLC is asked.
InvalidateL1(st, c, a) ==
    [Check(st, st.l1[c][a].s # "M", "invalidating a MODIFIED line")
       EXCEPT !.l1[c][a] = NoCell]

\* processShmemReqFromPrevCache on a line the LLC may serve: the other L1s
\* lose their copies to a write, and share a line that is read while the
\* LLC has it MODIFIED or EXCLUSIVE.
ServeHit(st, others, t, a) ==
    IF t \notin {"R", "P"} THEN UpdatePrev(st, others, a, "I", FALSE)
    ELSE IF st.llc[a].s \in {"M", "E"} THEN UpdatePrev(st, others, a, "S", FALSE)
    ELSE st

\* ... on a line it may not: a write to a SHARED or EXCLUSIVE line takes the
\* copies of the other L1s away, and an EXCLUSIVE line (with direct DRAM
\* access any line present) is upgraded silently.
Upgrade(st, others, a) ==
    LET held == st.llc[a].s \in {"S", "E"}
        inv == IF held THEN UpdatePrev(st, others, a, "I", FALSE) ELSE st
    IN IF st.llc[a].s = "E" \/ (cfg.direct /\ Valid(st.llc[a]))
         THEN [inv EXCEPT !.llc[a].s = "M"] ELSE inv

\* processUpgradeReqToDirectory's state change.
Upgrading(st, a) ==
    [Check(st, st.llc[a].s = "S", "upgrade of a non-SHARED line") EXCEPT !.llc[a].s = "u"]

-----------------------------------------------------------------------------
(* Set lock, writes and messages *)

Free == [sh |-> {}, ex |-> "free"]
LockFree(n) == lock[n].ex = "free" /\ lock[n].sh = {}
\* lock_all: a write-through L1 needs the whole stack for a write and for
\* both halves of an atomic pair.
LockAll(o) == cfg.wt /\ (o.t = "W" \/ o.sig # "NONE")
LockAfterReleased(n, c, o) == Free      \* mutant: the first half releases the lock
\* The lock after core c's operation: the first half of an atomic pair keeps it.
LockAfter(n, c, o) ==
    IF o.sig = "LOCK"
      THEN IF LockAll(o) THEN [sh |-> {}, ex |-> c]
                         ELSE [sh |-> lock[n].sh \cup {c}, ex |-> "free"]
      ELSE [sh |-> lock[n].sh \ {c}, ex |-> "free"]

\* Ghost: a write to line a makes every other copy of it old.
OldCells(cells, a) == [cells EXCEPT ![a].f = FALSE]
OldStack(st, a) == [st EXCEPT !.l1 = [c \in DOMAIN @ |-> OldCells(@[c], a)],
                              !.llc = OldCells(@, a)]
OldMsgs(ms, a) == [i \in DOMAIN ms |->
                     IF ms[i].a = a THEN [ms[i] EXCEPT !.f = FALSE] ELSE ms[i]]

\* accessCache of core c with stack st, then the end of processMemOpFromCore:
\* release (or keep) the lock, and go on to Prefetch unless the lock is kept.
Access(n, c, o, st) ==
    LET ok == Check(st, Permissible(st.l1[c][o.a], o.t), "not valid in L1")
        wr == [OldStack(ok, o.a) EXCEPT !.l1[c][o.a].f = TRUE, !.llc[o.a].f = cfg.wt]
        wt == Check(wr, cfg.wt => wr.llc[o.a].s = "M", "writeback to non-M line")
        done == IF o.t = "W" THEN wt ELSE ok
    IN /\ failed' = done.err
       /\ stack' = IF o.t = "W"
                     THEN [m \in Nodes |-> IF m = n THEN done ELSE OldStack(stack[m], o.a)]
                     ELSE [stack EXCEPT ![n] = done]
       /\ toCache' = IF o.t = "W" THEN [m \in Nodes |-> OldMsgs(toCache[m], o.a)] ELSE toCache
       /\ toDir' = IF o.t = "W" THEN [m \in Nodes |-> OldMsgs(toDir[m], o.a)] ELSE toDir
       /\ lock' = [lock EXCEPT ![n] = LockAfter(n, c, o)]
       /\ pc' = [pc EXCEPT ![c] = IF o.sig = "LOCK" THEN "locked"
                                  ELSE IF cfg.pf THEN "prefetch" ELSE "idle"]

\* DRAM after the write of o, and after the eviction of v with direct access.
DramAfter(d, o) == IF o.t = "W" THEN [d EXCEPT ![o.a] = FALSE] ELSE d
DramEvict(st, v) ==
    IF v # None /\ Evicted(st, v).s = "M" THEN [dram EXCEPT ![v] = Evicted(st, v).f] ELSE dram

Send(n, ms) == toDir' = [toDir EXCEPT ![n] = @ \o ms]

-----------------------------------------------------------------------------
(* User thread: processMemOpFromCore and Prefetch *)

\* The operations a core issues: READ, WRITE and the two halves of an atomic pair.
Operation(t, a) == [t |-> t, a |-> a, sig |-> IF t = "X" THEN "LOCK" ELSE "NONE"]

\* The L1 part of an operation o whose lock is held: hit or miss.
FirstLevel(n, c, o) ==
    /\ op' = [op EXCEPT ![c] = o]
    /\ IF Permissible(stack[n].l1[c][o.a], o.t)
         THEN /\ Access(n, c, o, stack[n])
              /\ dram' = DramAfter(dram, o)
         ELSE /\ pc' = [pc EXCEPT ![c] = "missed"]
              /\ failed' = IF o.sig = "UNLOCK" THEN "second half missed" ELSE failed
              /\ lock' = IF LockAll(o) THEN [lock EXCEPT ![n] = [sh |-> {}, ex |-> c]] ELSE lock
              /\ UNCHANGED <<stack, toDir, toCache, dram>>
    /\ UNCHANGED <<cfg, waiters, plist, net, dir>>

\* processMemOpFromCore up to the miss.  The shared lock of a miss is given
\* up at once: the upgrade to the exclusive lock releases it first.
Issue(c, o) ==
    LET n == NodeOf[c] IN
    /\ pc[c] = "idle" /\ todo[c] > 0
    /\ IF LockAll(o) THEN LockFree(n) ELSE lock[n].ex = "free"
    /\ todo' = [todo EXCEPT ![c] = @ - 1]
    /\ FirstLevel(n, c, o)

\* The second half of an atomic pair: a WRITE under the lock already held.
IssueUnlock(c) ==
    /\ pc[c] = "locked"
    /\ FirstLevel(NodeOf[c], c, [t |-> "W", a |-> op[c].a, sig |-> "UNLOCK"])
    /\ UNCHANGED todo

\* trainPrefetcher of the LLC on a miss: of the lines the prefetcher suggests,
\* those it may not already read, at most one more than
\* PREFETCH_MAX_QUEUE_LENGTH of them.
TrainPrefetcher(st) ==
    LET useful == {x \in Addrs : ~Permissible(st.llc[x], "R")}
    IN UNION {[1 .. k -> useful] : k \in 0 .. PrefetchMax + 1}

\* ... on a hit of an access: the list is filled anew if prefetch_on_prefetch_hit is
\* set and the line was brought in by the prefetcher and not used since.  Neither
\* the setting nor the line's mark is kept, so any hit may be such a hit.
TrainOnHit(n, st, t, a) ==
    {plist[n]} \cup IF cfg.pf /\ Permissible(st.llc[a], t) THEN TrainPrefetcher(st) ELSE {}

FirstWaiterNever(n, a) == FALSE         \* mutant: the queue is measured after the enqueue
FirstWaiterAlways(n, a) == TRUE         \* mutant: every waiter sends its request
FirstWaiter(n, a) == waiters[n][a] = <<>>

\* initiateDirectoryAccess: queue up, and send the request of the first
\* waiter (SH_REQ, EX_REQ, or UPGRADE_REQ for a line held SHARED).
InitiateDirectoryAccess(n, c, t, a, st) ==
    LET first == FirstWaiter(n, a)
        excl == t \notin {"R", "P"}
        upgrade == first /\ excl /\ st.llc[a].s = "S"
        st1 == IF upgrade THEN Upgrading(st, a) ELSE st
        st2 == Check(st1, first /\ excl => st1.llc[a].s \in {"I", "u"}, "EX_REQ for a held line")
        req == IF upgrade THEN "UPGRADE_REQ" ELSE IF excl THEN "EX_REQ" ELSE "SH_REQ"
    IN /\ waiters' = [waiters EXCEPT ![n][a] = Append(@, [c |-> c, excl |-> excl])]
       /\ Send(n, IF first THEN <<Msg(req, a, FALSE, FALSE)>> ELSE <<>>)
       /\ stack' = [stack EXCEPT ![n] = st2]
       /\ failed' = st2.err
       /\ lock' = [lock EXCEPT ![n] = Free]
       /\ pc' = [pc EXCEPT ![c] = "waiting"]
       /\ \E list \in IF cfg.pf THEN TrainPrefetcher(st2) ELSE {plist[n]} :
             plist' = [plist EXCEPT ![n] = list]
       /\ UNCHANGED <<toCache, dram>>

\* processShmemReqFromPrevCache under the exclusive lock, as the stacks and
\* DRAM contents it may serve the request with: a hit, a silent upgrade or,
\* with direct DRAM access, the absent line read into the LLC, SHARED or
\* MODIFIED.  None is left where the directory has to be asked.
Served(t, a, st, others) ==
    LET up == Upgrade(st, others, a)
        new == [s |-> IF t \in {"R", "P"} THEN "S" ELSE "M", f |-> dram[a]]
    IN CASE Permissible(st.llc[a], t) -> {[st |-> ServeHit(st, others, t, a), dram |-> dram]}
         [] ~Permissible(st.llc[a], t) /\ Permissible(up.llc[a], t) -> {[st |-> up, dram |-> dram]}
         [] ~Permissible(up.llc[a], t) /\ cfg.direct ->
              {[st |-> InsertLLC(st, a, new, v), dram |-> DramEvict(st, v)] :
                  v \in Victims(st.llc, a, LLCWays)}
         [] OTHER -> {}

\* The data is in the LLC: fill the L1, downgrade the lock, do the access.
FillAndAccess(n, c, o, st, d) ==
    \E v \in Victims(st.l1[c], o.a, L1Ways) :
        /\ Access(n, c, o, CopyDataFromNextLevel(st, c, o.t, o.a, v))
        /\ dram' = DramAfter(d, o)

\* The miss path of processMemOpFromCore: take the exclusive lock (unless
\* held), drop the L1's own copy, ask the LLC.
NextLevel(c) ==
    LET n == NodeOf[c]
        o == op[c]
        st == IF Valid(stack[n].l1[c][o.a]) THEN InvalidateL1(stack[n], c, o.a) ELSE stack[n]
        others == DOMAIN st.l1 \ {c}
    IN /\ pc[c] = "missed"
       /\ LockFree(n) \/ lock[n].ex = c
       /\ \/ /\ \E r \in Served(o.t, o.a, st, others) : FillAndAccess(n, c, o, r.st, r.dram)
             /\ \E list \in TrainOnHit(n, st, o.t, o.a) : plist' = [plist EXCEPT ![n] = list]
             /\ UNCHANGED waiters
          \/ /\ Served(o.t, o.a, st, others) = {}
             /\ InitiateDirectoryAccess(n, c, o.t, o.a, Upgrade(st, others, o.a))
       /\ UNCHANGED <<cfg, op, todo, net, dir>>

\* Woken by the network thread, which passed the exclusive lock on: signal
\* it back, fill the caches from the LLC and do the access.
Refill(c) ==
    LET n == NodeOf[c]
        o == op[c]
        hit == Permissible(stack[n].llc[o.a], o.t) \/ Permissible(Upgrade(stack[n], {}, o.a).llc[o.a], o.t)
        others == DOMAIN stack[n].l1 \ {c}
        st == IF Permissible(stack[n].llc[o.a], o.t)
                THEN ServeHit(stack[n], others, o.t, o.a)
                ELSE Upgrade(stack[n], others, o.a)
    IN /\ pc[c] = "woken" /\ o.t # "P"
       /\ net' = [net EXCEPT ![n].pc = "signalled"]
       /\ FillAndAccess(n, c, o, Check(st, hit, "refill missed"), dram)
       /\ UNCHANGED <<cfg, op, todo, waiters, plist, dir>>

\* Prefetch on the LLC after an operation: nothing yet if the next prefetch
\* is not due, else the first listed line the LLC cannot read.
Prefetch(c) ==
    LET n == NodeOf[c]
        missing == {i \in DOMAIN plist[n] : ~Permissible(stack[n].llc[plist[n][i]], "R")}
        first == Min(missing)
    IN /\ pc[c] = "prefetch"
       /\ \/ /\ pc' = [pc EXCEPT ![c] = "idle"]         \* m_prefetch_next is later
             /\ UNCHANGED <<plist, op>>
          \/ /\ missing = {}
             /\ plist' = [plist EXCEPT ![n] = <<>>]
             /\ pc' = [pc EXCEPT ![c] = "idle"]
             /\ UNCHANGED op
          \/ /\ missing # {}
             /\ plist' = [plist EXCEPT ![n] = SubSeq(@, first + 1, Len(@))]
             /\ op' = [op EXCEPT ![c] = [t |-> "P", a |-> plist[n][first], sig |-> "NONE"]]
             /\ pc' = [pc EXCEPT ![c] = "prefetching"]
       /\ UNCHANGED <<cfg, stack, lock, waiters, net, todo, toDir, toCache, dirVars, failed>>

\* The end of doPrefetch: release the exclusive lock.
EndPrefetch(n, c, st, d) ==
    /\ stack' = [stack EXCEPT ![n] = st]
    /\ failed' = st.err
    /\ lock' = [lock EXCEPT ![n] = Free]
    /\ pc' = [pc EXCEPT ![c] = "idle"]
    /\ dram' = d
    /\ UNCHANGED <<toDir, toCache>>

\* doPrefetch: a READ by the LLC itself, so every L1 counts as another one.
DoPrefetch(c) ==
    LET n == NodeOf[c]
        a == op[c].a
        st == stack[n]
        others == DOMAIN st.l1
    IN /\ pc[c] = "prefetching" /\ LockFree(n)
       /\ \/ /\ \E r \in Served("P", a, st, others) : EndPrefetch(n, c, r.st, r.dram)
             /\ UNCHANGED <<waiters, plist>>
          \/ /\ Served("P", a, st, others) = {}
             /\ InitiateDirectoryAccess(n, c, "P", a, Upgrade(st, others, a))
       /\ UNCHANGED <<cfg, op, todo, net, dir>>

RefillPrefetch(c) ==
    LET n == NodeOf[c]
        a == op[c].a
        st == Check(stack[n], Permissible(stack[n].llc[a], "P"), "line not there after prefetch")
    IN /\ pc[c] = "woken" /\ op[c].t = "P"
       /\ net' = [net EXCEPT ![n].pc = "signalled"]
       /\ EndPrefetch(n, c, ServeHit(st, DOMAIN st.l1, "P", a), dram)
       /\ UNCHANGED <<cfg, op, todo, waiters, plist, dir>>

-----------------------------------------------------------------------------
(* Network thread: handleMsgFromDramDirectory *)

NeedsUpgradeNever(w, cell) == FALSE     \* mutant: a writer is woken with a SHARED line
NeedsUpgrade(w, cell) == w.excl /\ cell.s = "S"

\* The loop over the waiters ws of line a, under the exclusive lock: a writer
\* whose line is only SHARED sends an upgrade and stays queued; any other
\* waiter is woken and the lock passes to its thread.
WakeWaiters(n, a, st, ws, ms) ==
    /\ waiters' = [waiters EXCEPT ![n][a] = ws]
    /\ \/ /\ ws = <<>>
          /\ stack' = [stack EXCEPT ![n] = st]
          /\ failed' = st.err
          /\ lock' = [lock EXCEPT ![n] = Free]
          /\ net' = [net EXCEPT ![n] = [pc |-> "idle", a |-> None]]
          /\ Send(n, ms)
          /\ UNCHANGED pc
       \/ /\ ws # <<>> /\ NeedsUpgrade(ws[1], st.llc[a])
          /\ stack' = [stack EXCEPT ![n] = Upgrading(st, a)]
          /\ failed' = st.err
          /\ lock' = [lock EXCEPT ![n] = Free]
          /\ net' = [net EXCEPT ![n] = [pc |-> "idle", a |-> None]]
          /\ Send(n, ms \o <<Msg("UPGRADE_REQ", a, FALSE, FALSE)>>)
          /\ UNCHANGED pc
       \/ /\ ws # <<>> /\ ~NeedsUpgrade(ws[1], st.llc[a])
          /\ stack' = [stack EXCEPT ![n] = st]
          /\ failed' = st.err
          /\ lock' = [lock EXCEPT ![n] = [sh |-> {}, ex |-> ws[1].c]]
          /\ pc' = [pc EXCEPT ![ws[1].c] = "woken"]
          /\ net' = [net EXCEPT ![n] = [pc |-> "handoff", a |-> a]]
          /\ Send(n, ms)

\* processEx/Sh/UpgradeRepFromDramDirectory.  An UPGRADE_REP that finds the
\* line gone hands the message's buffer to updateCacheBlock as out_buf.
RepState(st, m, v) ==
    CASE m.t = "EX_REP" -> InsertLLC(st, m.a, [s |-> "E", f |-> m.f], v)
      [] m.t = "SH_REP" -> InsertLLC(st, m.a, [s |-> "S", f |-> m.f], v)
      [] m.t = "UPGRADE_REP" ->
           LET held == st.llc[m.a].s
               st1 == Check(st, held = "I" => m.d, "upgrade reply without data")
               st2 == Check(st1, held \in {"I", "u"}, "upgrade reply for a held line")
           IN UpdateLLC(st2, m.a, "M", held = "I")

\* The network thread takes the exclusive lock and handles a reply.
HandleRep(n) ==
    LET m == Head(toCache[n])
        st == stack[n]
    IN /\ net[n].pc = "idle" /\ toCache[n] # <<>> /\ LockFree(n)
       /\ m.t \in {"EX_REP", "SH_REP", "UPGRADE_REP"}
       /\ toCache' = [toCache EXCEPT ![n] = Tail(@)]
       /\ \E v \in IF m.t = "UPGRADE_REP" THEN {None} ELSE Victims(st.llc, m.a, LLCWays) :
             LET st2 == Check(RepState(st, m, v), waiters[n][m.a] # <<>>, "reply without waiter")
             IN WakeWaiters(n, m.a, st2, waiters[n][m.a], EvictMsgs(st, v))
       /\ UNCHANGED <<cfg, plist, op, todo, dirVars>>

\* The woken thread has signalled and given the lock up: take it, drop the
\* waiter and go on.
ResumeWaiters(n) ==
    LET a == net[n].a IN
    /\ net[n].pc = "signalled" /\ LockFree(n)
    /\ WakeWaiters(n, a, stack[n], Tail(waiters[n][a]), <<>>)
    /\ UNCHANGED <<cfg, plist, op, todo, toCache, dirVars>>

\* processInv/Flush/WbReqFromDramDirectory: a line that is gone is not
\* answered, its eviction message is on the way.
HandleReq(n) ==
    LET m == Head(toCache[n])
        st == stack[n]
        held == Valid(st.llc[m.a])
        st2 == CASE m.t = "INV_REQ" -> UpdateLLC(st, m.a, "I", FALSE)
                 [] m.t = "FLUSH_REQ" -> UpdateLLC(st, m.a, "I", TRUE)
                 [] m.t = "WB_REQ" -> IF st.llc[m.a].s = "u" THEN st
                                      ELSE UpdateLLC(st, m.a, "S", TRUE)
        \* the buffer of a WB_REQ that meets an upgrading line stays uninitialised
        data == /\ st.llc[m.a].s # "u"
                /\ UpdatePrev(st, DOMAIN st.l1, m.a, "S", FALSE).llc[m.a].f
        rep == CASE m.t = "INV_REQ" -> Msg("INV_REP", m.a, FALSE, FALSE)
                 [] m.t = "FLUSH_REQ" -> Msg("FLUSH_REP", m.a, data, TRUE)
                 [] m.t = "WB_REQ" -> Msg("WB_REP", m.a, data, TRUE)
    IN /\ net[n].pc = "idle" /\ toCache[n] # <<>> /\ LockFree(n)
       /\ m.t \in {"INV_REQ", "FLUSH_REQ", "WB_REQ"}
       /\ toCache' = [toCache EXCEPT ![n] = Tail(@)]
       /\ stack' = IF held THEN [stack EXCEPT ![n] = st2] ELSE stack
       /\ failed' = IF held THEN st2.err ELSE failed
       /\ Send(n, IF held THEN <<rep>> ELSE <<>>)
       /\ UNCHANGED <<cfg, lock, waiters, plist, net, userVars, dirVars>>

-----------------------------------------------------------------------------
(* Tag directory and DRAM: external *)

Requests == {"SH_REQ", "EX_REQ", "UPGRADE_REQ"}
NoEntry == [owner |-> None, sharers |-> {}, q |-> <<>>, asked |-> {}]
Owner(e) == {e.owner} \ {None}

\* The caches that stand in the way of a request.
Targets(e, r) ==
    CASE r.t = "SH_REQ" -> Owner(e)
      [] r.t = "EX_REQ" -> Owner(e) \cup e.sharers
      [] r.t = "UPGRADE_REQ" -> (Owner(e) \cup e.sharers) \ {r.n}
\* Nothing to do for line a before another message comes.
Settled(a) ==
    dir[a].q # <<>> =>
        LET ts == Targets(dir[a], Head(dir[a].q)) IN ts # {} /\ ts \subseteq dir[a].asked

\* A message from node n: a request is queued, a reply updates the entry.
DirReceive(n) ==
    LET m == Head(toDir[n])
        e == dir[m.a]
        gone == [e EXCEPT !.owner = IF @ = n THEN None ELSE @,
                          !.sharers = @ \ {n}, !.asked = @ \ {n}]
    IN /\ toDir[n] # <<>> /\ \A a \in Addrs : Settled(a)
       /\ toDir' = [toDir EXCEPT ![n] = Tail(@)]
       /\ dir' = [dir EXCEPT ![m.a] =
                    CASE m.t \in Requests -> [e EXCEPT !.q = Append(@, [t |-> m.t, n |-> n])]
                      [] m.t = "WB_REP" -> [gone EXCEPT !.sharers = @ \cup {n}]
                      [] OTHER -> gone]
       /\ dram' = IF m.d THEN [dram EXCEPT ![m.a] = m.f] ELSE dram
       /\ UNCHANGED <<cfg, cacheVars, userVars, toCache, failed>>

\* The first request of line a: ask the caches in its way, once each.
DirAsk(a) ==
    LET e == dir[a]
        r == Head(e.q)
        ask == Targets(e, r) \ e.asked
        kind(n) == IF n # e.owner THEN "INV_REQ"
                   ELSE IF r.t = "SH_REQ" THEN "WB_REQ" ELSE "FLUSH_REQ"
    IN /\ e.q # <<>> /\ ask # {}
       /\ dir' = [dir EXCEPT ![a].asked = @ \cup ask]
       /\ toCache' = [n \in Nodes |-> IF n \in ask
                        THEN Append(toCache[n], Msg(kind(n), a, FALSE, FALSE))
                        ELSE toCache[n]]
       /\ UNCHANGED <<cfg, cacheVars, userVars, toDir, dram, failed>>

\* ... and the reply when no cache is in its way any more.  A line nobody
\* caches may be granted EXCLUSIVE to a reader.  An upgrade of a line the
\* requester has lost comes with the data.
DirReply(a) ==
    LET e == dir[a]
        r == Head(e.q)
        own == [e EXCEPT !.owner = r.n, !.sharers = {}, !.q = Tail(@), !.asked = {}]
        share == [e EXCEPT !.sharers = @ \cup {r.n}, !.q = Tail(@), !.asked = {}]
        reply(t, d, entry) ==
            /\ dir' = [dir EXCEPT ![a] = entry]
            /\ toCache' = [toCache EXCEPT ![r.n] = Append(@, Msg(t, a, d /\ dram[a], d))]
    IN /\ e.q # <<>> /\ Targets(e, r) = {}
       /\ \/ r.t = "SH_REQ" /\ reply("SH_REP", TRUE, share)
          \/ r.t = "SH_REQ" /\ e.sharers = {} /\ reply("EX_REP", TRUE, own)
          \/ r.t = "EX_REQ" /\ reply("EX_REP", TRUE, own)
          \/ r.t = "UPGRADE_REQ" /\ reply("UPGRADE_REP", r.n \notin e.sharers, own)
       /\ UNCHANGED <<cfg, cacheVars, userVars, toDir, dram, failed>>

-----------------------------------------------------------------------------
Init ==
    /\ cfg \in Configs
    /\ stack = [n \in Nodes |-> [l1 |-> [c \in CoresOf(n) |-> [a \in Addrs |-> NoCell]],
                                 llc |-> [a \in Addrs |-> NoCell], err |-> "no"]]
    /\ lock = [n \in Nodes |-> Free]
    /\ pc = [c \in Cores |-> "idle"]
    /\ op = [c \in Cores |-> [t |-> "R", a |-> None, sig |-> "NONE"]]
    /\ todo = cfg.ops
    /\ waiters = [n \in Nodes |-> [a \in Addrs |-> <<>>]]
    /\ plist = [n \in Nodes |-> <<>>]
    /\ net = [n \in Nodes |-> [pc |-> "idle", a |-> None]]
    /\ toDir = [n \in Nodes |-> <<>>]
    /\ toCache = [n \in Nodes |-> <<>>]
    /\ dir = [a \in Addrs |-> NoEntry]
    /\ dram = [a \in Addrs |-> TRUE]
    /\ failed = "no"

UserStep(c) ==
    \/ \E t \in Kinds[c], a \in Addrs : Issue(c, Operation(t, a))
    \/ IssueUnlock(c) \/ NextLevel(c) \/ Refill(c)
    \/ Prefetch(c) \/ DoPrefetch(c) \/ RefillPrefetch(c)
NetStep(n) == HandleRep(n) \/ ResumeWaiters(n) \/ HandleReq(n)
DirStep == (\E n \in Nodes : DirReceive(n)) \/ (\E a \in Addrs : DirAsk(a) \/ DirReply(a))

Next ==
    /\ failed = "no"
    /\ (\E c \in Cores : UserStep(c)) \/ (\E n \in Nodes : NetStep(n)) \/ DirStep

Spec == Init /\ [][Next]_vars
FairSpec == Spec /\ WF_vars(Next)

\* All operations and everything they set off are done.
Done == /\ \A c \in Cores : pc[c] = "idle" /\ todo[c] = 0
        /\ \A n \in Nodes : net[n].pc = "idle" /\ toDir[n] = <<>> /\ toCache[n] = <<>>

-----------------------------------------------------------------------------
(* Properties *)

MsgTypes == Requests \cup {"SH_REP", "EX_REP", "UPGRADE_REP", "INV_REQ", "FLUSH_REQ",
                           "WB_REQ", "INV_REP", "FLUSH_REP", "WB_REP"}
Message == [t : MsgTypes, a : Addrs, f : BOOLEAN, d : BOOLEAN]

\* Every variable keeps its type; the set lock is held shared by cores or
\* exclusively by one thread, never both.
TypeOK ==
    /\ cfg \in Configs
    /\ \A n \in Nodes :
          /\ stack[n].l1 \in [CoresOf(n) -> [Addrs -> Cell]]
          /\ stack[n].llc \in [Addrs -> Cell]
          /\ lock[n].sh \subseteq CoresOf(n)
          /\ lock[n].ex \in CoresOf(n) \cup {"free"}
          /\ lock[n].sh = {} \/ lock[n].ex = "free"
          /\ \A a \in Addrs : \A i \in 1 .. Len(waiters[n][a]) :
                waiters[n][a][i] \in [c : CoresOf(n), excl : BOOLEAN]
          /\ net[n] \in [pc : {"idle", "handoff", "signalled"}, a : Addrs \cup {None}]
          /\ \A i \in 1 .. Len(toDir[n]) : toDir[n][i] \in Message
          /\ \A i \in 1 .. Len(toCache[n]) : toCache[n][i] \in Message
    /\ pc \in [Cores -> {"idle", "missed", "waiting", "woken", "locked",
                         "prefetch", "prefetching"}]
    /\ \A c \in Cores : todo[c] \in 0 .. cfg.ops[c]
    /\ dram \in [Addrs -> BOOLEAN]

\* The permission an LLC has on a line, for the abstract specification.
Perm(cell) == CASE cell.s \in {"E", "M"} -> "write"
                [] cell.s \in {"S", "u"} -> "read"
                [] cell.s = "I" -> "none"
LLCPerm == [n \in Nodes |-> [a \in Addrs |-> Perm(stack[n].llc[a])]]
Promise == INSTANCE Coherence WITH perm <- LLCPerm

\* Whatever the threads, evictions and messages in flight do, the LLCs
\* behave like caches that gain a permission only when nobody holds a
\* conflicting one (processInv/Flush/WbReq give it up before they answer).
Coherent == Promise!Spec

Order == [I |-> 0, S |-> 1, u |-> 1, E |-> 2, M |-> 3]
\* "All caches are inclusive": an L1 never has a line its LLC lacks, nor more
\* rights to it than the LLC, and at most one L1 of a node has it dirty.  Only
\* an upgrade makes all copies MODIFIED (processUpgradeRepFromDramDirectory
\* updates every L1), until the writer it wakes takes the others' away.
Inclusive ==
    failed = "no" =>
    \A n \in Nodes, a \in Addrs :
       /\ \A c \in CoresOf(n) : Order[stack[n].l1[c][a].s] <= Order[stack[n].llc[a].s]
       /\ \/ net[n] = [pc |-> "handoff", a |-> a]
          \/ Cardinality({c \in CoresOf(n) : stack[n].l1[c][a].s = "M"}) <= 1

\* No write is lost on its way down: a dirty L1 copy has the value written
\* last, so has an LLC copy above which no L1 is dirty, and DRAM has it
\* when no LLC may write the line and no data is on its way back.
LatestKept ==
    failed = "no" =>
    \A a \in Addrs :
       /\ \A n \in Nodes :
             LET dirty == {c \in CoresOf(n) : stack[n].l1[c][a].s = "M"}
             IN /\ (~cfg.wt => \A c \in dirty : stack[n].l1[c][a].f)
                /\ Valid(stack[n].llc[a]) /\ (dirty = {} \/ cfg.wt) => stack[n].llc[a].f
       /\ \/ dram[a]
          \/ \E n \in Nodes : stack[n].llc[a].s = "M"
          \/ \E n \in Nodes : \E i \in 1 .. Len(toDir[n]) :
                toDir[n][i].a = a /\ toDir[n][i].d /\ toDir[n][i].f

\* A line has waiters exactly while one transaction for it is under way: a
\* request queued at the directory or on its way, its reply on the way back,
\* or the network thread still going through the waiters.
OneTransaction ==
    failed = "no" =>
    \A n \in Nodes, a \in Addrs :
       LET count(ms, ts) == Cardinality({i \in 1 .. Len(ms) : ms[i].a = a /\ ms[i].t \in ts})
           queued == Cardinality({i \in 1 .. Len(dir[a].q) : dir[a].q[i].n = n})
           total == count(toDir[n], Requests) + queued
                      + count(toCache[n], {"SH_REP", "EX_REP", "UPGRADE_REP"})
                      + (IF net[n].a = a THEN 1 ELSE 0)
       IN total = IF waiters[n][a] = <<>> THEN 0 ELSE 1

\* A woken thread owns the exclusive lock the network thread passed to it,
\* it is the first waiter, and the operation it asked for is now permitted.
LockPassed ==
    \A c \in Cores :
       LET n == NodeOf[c] IN
       failed = "no" /\ pc[c] = "woken" =>
          /\ lock[n].ex = c /\ net[n].pc = "handoff"
          /\ waiters[n][net[n].a][1].c = c /\ op[c].a = net[n].a
          /\ stack[n].llc[op[c].a].s \in
                IF op[c].t \in {"R", "P"} THEN {"S", "E", "M"} ELSE {"E", "M"}

\* Of all the assertions of the controller only two can fail: an upgrade
\* reply that finds its line invalidated, and the eviction of a line whose
\* upgrade is under way.
OnlyKnownFailures ==
    failed \in {"no", "out_buf never written", "evicting an upgrading line"}

\* Every operation completes, and the network threads finish, unless an
\* assertion ends the program: no thread waits for ever on a lock, on a
\* reply or on a semaphore.
Completes == <>(failed # "no" \/ Done)

\* "We now have the only copy. Change to a writeable state.": every L1 copy
\* that a read may hit has the value written last.
ReadsLatest ==
    failed = "no" =>
    \A c \in Cores, a \in Addrs :
       Permissible(stack[NodeOf[c]].l1[c][a], "R") => stack[NodeOf[c]].l1[c][a].f
=============================================================================
