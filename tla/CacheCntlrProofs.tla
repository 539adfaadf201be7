-------------------------- MODULE CacheCntlrProofs --------------------------
(***************************************************************************)
(* Proofs about the cache controllers, for any number of nodes, cores and  *)
(* lines.  The inductive invariant CacheInv says that every variable keeps *)
(* its type (Types, LockTypes) and, until an assertion of the controller   *)
(* fails,                                                                  *)
(*   - how the user threads and the network thread of a node pass the set  *)
(*     lock to each other (ThreadInv: LockInv, OpInv, NetInv, WaiterInv),  *)
(*   - that the L1s of a node and its LLC are inclusive, and what the LLC  *)
(*     grants to the thread the network thread wakes (InclusionInv),       *)
(*   - that nothing is sent with direct DRAM access (DirectInv).           *)
(*                                                                         *)
(* The operators on a stack return records built by nested EXCEPTs, which  *)
(* the provers handle badly.  So each one is first given a predicate that  *)
(* says what it does to the states of the lines and to the assertion it    *)
(* may fail (HitServed, Upgraded, InsertedLLC, Copied, UpdatedLLC ...);    *)
(* the steps are then reasoned about with these predicates only.  A second *)
(* one follows the data (PrevData, UpdateData, CopyData, Kind ...), for    *)
(* the proof of CacheDirectoryProofs that no write is lost.                *)
(***************************************************************************)
EXTENDS CacheCntlr, ProofLemmas


-----------------------------------------------------------------------------
(* Types *)

\* The assertions of the controller, and the two of them that can fail.
Errors == {"no", "writeback to non-M line", "MODIFIED data lost", "out_buf never written",
           "line already in LLC", "evicting an upgrading line", "line already in L1",
           "data already gone", "invalidating a MODIFIED line", "upgrade of a non-SHARED line",
           "not valid in L1", "second half missed", "EX_REQ for a held line", "refill missed",
           "line not there after prefetch", "reply without waiter",
           "upgrade reply without data", "upgrade reply for a held line"}
Stack(n) == [l1 : [CoresOf(n) -> [Addrs -> Cell]], llc : [Addrs -> Cell], err : Errors]
Control == {"idle", "missed", "waiting", "woken", "locked", "prefetch", "prefetching"}
Op == [t : {"R", "W", "X", "P"}, a : Addrs \cup {None}, sig : {"NONE", "LOCK", "UNLOCK"}]
Waiter == [c : Cores, excl : BOOLEAN]
Rep == {"SH_REP", "EX_REP", "UPGRADE_REP"}
Ask == {"INV_REQ", "FLUSH_REQ", "WB_REQ"}
Gone == {"INV_REP", "FLUSH_REP"}
Wb == {"WB_REP"}
Entry == [owner : Nodes \cup {None}, sharers : SUBSET Nodes,
          q : Seq([t : Requests, n : Nodes]), asked : SUBSET Nodes]
ToDir == {m \in Message : m.t \in Requests \cup Gone \cup Wb}
ToCache == {m \in Message : m.t \in Rep \cup Ask}

StacksOK == DOMAIN stack = Nodes /\ \A n \in Nodes : stack[n] \in Stack(n)
ThreadsOK ==
    /\ cfg \in Configs
    /\ lock \in [Nodes -> [sh : SUBSET Cores, ex : Cores \cup {"free"}]]
    /\ pc \in [Cores -> Control] /\ op \in [Cores -> Op] /\ todo \in [Cores -> Nat]
    /\ waiters \in [Nodes -> [Addrs -> Seq(Waiter)]]
    /\ plist \in [Nodes -> Seq(Addrs)]
    /\ net \in [Nodes -> [pc : {"idle", "handoff", "signalled"}, a : Addrs \cup {None}]]
ChannelsOK ==
    /\ toDir \in [Nodes -> Seq(ToDir)] /\ toCache \in [Nodes -> Seq(ToCache)]
    /\ dir \in [Addrs -> Entry] /\ dram \in [Addrs -> BOOLEAN]
IsWriter(t) == t \notin {"R", "P"}
Types == StacksOK /\ ThreadsOK /\ ChannelsOK /\ failed \in Errors

-----------------------------------------------------------------------------
(* What the operations on a node's caches do to the states of its lines *)

LEMMA CheckFacts ==
    ASSUME NEW n \in Nodes, NEW st \in Stack(n), NEW ok, NEW name \in Errors
    PROVE  /\ Check(st, ok, name) \in Stack(n)
           /\ Check(st, ok, name).l1 = st.l1
           /\ Check(st, ok, name).llc = st.llc
           /\ st.err = "no" /\ ok => Check(st, ok, name).err = "no"
           /\ st.err = "no" /\ ~ok => Check(st, ok, name).err = name
           /\ st.err # "no" => Check(st, ok, name).err = st.err
BY DEF Check, Stack

LEMMA StackFields ==
    ASSUME NEW n \in Nodes, NEW st \in Stack(n)
    PROVE  /\ st.l1 \in [CoresOf(n) -> [Addrs -> Cell]] /\ DOMAIN st.l1 = CoresOf(n)
           /\ st.llc \in [Addrs -> Cell] /\ st.err \in Errors
           /\ \A c \in CoresOf(n), x \in Addrs :
                 /\ st.l1[c] \in [Addrs -> Cell] /\ st.l1[c][x] \in Cell
                 /\ st.l1[c][x].s \in States /\ st.l1[c][x].f \in BOOLEAN
           /\ \A x \in Addrs : /\ st.llc[x] \in Cell /\ st.llc[x].s \in States
                                /\ st.llc[x].f \in BOOLEAN
BY DEF Stack, Cell

\* The L1s of C that have line a take the state new, and the LLC keeps its own.
PrevUpdated(n, st, C, a, new, evicting, r) ==
    /\ r \in Stack(n)
    /\ \A x \in Addrs : r.llc[x].s = st.llc[x].s
    /\ \A c \in CoresOf(n), x \in Addrs :
          r.l1[c][x].s = IF c \in C /\ x = a /\ st.l1[c][x].s # "I" THEN new ELSE st.l1[c][x].s
    /\ st.err = "no" /\ (evicting \/ st.llc[a].s = "M" \/ \A c \in C : st.l1[c][a].s # "M")
          => r.err = "no"
    /\ r.err = "no" => st.err = "no"

LEMMA UpdatePrevFacts ==
    ASSUME cfg \in Configs, NEW n \in Nodes, NEW st \in Stack(n), NEW C \in SUBSET CoresOf(n),
           NEW a \in Addrs, NEW new \in {"I", "S", "M"}, NEW evicting \in BOOLEAN
    PROVE  PrevUpdated(n, st, C, a, new, evicting, UpdatePrev(st, C, a, new, evicting))
<1> DEFINE dirty == {c \in C : st.l1[c][a].s = "M"}
           back == dirty # {} /\ ~cfg.wt
           some == CHOOSE c \in dirty : TRUE
           newCell(cell) == IF new = "I" THEN NoCell ELSE [cell EXCEPT !.s = new]
           l1 == [c \in DOMAIN st.l1 |-> IF c \in C /\ Valid(st.l1[c][a])
                                           THEN [st.l1[c] EXCEPT ![a] = newCell(@)]
                                           ELSE st.l1[c]]
           data == IF back THEN st.l1[some][a].f ELSE st.llc[a].f
           llc == [st.llc EXCEPT ![a].f = data]
           upd == [st EXCEPT !.l1 = l1, !.llc[a].f = IF back THEN st.l1[some][a].f ELSE @]
           ok == back /\ ~evicting => st.llc[a].s = "M"
           r == UpdatePrev(st, C, a, new, evicting)
<1>0. r = Check(upd, ok, "writeback to non-M line")
  BY DEF UpdatePrev
<1>1. \A cell \in Cell : /\ newCell(cell) \in Cell
                         /\ newCell(cell).s = new
  BY DEF Cell, States, NoCell
<1>2. /\ l1 \in [CoresOf(n) -> [Addrs -> Cell]]
      /\ \A c \in CoresOf(n), x \in Addrs :
            l1[c][x].s = IF c \in C /\ x = a /\ st.l1[c][x].s # "I" THEN new ELSE st.l1[c][x].s
  <2> HIDE DEF newCell
  <2> QED
    BY <1>1, StackFields DEF Valid
<1>3. data \in BOOLEAN
  <2>1. CASE back
    <3>1. some \in dirty
      BY <2>1
    <3> QED
      BY <2>1, <3>1, StackFields
  <2>2. CASE ~back
    BY <2>2, StackFields
  <2> QED
    BY <2>1, <2>2
<1>4. /\ llc \in [Addrs -> Cell]
      /\ \A x \in Addrs : llc[x].s = st.llc[x].s
  <2> HIDE DEF data
  <2> QED
    BY <1>3, StackFields DEF Cell
<1>5. upd \in Stack(n) /\ upd.l1 = l1 /\ upd.llc = llc /\ upd.err = st.err
  <2>1. upd = [st EXCEPT !.l1 = l1, !.llc = llc]
    OBVIOUS
  <2> HIDE DEF l1, llc, upd
  <2> QED
    BY <2>1, <1>2, <1>4 DEF Stack
<1>6. ok <=> (evicting \/ st.llc[a].s = "M" \/ cfg.wt \/ \A c \in C : st.l1[c][a].s # "M")
  OBVIOUS
<1> HIDE DEF l1, llc, upd, ok, r
<1>7. /\ r \in Stack(n) /\ r.l1 = l1 /\ r.llc = llc
      /\ upd.err = "no" /\ ok => r.err = "no"
      /\ r.err = "no" => upd.err = "no"
  <2> DEFINE k == Check(upd, ok, "writeback to non-M line")
  <2>1. /\ k \in Stack(n) /\ k.l1 = upd.l1 /\ k.llc = upd.llc
        /\ upd.err = "no" /\ ok => k.err = "no"
        /\ upd.err # "no" => k.err = upd.err
    BY <1>5 DEF Check, Stack, Errors
  <2> HIDE DEF k
  <2> QED
    BY <1>0, <1>5, <2>1 DEF k
<1> QED
  <2>9. PrevUpdated(n, st, C, a, new, evicting, r)
    BY <1>2, <1>4, <1>5, <1>6, <1>7 DEF PrevUpdated
  <2> QED
    BY <2>9 DEF r

Invalidated(n, st, c, a, r) ==
    /\ r \in Stack(n)
    /\ \A x \in Addrs : r.llc[x].s = st.llc[x].s
    /\ \A d \in CoresOf(n), x \in Addrs :
          r.l1[d][x].s = IF d = c /\ x = a THEN "I" ELSE st.l1[d][x].s
    /\ st.err = "no" /\ st.l1[c][a].s # "M" => r.err = "no"
    /\ r.err = "no" => st.err = "no"

LEMMA InvalidateL1Facts ==
    ASSUME NEW n \in Nodes, NEW st \in Stack(n), NEW c \in CoresOf(n), NEW a \in Addrs
    PROVE  Invalidated(n, st, c, a, InvalidateL1(st, c, a))
<1> DEFINE k == Check(st, st.l1[c][a].s # "M", "invalidating a MODIFIED line")
           l1 == [st.l1 EXCEPT ![c][a] = NoCell]
<1>1. /\ k \in Stack(n) /\ k.l1 = st.l1 /\ k.llc = st.llc
      /\ st.err = "no" /\ st.l1[c][a].s # "M" => k.err = "no"
      /\ st.err # "no" => k.err = st.err
  BY DEF Check, Stack, Errors
<1>2. /\ l1 \in [CoresOf(n) -> [Addrs -> Cell]]
      /\ \A d \in CoresOf(n), x \in Addrs :
            l1[d][x].s = IF d = c /\ x = a THEN "I" ELSE st.l1[d][x].s
  BY StackFields DEF NoCell, Cell, States
<1>3. InvalidateL1(st, c, a) = [k EXCEPT !.l1[c][a] = NoCell]
  BY DEF InvalidateL1
<1> HIDE DEF k
<1> DEFINE r == InvalidateL1(st, c, a)
<1>4. r = [k EXCEPT !.l1 = l1]
  BY <1>1, <1>3
<1> HIDE DEF l1, r
<1>5. r \in Stack(n) /\ r.l1 = l1 /\ r.llc = k.llc /\ r.err = k.err
  BY <1>1, <1>2, <1>4 DEF Stack
<1> QED
  <2>9. Invalidated(n, st, c, a, r)
    BY <1>1, <1>2, <1>5 DEF Invalidated
  <2> QED
    BY <2>9 DEF r

InsertedL1(n, st, c, a, cell, v, r) ==
    /\ r \in Stack(n)
    /\ \A x \in Addrs : r.llc[x].s = st.llc[x].s
    /\ \A d \in CoresOf(n), x \in Addrs :
          r.l1[d][x].s = IF d # c THEN st.l1[d][x].s
                         ELSE IF x = a THEN cell.s
                         ELSE IF x = v THEN "I" ELSE st.l1[d][x].s
    /\ st.err = "no" /\ st.l1[c][a].s = "I"
          /\ (v # None /\ st.l1[c][v].s = "M" => st.llc[v].s = "M") => r.err = "no"
    /\ r.err = "no" => st.err = "no"

LEMMA InsertL1Facts ==
    ASSUME cfg \in Configs, NEW n \in Nodes, NEW st \in Stack(n), NEW c \in CoresOf(n),
           NEW a \in Addrs, NEW cell \in Cell, NEW v \in Addrs \cup {None}
    PROVE  InsertedL1(n, st, c, a, cell, v, InsertL1(st, c, a, cell, v))
<1> DEFINE dirty == v # None /\ ~cfg.wt /\ st.l1[c][v].s = "M"
           st1 == Check(st, ~Valid(st.l1[c][a]), "line already in L1")
           st2 == Check(st1, dirty => st.llc[v].s = "M", "writeback to non-M line")
           st3 == IF dirty THEN [st2 EXCEPT !.llc[v].f = st.l1[c][v].f] ELSE st2
           cells == [x \in Addrs |-> IF x = a THEN cell
                                    ELSE IF x = v THEN NoCell ELSE st.l1[c][x]]
           l1 == [st.l1 EXCEPT ![c] = cells]
<1>1. /\ st1 \in Stack(n) /\ st1.l1 = st.l1 /\ st1.llc = st.llc
      /\ st.err = "no" /\ st.l1[c][a].s = "I" => st1.err = "no"
      /\ st.err # "no" => st1.err = st.err
  BY DEF Check, Stack, Errors, Valid
<1> HIDE DEF st1
<1>2. /\ st2 \in Stack(n) /\ st2.l1 = st.l1 /\ st2.llc = st.llc
      /\ st1.err = "no" /\ (dirty => st.llc[v].s = "M") => st2.err = "no"
      /\ st1.err # "no" => st2.err = st1.err
  BY <1>1 DEF Check, Stack, Errors
<1> HIDE DEF st2
<1>3. /\ st3 \in Stack(n) /\ st3.l1 = st.l1 /\ st3.err = st2.err
      /\ \A x \in Addrs : st3.llc[x].s = st.llc[x].s
  <2>1. CASE dirty
    <3> DEFINE f == st.l1[c][v].f
               llc == [st.llc EXCEPT ![v].f = f]
    <3>1. v \in Addrs /\ f \in BOOLEAN
      BY <2>1, StackFields
    <3> HIDE DEF f
    <3>2. llc \in [Addrs -> Cell] /\ \A x \in Addrs : llc[x].s = st.llc[x].s
      BY <3>1, StackFields DEF Cell
    <3>3. st3 = [st2 EXCEPT !.llc = llc]
      BY <2>1, <1>2 DEF f
    <3> HIDE DEF llc
    <3> QED
      BY <3>2, <3>3, <1>2 DEF Stack
  <2> QED
    BY <2>1, <1>2
<1> HIDE DEF st3
<1>4. /\ l1 \in [CoresOf(n) -> [Addrs -> Cell]]
      /\ \A d \in CoresOf(n), x \in Addrs :
            l1[d][x].s = IF d # c THEN st.l1[d][x].s
                         ELSE IF x = a THEN cell.s
                         ELSE IF x = v THEN "I" ELSE st.l1[d][x].s
  BY StackFields DEF NoCell, Cell, States
<1>5. InsertL1(st, c, a, cell, v) = [st3 EXCEPT !.l1[c] = cells]
  BY DEF InsertL1, st3, st2, st1
<1> DEFINE r == InsertL1(st, c, a, cell, v)
<1>6. r = [st3 EXCEPT !.l1 = l1]
  BY <1>3, <1>5
<1> HIDE DEF l1, r
<1>7. r \in Stack(n) /\ r.l1 = l1 /\ r.llc = st3.llc /\ r.err = st3.err
  BY <1>3, <1>4, <1>6 DEF Stack
<1>8. /\ st.err = "no" /\ st.l1[c][a].s = "I"
            /\ (v # None /\ st.l1[c][v].s = "M" => st.llc[v].s = "M") => st3.err = "no"
      /\ st3.err = "no" => st.err = "no"
  BY <1>1, <1>2, <1>3
<1> QED
  <2>9. InsertedL1(n, st, c, a, cell, v, r)
    BY <1>3, <1>4, <1>7, <1>8 DEF InsertedL1
  <2> QED
    BY <2>9 DEF r

Copied(n, st, c, t, a, v, r) ==
    /\ r \in Stack(n)
    /\ \A x \in Addrs : r.llc[x].s = st.llc[x].s
    /\ \A d \in CoresOf(n), x \in Addrs :
          r.l1[d][x].s = IF d # c THEN st.l1[d][x].s
                         ELSE IF x = a THEN st.llc[a].s
                         ELSE IF x = v THEN "I" ELSE st.l1[d][x].s
    /\ st.err = "no" /\ st.l1[c][a].s = "I" /\ Permissible(st.llc[a], t)
          /\ (v # None /\ st.l1[c][v].s = "M" => st.llc[v].s = "M") => r.err = "no"
    /\ r.err = "no" => st.err = "no"

LEMMA CopyFacts ==
    ASSUME cfg \in Configs, NEW n \in Nodes, NEW st \in Stack(n), NEW c \in CoresOf(n),
           NEW t, NEW a \in Addrs, NEW v \in Addrs \cup {None}
    PROVE  Copied(n, st, c, t, a, v, CopyDataFromNextLevel(st, c, t, a, v))
<1> DEFINE k == Check(st, Permissible(st.llc[a], t), "data already gone")
           r == CopyDataFromNextLevel(st, c, t, a, v)
<1>1. /\ k \in Stack(n) /\ k.l1 = st.l1 /\ k.llc = st.llc
      /\ st.err = "no" /\ Permissible(st.llc[a], t) => k.err = "no"
      /\ st.err # "no" => k.err = st.err
  BY DEF Check, Stack, Errors
<1>2. st.llc[a] \in Cell
  BY StackFields
<1>3. r = InsertL1(k, c, a, st.llc[a], v)
  BY DEF CopyDataFromNextLevel
<1> HIDE DEF k, r
<1> DEFINE cell == st.llc[a]
           i == InsertL1(k, c, a, cell, v)
<1> HIDE DEF cell
<1>4. InsertedL1(n, k, c, a, cell, v, i)
  BY <1>1, <1>2, InsertL1Facts DEF cell
<1>5. r = i
  BY <1>3 DEF cell
<1> HIDE DEF i
<1> QED
  <2>9. Copied(n, st, c, t, a, v, r)
    BY <1>1, <1>4, <1>5 DEF Copied, InsertedL1, cell
  <2> QED
    BY <2>9 DEF r

HitServed(n, st, C, t, a, r) ==
    /\ r \in Stack(n)
    /\ \A x \in Addrs : r.llc[x].s = st.llc[x].s
    /\ \A d \in CoresOf(n), x \in Addrs :
          r.l1[d][x].s = IF d \in C /\ x = a /\ st.l1[d][x].s # "I"
                           THEN IF IsWriter(t) THEN "I"
                                ELSE IF st.llc[a].s \in {"M", "E"} THEN "S"
                                ELSE st.l1[d][x].s
                           ELSE st.l1[d][x].s
    /\ st.err = "no" /\ (st.llc[a].s = "M" \/ \A d \in C : st.l1[d][a].s # "M")
          => r.err = "no"
    /\ r.err = "no" => st.err = "no"

LEMMA ServeHitFacts ==
    ASSUME cfg \in Configs, NEW n \in Nodes, NEW st \in Stack(n),
           NEW C \in SUBSET CoresOf(n), NEW t, NEW a \in Addrs
    PROVE  HitServed(n, st, C, t, a, ServeHit(st, C, t, a))
<1> DEFINE r == ServeHit(st, C, t, a)
           u(new) == UpdatePrev(st, C, a, new, FALSE)
<1>1. PrevUpdated(n, st, C, a, "I", FALSE, u("I")) /\ PrevUpdated(n, st, C, a, "S", FALSE, u("S"))
  BY UpdatePrevFacts
<1>2. /\ IsWriter(t) => r = u("I")
      /\ ~IsWriter(t) /\ st.llc[a].s \in {"M", "E"} => r = u("S")
      /\ ~IsWriter(t) /\ st.llc[a].s \notin {"M", "E"} => r = st
  BY DEF ServeHit, IsWriter
<1> HIDE DEF r, u
<1>3. HitServed(n, st, C, t, a, r)
  BY <1>1, <1>2 DEF HitServed, PrevUpdated
<1> QED
  BY <1>3 DEF r

Upgraded(n, st, C, a, r) ==
    LET s == st.llc[a].s IN
    /\ r \in Stack(n)
    /\ r.llc[a].s = IF s = "E" \/ (cfg.direct /\ s # "I") THEN "M" ELSE s
    /\ \A x \in Addrs : x # a => r.llc[x].s = st.llc[x].s
    /\ \A d \in CoresOf(n), x \in Addrs :
          r.l1[d][x].s = IF d \in C /\ x = a /\ s \in {"S", "E"} THEN "I"
                         ELSE st.l1[d][x].s
    /\ st.err = "no" /\ (s = "M" \/ \A d \in C : st.l1[d][a].s # "M") => r.err = "no"
    /\ r.err = "no" => st.err = "no"

LEMMA UpgradeFacts ==
    ASSUME cfg \in Configs, NEW n \in Nodes, NEW st \in Stack(n),
           NEW C \in SUBSET CoresOf(n), NEW a \in Addrs
    PROVE  Upgraded(n, st, C, a, Upgrade(st, C, a))
<1> DEFINE s == st.llc[a].s
           inv == IF s \in {"S", "E"} THEN UpdatePrev(st, C, a, "I", FALSE) ELSE st
           silent == s = "E" \/ (cfg.direct /\ Valid(st.llc[a]))
           r == Upgrade(st, C, a)
<1>1. /\ inv \in Stack(n)
      /\ \A x \in Addrs : inv.llc[x].s = st.llc[x].s
      /\ \A d \in CoresOf(n), x \in Addrs :
            inv.l1[d][x].s = IF d \in C /\ x = a /\ s \in {"S", "E"} THEN "I" ELSE st.l1[d][x].s
      /\ st.err = "no" /\ (s = "M" \/ \A d \in C : st.l1[d][a].s # "M") => inv.err = "no"
      /\ inv.err = "no" => st.err = "no"
  <2>1. CASE s \in {"S", "E"}
    <3> DEFINE u == UpdatePrev(st, C, a, "I", FALSE)
    <3>1. PrevUpdated(n, st, C, a, "I", FALSE, u)
      BY UpdatePrevFacts
    <3>2. inv = u
      BY <2>1
    <3> HIDE DEF u, inv
    <3> QED
      BY <2>1, <3>1, <3>2 DEF PrevUpdated
  <2>2. CASE s \notin {"S", "E"}
    BY <2>2
  <2> QED
    BY <2>1, <2>2
<1>2. r = IF silent THEN [inv EXCEPT !.llc[a].s = "M"] ELSE inv
  BY DEF Upgrade
<1> HIDE DEF inv, r
<1>3. ASSUME silent PROVE Upgraded(n, st, C, a, r)
  <2> DEFINE llc == [inv.llc EXCEPT ![a].s = "M"]
  <2>1. /\ llc \in [Addrs -> Cell] /\ llc[a].s = "M"
        /\ \A x \in Addrs : x # a => llc[x].s = inv.llc[x].s
    BY <1>1, StackFields DEF Cell, States
  <2>2. r = [inv EXCEPT !.llc = llc]
    BY <1>1, <1>2, <1>3
  <2> HIDE DEF llc
  <2>3. r \in Stack(n) /\ r.llc = llc /\ r.l1 = inv.l1 /\ r.err = inv.err
    BY <1>1, <2>1, <2>2 DEF Stack
  <2> QED
    BY <1>1, <1>3, <2>1, <2>3 DEF Upgraded, Valid
<1>4. ASSUME ~silent PROVE Upgraded(n, st, C, a, r)
  BY <1>1, <1>2, <1>4 DEF Upgraded, Valid
<1> QED
  BY <1>3, <1>4 DEF r

SetUpgrading(n, st, a, r) ==
    /\ r \in Stack(n) /\ r.l1 = st.l1
    /\ r.llc[a].s = "u"
    /\ \A x \in Addrs : x # a => r.llc[x].s = st.llc[x].s
    /\ st.llc[a].s = "S" => r.err = st.err
    /\ r.err = "no" => st.err = "no"

LEMMA UpgradingFacts ==
    ASSUME NEW n \in Nodes, NEW st \in Stack(n), NEW a \in Addrs
    PROVE  SetUpgrading(n, st, a, Upgrading(st, a))
<1> DEFINE k == Check(st, st.llc[a].s = "S", "upgrade of a non-SHARED line")
           llc == [st.llc EXCEPT ![a].s = "u"]
           r == Upgrading(st, a)
<1>1. /\ k \in Stack(n) /\ k.l1 = st.l1 /\ k.llc = st.llc
      /\ st.llc[a].s = "S" => k.err = st.err
      /\ st.err # "no" => k.err = st.err
  BY DEF Check, Stack, Errors
<1>2. /\ llc \in [Addrs -> Cell] /\ llc[a].s = "u"
      /\ \A x \in Addrs : x # a => llc[x].s = st.llc[x].s
  BY StackFields DEF Cell, States
<1>3. r = [k EXCEPT !.llc[a].s = "u"]
  BY DEF Upgrading
<1> HIDE DEF k, r
<1>4. r = [k EXCEPT !.llc = llc]
  BY <1>1, <1>3
<1> HIDE DEF llc
<1>5. r \in Stack(n) /\ r.llc = llc /\ r.l1 = k.l1 /\ r.err = k.err
  BY <1>1, <1>2, <1>4 DEF Stack
<1> QED
  <2>9. SetUpgrading(n, st, a, r)
    BY <1>1, <1>2, <1>5 DEF SetUpgrading
  <2> QED
    BY <2>9 DEF r

\* The victim v leaves the LLC and its L1s, and line a comes in.
InsertedLLC(n, st, a, cell, v, r) ==
    /\ r \in Stack(n)
    /\ \A x \in Addrs : r.llc[x].s = IF x = a THEN cell.s ELSE IF x = v THEN "I" ELSE st.llc[x].s
    /\ \A d \in CoresOf(n), x \in Addrs :
          r.l1[d][x].s = IF x = v THEN "I" ELSE st.l1[d][x].s
    /\ st.err = "no" /\ st.llc[a].s = "I"
          => r.err = IF v = None \/ cfg.direct \/ st.llc[v].s \in {"S", "E", "M"}
                       THEN "no" ELSE "evicting an upgrading line"
    /\ r.err = "no" => st.err = "no" /\ st.llc[a].s = "I"
LEMMA InsertLLCFacts ==
    ASSUME cfg \in Configs, NEW n \in Nodes, NEW st \in Stack(n), NEW a \in Addrs,
           NEW cell \in Cell, NEW v \in Addrs \cup {None}, None \notin Addrs, v # a
    PROVE  InsertedLLC(n, st, a, cell, v, InsertLLC(st, a, cell, v))
<1> DEFINE st1 == Check(st, ~Valid(st.llc[a]), "line already in LLC")
           up == UpdatePrev(st1, DOMAIN st.l1, v, "I", TRUE)
           st2 == IF v = None THEN st1 ELSE up
           ok == v # None /\ ~cfg.direct => st2.llc[v].s \in {"S", "E", "M"}
           st3 == Check(st2, ok, "evicting an upgrading line")
           llc == [x \in Addrs |-> IF x = a THEN cell ELSE IF x = v THEN NoCell ELSE st3.llc[x]]
           r == InsertLLC(st, a, cell, v)
<1>0. r = [st3 EXCEPT !.llc = llc]
  BY DEF InsertLLC
<1>1. /\ st1 \in Stack(n) /\ st1.l1 = st.l1 /\ st1.llc = st.llc
      /\ st.err = "no" /\ st.llc[a].s = "I" => st1.err = "no"
      /\ st1.err = "no" => st.err = "no" /\ st.llc[a].s = "I"
  BY DEF Check, Stack, Errors, Valid
<1> HIDE DEF st1
<1>2. /\ st2 \in Stack(n)
      /\ \A x \in Addrs : st2.llc[x].s = st.llc[x].s
      /\ \A d \in CoresOf(n), x \in Addrs :
            st2.l1[d][x].s = IF x = v THEN "I" ELSE st.l1[d][x].s
      /\ st1.err = "no" <=> st2.err = "no"
  <2>1. CASE v = None
    BY <1>1, <2>1
  <2>2. CASE v # None
    <3>1. v \in Addrs /\ DOMAIN st.l1 \in SUBSET CoresOf(n) /\ DOMAIN st.l1 = CoresOf(n)
      BY <1>1, <2>2, StackFields
    <3>2. PrevUpdated(n, st1, DOMAIN st.l1, v, "I", TRUE, up)
      BY <1>1, <3>1, UpdatePrevFacts
    <3>3. st2 = up
      BY <2>2
    <3> HIDE DEF st2, up
    <3> QED
      BY <1>1, <3>1, <3>2, <3>3 DEF PrevUpdated
  <2> QED
    BY <2>1, <2>2
<1> HIDE DEF st2
<1>4. ok <=> v = None \/ cfg.direct \/ st.llc[v].s \in {"S", "E", "M"}
  BY <1>2
<1>5. /\ st3 \in Stack(n) /\ st3.l1 = st2.l1 /\ st3.llc = st2.llc
      /\ st2.err = "no" => st3.err = IF ok THEN "no" ELSE "evicting an upgrading line"
      /\ st2.err # "no" => st3.err # "no"
  <2>1. CASE ok
    <3>1. st3 = [st2 EXCEPT !.err = IF @ = "no" /\ FALSE THEN "evicting an upgrading line" ELSE @]
      BY <2>1 DEF Check
    <3> HIDE DEF st3, ok
    <3> QED
      BY <1>2, <2>1, <3>1 DEF Stack
  <2>2. CASE ~ok
    <3>1. st3 = [st2 EXCEPT !.err = IF @ = "no" /\ TRUE THEN "evicting an upgrading line" ELSE @]
      BY <2>2 DEF Check
    <3> HIDE DEF st3, ok
    <3> QED
      BY <1>2, <2>2, <3>1 DEF Stack, Errors
  <2> QED
    BY <2>1, <2>2
<1> HIDE DEF st3, ok
<1>7. /\ llc \in [Addrs -> Cell]
      /\ \A x \in Addrs : llc[x].s = IF x = a THEN cell.s ELSE IF x = v THEN "I" ELSE st3.llc[x].s
  BY <1>5, StackFields DEF NoCell, Cell, States
<1> HIDE DEF llc, r
<1>8. r \in Stack(n) /\ r.llc = llc /\ r.l1 = st3.l1 /\ r.err = st3.err
  BY <1>0, <1>5, <1>7 DEF Stack
<1>9. InsertedLLC(n, st, a, cell, v, r)
  <2>1. ASSUME NEW x \in Addrs
        PROVE  r.llc[x].s = IF x = a THEN cell.s ELSE IF x = v THEN "I" ELSE st.llc[x].s
    <3>1. st3.llc[x].s = st.llc[x].s
      BY <1>2, <1>5
    <3> QED
      BY <1>7, <1>8, <3>1
  <2>2. \A d \in CoresOf(n), x \in Addrs : r.l1[d][x].s = IF x = v THEN "I" ELSE st.l1[d][x].s
    <3>1. r.l1 = st2.l1
      BY <1>5, <1>8
    <3> HIDE DEF up
    <3> QED
      BY <1>2, <3>1
  <2>3. st.err = "no" /\ st.llc[a].s = "I"
          => r.err = IF v = None \/ cfg.direct \/ st.llc[v].s \in {"S", "E", "M"}
                       THEN "no" ELSE "evicting an upgrading line"
    <3>1. ASSUME st.err = "no", st.llc[a].s = "I", ok
          PROVE  r.err = "no" /\ (v = None \/ cfg.direct \/ st.llc[v].s \in {"S", "E", "M"})
      BY <1>1, <1>2, <1>4, <1>5, <1>8, <3>1
    <3>2. ASSUME st.err = "no", st.llc[a].s = "I", ~ok
          PROVE  /\ r.err = "evicting an upgrading line"
                 /\ ~(v = None \/ cfg.direct \/ st.llc[v].s \in {"S", "E", "M"})
      BY <1>1, <1>2, <1>4, <1>5, <1>8, <3>2
    <3> QED
      BY <3>1, <3>2
  <2>4. r.err = "no" => st.err = "no" /\ st.llc[a].s = "I"
    BY <1>1, <1>2, <1>5, <1>8
  <2> QED
    BY <1>8, <2>1, <2>2, <2>3, <2>4 DEF InsertedLLC
<1> QED
  BY <1>9 DEF r

\* The L1s take the new state, and so does the LLC's copy.
UpdatedLLC(n, st, a, new, wantsData, r) ==
    /\ r \in Stack(n)
    /\ \A x \in Addrs : r.llc[x].s = IF x = a /\ st.llc[a].s # "I" THEN new ELSE st.llc[x].s
    /\ \A d \in CoresOf(n), x \in Addrs :
          r.l1[d][x].s = IF x = a /\ st.l1[d][a].s # "I" THEN new ELSE st.l1[d][x].s
    /\ st.err = "no" /\ (st.llc[a].s = "M" \/ \A d \in CoresOf(n) : st.l1[d][a].s # "M")
          /\ (st.llc[a].s # "M" \/ wantsData)
          => \/ r.err = "no"
             \/ wantsData /\ st.llc[a].s = "I" /\ r.err = "out_buf never written"
    /\ r.err = "no" => st.err = "no" /\ ~(wantsData /\ st.llc[a].s = "I")
LEMMA UpdateLLCFacts ==
    ASSUME cfg \in Configs, NEW n \in Nodes, NEW st \in Stack(n), NEW a \in Addrs,
           NEW new \in {"I", "S", "M"}, NEW wantsData \in BOOLEAN,
           wantsData /\ new = "M" => st.llc[a].s = "I"
    PROVE  UpdatedLLC(n, st, a, new, wantsData, UpdateLLC(st, a, new, wantsData))
<1> DEFINE prev == UpdatePrev(st, DOMAIN st.l1, a, new, FALSE)
           old == prev.llc[a]
           lost == old.s = "M" /\ ~wantsData
           written == Valid(old) /\ (new \in {"I", "S"} \/ old.s \in {new, "M"})
           cell == IF new = "I" THEN NoCell ELSE [prev.llc[a] EXCEPT !.s = new]
           llc == [prev.llc EXCEPT ![a] = cell]
           upd == IF Valid(old)
                    THEN [prev EXCEPT !.llc[a] = IF new = "I" THEN NoCell ELSE [@ EXCEPT !.s = new]]
                    ELSE prev
           k == Check(upd, ~lost, "MODIFIED data lost")
           ok == wantsData => written
           r == UpdateLLC(st, a, new, wantsData)
<1>1. DOMAIN st.l1 = CoresOf(n) /\ DOMAIN st.l1 \in SUBSET CoresOf(n)
  BY StackFields
<1>2. PrevUpdated(n, st, DOMAIN st.l1, a, new, FALSE, prev)
  BY <1>1, UpdatePrevFacts
<1>3. r = Check(k, ok, "out_buf never written")
  BY DEF UpdateLLC
<1> HIDE DEF prev
<1>4. cell \in Cell /\ cell.s = new
  BY <1>2, StackFields DEF PrevUpdated, NoCell, Cell, States
<1>5. /\ llc \in [Addrs -> Cell]
      /\ \A x \in Addrs : llc[x].s = IF x = a THEN new ELSE st.llc[x].s
  <2> HIDE DEF cell
  <2> QED
    BY <1>2, <1>4, StackFields DEF PrevUpdated
<1>6. /\ upd \in Stack(n) /\ upd.l1 = prev.l1 /\ upd.err = prev.err
      /\ \A x \in Addrs : upd.llc[x].s = IF x = a /\ st.llc[a].s # "I" THEN new ELSE st.llc[x].s
  <2>1. CASE Valid(old)
    <3>1. upd = [prev EXCEPT !.llc = llc]
      BY <2>1
    <3>2. st.llc[a].s # "I"
      BY <1>2, <2>1 DEF Valid, PrevUpdated
    <3> HIDE DEF llc, upd
    <3> QED
      BY <1>2, <1>5, <3>1, <3>2 DEF Stack, PrevUpdated
  <2>2. CASE ~Valid(old)
    BY <1>2, <2>2 DEF Valid, PrevUpdated
  <2> QED
    BY <2>1, <2>2
<1>7. /\ lost <=> st.llc[a].s = "M" /\ ~wantsData
      /\ ok <=> ~(wantsData /\ st.llc[a].s = "I")
  <2>1. old.s = st.llc[a].s
    BY <1>2 DEF PrevUpdated
  <2> HIDE DEF old
  <2> QED
    BY <2>1 DEF Valid
<1> HIDE DEF upd, lost, ok
<1>8. /\ k \in Stack(n) /\ k.l1 = upd.l1 /\ k.llc = upd.llc
      /\ upd.err = "no" /\ ~lost => k.err = "no"
      /\ k.err = "no" => upd.err = "no"
  <2>1. CASE lost
    <3>1. k = [upd EXCEPT !.err = IF @ = "no" THEN "MODIFIED data lost" ELSE @]
      BY <2>1 DEF Check
    <3> HIDE DEF k
    <3> QED
      BY <1>6, <2>1, <3>1 DEF Stack, Errors
  <2>2. CASE ~lost
    <3>1. k = [upd EXCEPT !.err = @]
      BY <2>2 DEF Check
    <3> HIDE DEF k
    <3> QED
      BY <1>6, <2>2, <3>1 DEF Stack
  <2> QED
    BY <2>1, <2>2
<1> HIDE DEF k, r
<1>9. /\ r \in Stack(n) /\ r.l1 = k.l1 /\ r.llc = k.llc
      /\ k.err = "no" => r.err = IF ok THEN "no" ELSE "out_buf never written"
      /\ r.err = "no" => k.err = "no" /\ ok
  <2>1. CASE ok
    <3>1. r = [k EXCEPT !.err = @]
      BY <1>3, <2>1 DEF Check
    <3> QED
      BY <1>8, <2>1, <3>1 DEF Stack
  <2>2. CASE ~ok
    <3>1. r = [k EXCEPT !.err = IF @ = "no" THEN "out_buf never written" ELSE @]
      BY <1>3, <2>2 DEF Check
    <3> QED
      BY <1>8, <2>2, <3>1 DEF Stack, Errors
  <2> QED
    BY <2>1, <2>2
<1>10. UpdatedLLC(n, st, a, new, wantsData, r)
  <2>1. \A x \in Addrs : r.llc[x].s = IF x = a /\ st.llc[a].s # "I" THEN new ELSE st.llc[x].s
    BY <1>6, <1>8, <1>9
  <2>2. ASSUME NEW d \in CoresOf(n), NEW x \in Addrs
        PROVE  r.l1[d][x].s = IF x = a /\ st.l1[d][a].s # "I" THEN new ELSE st.l1[d][x].s
    <3>1. r.l1 = prev.l1
      BY <1>6, <1>8, <1>9
    <3>2. prev.l1[d][x].s = IF d \in DOMAIN st.l1 /\ x = a /\ st.l1[d][x].s # "I" THEN new
                            ELSE st.l1[d][x].s
      BY <1>2 DEF PrevUpdated
    <3> QED
      BY <1>1, <3>1, <3>2
  <2>3. ASSUME st.err = "no", st.llc[a].s = "M" \/ \A d \in CoresOf(n) : st.l1[d][a].s # "M",
               st.llc[a].s # "M" \/ wantsData
        PROVE  \/ r.err = "no"
               \/ wantsData /\ st.llc[a].s = "I" /\ r.err = "out_buf never written"
    <3>1. prev.err = "no"
      BY <1>1, <1>2, <2>3 DEF PrevUpdated
    <3>2. k.err = "no"
      BY <1>6, <1>7, <1>8, <2>3, <3>1
    <3>3. CASE ok
      BY <1>9, <3>2, <3>3
    <3>4. CASE ~ok
      BY <1>7, <1>9, <3>2, <3>4
    <3> QED
      BY <3>3, <3>4
  <2>4. r.err = "no" => st.err = "no" /\ ~(wantsData /\ st.llc[a].s = "I")
    BY <1>2, <1>6, <1>7, <1>8, <1>9 DEF PrevUpdated
  <2> QED
    BY <1>9, <2>1, <2>2, <2>3, <2>4 DEF UpdatedLLC
<1> QED
  BY <1>10 DEF r

\* An eviction sends at most one message, that the copy is gone.
LEMMA EvictFacts ==
    ASSUME cfg \in Configs, NEW n \in Nodes, NEW st \in Stack(n), NEW v \in Addrs \cup {None},
           None \notin Addrs
    PROVE  /\ v = None => EvictMsgs(st, v) = <<>>
           /\ v # None => /\ Evicted(st, v) \in Cell /\ Evicted(st, v).s = st.llc[v].s
                          /\ \E m \in ToDir : /\ EvictMsgs(st, v) = <<m>>
                                             /\ m.a = v /\ m.t \in Gone
           /\ dram \in [Addrs -> BOOLEAN] => DramEvict(st, v) \in [Addrs -> BOOLEAN]
<1>1. CASE v = None
  BY <1>1 DEF EvictMsgs, DramEvict
<1>2. CASE v # None
  <2> DEFINE p == UpdatePrev(st, DOMAIN st.l1, v, "I", TRUE)
             e == Evicted(st, v)
             m == IF e.s = "M" THEN Msg("FLUSH_REP", v, e.f, TRUE) ELSE Msg("INV_REP", v, FALSE, FALSE)
  <2>1. v \in Addrs /\ DOMAIN st.l1 \in SUBSET CoresOf(n)
    BY <1>2, StackFields
  <2>2. PrevUpdated(n, st, DOMAIN st.l1, v, "I", TRUE, p)
    BY <2>1, UpdatePrevFacts
  <2>3. e = p.llc[v]
    BY DEF Evicted
  <2> HIDE DEF p
  <2>4. e \in Cell /\ e.s = st.llc[v].s
    BY <2>1, <2>2, <2>3, StackFields DEF PrevUpdated
  <2>5. EvictMsgs(st, v) = <<m>>
    BY <1>2 DEF EvictMsgs
  <2> HIDE DEF e
  <2>6. m \in ToDir /\ m.a = v /\ m.t \in Gone
    BY <2>1, <2>4 DEF Msg, ToDir, Message, MsgTypes, Requests, Gone, Wb, Cell
  <2>7. dram \in [Addrs -> BOOLEAN] => DramEvict(st, v) \in [Addrs -> BOOLEAN]
    BY <2>1, <2>4 DEF DramEvict, Cell, e
  <2> HIDE DEF m
  <2> QED
    BY <1>2, <2>4, <2>5, <2>6, <2>7 DEF e
<1> QED
  BY <1>1, <1>2

-----------------------------------------------------------------------------
(* What the steps of the user threads do to the caches *)

\* Two stacks that differ in data only, and two channels that do.
SameStates(n, st, r) ==
    /\ r \in Stack(n)
    /\ \A x \in Addrs : r.llc[x].s = st.llc[x].s
    /\ \A d \in CoresOf(n), x \in Addrs : r.l1[d][x].s = st.l1[d][x].s
SameKinds(ms, r) ==
    /\ DOMAIN r = DOMAIN ms
    /\ \A i \in DOMAIN ms : r[i].t = ms[i].t /\ r[i].a = ms[i].a /\ r[i].d = ms[i].d

LEMMA OldStackFacts ==
    ASSUME NEW n \in Nodes, NEW st \in Stack(n), NEW a
    PROVE  SameStates(n, st, OldStack(st, a)) /\ OldStack(st, a).err = st.err
<1> DEFINE old(cells) == OldCells(cells, a)
           l1 == [c \in DOMAIN st.l1 |-> old(st.l1[c])]
           llc == old(st.llc)
           r == OldStack(st, a)
<1>1. ASSUME NEW cells \in [Addrs -> Cell]
      PROVE  old(cells) \in [Addrs -> Cell] /\ \A x \in Addrs : old(cells)[x].s = cells[x].s
  BY <1>1 DEF OldCells, Cell
<1> HIDE DEF old
<1>2. /\ l1 \in [CoresOf(n) -> [Addrs -> Cell]]
      /\ \A d \in CoresOf(n), x \in Addrs : l1[d][x].s = st.l1[d][x].s
  BY <1>1, StackFields
<1>3. llc \in [Addrs -> Cell] /\ \A x \in Addrs : llc[x].s = st.llc[x].s
  BY <1>1, StackFields
<1>4. r = [st EXCEPT !.l1 = l1, !.llc = llc]
  BY DEF OldStack, old
<1> HIDE DEF l1, llc, r
<1>5. r \in Stack(n) /\ r.l1 = l1 /\ r.llc = llc /\ r.err = st.err
  BY <1>2, <1>3, <1>4 DEF Stack
<1> QED
  <2>1. SameStates(n, st, r) /\ r.err = st.err
    BY <1>2, <1>3, <1>5 DEF SameStates
  <2> QED
    BY <2>1 DEF r

LEMMA OldMsgsFacts ==
    ASSUME NEW T, T \in {ToDir, ToCache}, NEW ms \in Seq(T), NEW a
    PROVE  OldMsgs(ms, a) \in Seq(T) /\ SameKinds(ms, OldMsgs(ms, a))
<1> DEFINE e(m) == IF m.a = a THEN [m EXCEPT !.f = FALSE] ELSE m
           r == OldMsgs(ms, a)
<1>1. \A m \in T : e(m) \in T /\ e(m).t = m.t /\ e(m).a = m.a /\ e(m).d = m.d
  <2>1. \A m \in Message : e(m) \in Message /\ e(m).t = m.t /\ e(m).a = m.a /\ e(m).d = m.d
    BY DEF Message
  <2> HIDE DEF e
  <2> QED
    BY <2>1 DEF ToDir, ToCache
<1>2. r = [i \in DOMAIN ms |-> e(ms[i])]
  BY DEF OldMsgs
<1> HIDE DEF e, r
<1>3. DOMAIN ms = 1 .. Len(ms) /\ Len(ms) \in Nat /\ \A i \in DOMAIN ms : ms[i] \in T
  OBVIOUS
<1>4. r \in [1 .. Len(ms) -> T]
  BY <1>1, <1>2, <1>3
<1>5. r \in Seq(T)
  BY <1>3, <1>4
<1>6. SameKinds(ms, r)
  BY <1>1, <1>2, <1>3 DEF SameKinds
<1> QED
  BY <1>5, <1>6 DEF r

\* A write through to line a of core c is the value written last.
Written(st, c, a) == [OldStack(st, a) EXCEPT !.l1[c][a].f = TRUE, !.llc[a].f = cfg.wt]
LEMMA WrittenFacts ==
    ASSUME cfg \in Configs, NEW n \in Nodes, NEW st \in Stack(n), NEW c \in CoresOf(n), NEW a \in Addrs
    PROVE  SameStates(n, st, Written(st, c, a)) /\ Written(st, c, a).err = st.err
<1> DEFINE k == OldStack(st, a)
           l1 == [k.l1 EXCEPT ![c][a].f = TRUE]
           llc == [k.llc EXCEPT ![a].f = cfg.wt]
           w == [k EXCEPT !.l1[c][a].f = TRUE, !.llc[a].f = cfg.wt]
<1>0. cfg.wt \in BOOLEAN
  BY CacheAssumption
<1>1. SameStates(n, st, k) /\ k.err = st.err
  BY OldStackFacts
<1> HIDE DEF k
<1>2. k \in Stack(n)
  BY <1>1 DEF SameStates
<1>3. /\ l1 \in [CoresOf(n) -> [Addrs -> Cell]]
      /\ \A d \in CoresOf(n), x \in Addrs : l1[d][x].s = k.l1[d][x].s
  <2> DEFINE row == [k.l1[c] EXCEPT ![a].f = TRUE]
  <2>0. k.l1[c] \in [Addrs -> Cell]
    BY <1>2, StackFields
  <2>1. row \in [Addrs -> Cell] /\ \A x \in Addrs : row[x].s = k.l1[c][x].s
    BY <2>0 DEF Cell
  <2>2. l1 = [k.l1 EXCEPT ![c] = row]
    OBVIOUS
  <2> HIDE DEF row, l1
  <2> QED
    BY <1>2, <2>1, <2>2, StackFields
<1>4. llc \in [Addrs -> Cell] /\ \A x \in Addrs : llc[x].s = k.llc[x].s
  BY <1>0, <1>2, StackFields DEF Cell
<1>5. w = [k EXCEPT !.l1 = l1, !.llc = llc]
  BY <1>2 DEF Stack
<1> HIDE DEF l1, llc, w
<1>6. w \in Stack(n) /\ w.l1 = l1 /\ w.llc = llc /\ w.err = k.err
  BY <1>2, <1>3, <1>4, <1>5 DEF Stack
<1>7. SameStates(n, st, w) /\ w.err = st.err
  BY <1>1, <1>3, <1>4, <1>6 DEF SameStates
<1> QED
  BY <1>7 DEF w, k, Written

\* The access of core c with the stack st: only data changes, in stacks and messages.
Accessed(n, c, o, st) ==
    /\ StacksOK'
    /\ \A m \in Nodes : SameStates(m, IF m = n THEN st ELSE stack[m], stack'[m])
    /\ \A m \in Nodes \ {n} : stack'[m].err = stack[m].err
    /\ failed' = stack'[n].err /\ failed' \in Errors
    /\ failed' = "no" => st.err = "no" /\ Permissible(st.l1[c][o.a], o.t)
    /\ st.err = "no" /\ Permissible(st.l1[c][o.a], o.t)
          /\ (o.t = "W" => st.llc[o.a].s = "M") => failed' = "no"
    /\ toDir' \in [Nodes -> Seq(ToDir)] /\ toCache' \in [Nodes -> Seq(ToCache)]
    /\ \A m \in Nodes : SameKinds(toDir[m], toDir'[m]) /\ SameKinds(toCache[m], toCache'[m])

LEMMA AccessFacts ==
    ASSUME cfg \in Configs, StacksOK, ChannelsOK, NEW n \in Nodes, NEW c \in CoresOf(n),
           NEW o \in Op, o.a \in Addrs, NEW st \in Stack(n), Access(n, c, o, st)
    PROVE  Accessed(n, c, o, st)
<1> DEFINE a == o.a
           ok == Check(st, Permissible(st.l1[c][a], o.t), "not valid in L1")
           wr == [OldStack(ok, a) EXCEPT !.l1[c][a].f = TRUE, !.llc[a].f = cfg.wt]
           wt == Check(wr, cfg.wt => wr.llc[a].s = "M", "writeback to non-M line")
           done == IF o.t = "W" THEN wt ELSE ok
<1>1. /\ ok \in Stack(n) /\ ok.l1 = st.l1 /\ ok.llc = st.llc
      /\ ok.err = "no" <=> st.err = "no" /\ Permissible(st.l1[c][a], o.t)
  <2>1. CASE Permissible(st.l1[c][a], o.t)
    BY <2>1 DEF Check, Stack
  <2>2. CASE ~Permissible(st.l1[c][a], o.t)
    BY <2>2 DEF Check, Stack, Errors
  <2> QED
    BY <2>1, <2>2
<1> HIDE DEF ok
<1>2. SameStates(n, ok, wr) /\ wr.err = ok.err
  <2>1. wr = Written(ok, c, a)
    BY DEF Written
  <2>2. SameStates(n, ok, Written(ok, c, a)) /\ Written(ok, c, a).err = ok.err
    BY <1>1, WrittenFacts
  <2> HIDE DEF wr
  <2> QED
    BY <2>1, <2>2
<1> HIDE DEF wr
<1>3. /\ wt \in Stack(n) /\ wt.l1 = wr.l1 /\ wt.llc = wr.llc
      /\ wt.err = "no" <=> wr.err = "no" /\ (cfg.wt => wr.llc[a].s = "M")
  <2>0. wr \in Stack(n)
    BY <1>2 DEF SameStates
  <2>1. CASE cfg.wt => wr.llc[a].s = "M"
    BY <2>0, <2>1 DEF Check, Stack
  <2>2. CASE ~(cfg.wt => wr.llc[a].s = "M")
    BY <2>0, <2>2 DEF Check, Stack, Errors
  <2> QED
    BY <2>1, <2>2
<1> HIDE DEF wt
<1>4. SameStates(n, st, done)
  <2>1. SameStates(n, st, ok) /\ SameStates(n, st, wt)
    BY <1>1, <1>2, <1>3 DEF SameStates
  <2> QED
    BY <2>1
<1>5. /\ done.err = "no" => st.err = "no" /\ Permissible(st.l1[c][a], o.t)
      /\ st.err = "no" /\ Permissible(st.l1[c][a], o.t)
            /\ (o.t = "W" => st.llc[a].s = "M") => done.err = "no"
  <2>1. wr.llc[a].s = st.llc[a].s
    BY <1>1, <1>2 DEF SameStates
  <2> QED
    BY <1>1, <1>2, <1>3, <2>1
<1> HIDE DEF done
<1>6. /\ DOMAIN stack' = Nodes /\ stack'[n] = done
      /\ \A m \in Nodes \ {n} : SameStates(m, stack[m], stack'[m]) /\ stack'[m].err = stack[m].err
  <2>1. CASE o.t = "W"
    <3>1. stack' = [m \in Nodes |-> IF m = n THEN done ELSE OldStack(stack[m], a)]
      BY <2>1, Zenon DEF Access, done, ok, wr, wt
    <3>2. ASSUME NEW m \in Nodes \ {n}
          PROVE  SameStates(m, stack[m], stack'[m]) /\ stack'[m].err = stack[m].err
      <4>1. stack'[m] = OldStack(stack[m], a) /\ stack[m] \in Stack(m)
        BY <3>1 DEF StacksOK
      <4> QED
        BY <4>1, OldStackFacts
    <3> QED
      BY <3>1, <3>2, Zenon
  <2>2. CASE o.t # "W"
    <3>1. stack' = [stack EXCEPT ![n] = done]
      BY <2>2, Zenon DEF Access, done, ok, wr, wt
    <3> QED
      BY <3>1, Zenon DEF StacksOK, SameStates
  <2> QED
    BY <2>1, <2>2
<1>7. failed' = done.err
  BY Zenon DEF Access, done, ok, wr, wt
<1>8. /\ toDir' \in [Nodes -> Seq(ToDir)] /\ toCache' \in [Nodes -> Seq(ToCache)]
      /\ \A m \in Nodes : SameKinds(toDir[m], toDir'[m]) /\ SameKinds(toCache[m], toCache'[m])
  <2>0. \A m \in Nodes : toDir[m] \in Seq(ToDir) /\ toCache[m] \in Seq(ToCache)
    BY DEF ChannelsOK
  <2>1. CASE o.t = "W"
    <3>1. /\ toDir' = [m \in Nodes |-> OldMsgs(toDir[m], a)]
          /\ toCache' = [m \in Nodes |-> OldMsgs(toCache[m], a)]
      BY <2>1, Zenon DEF Access
    <3>2. \A m \in Nodes : /\ OldMsgs(toDir[m], a) \in Seq(ToDir)
                           /\ OldMsgs(toCache[m], a) \in Seq(ToCache)
                           /\ SameKinds(toDir[m], OldMsgs(toDir[m], a))
                           /\ SameKinds(toCache[m], OldMsgs(toCache[m], a))
      BY <2>0, OldMsgsFacts
    <3> QED
      BY <3>1, <3>2, Zenon
  <2>2. CASE o.t # "W"
    <3>1. toDir' = toDir /\ toCache' = toCache
      BY <2>2, Zenon DEF Access
    <3> QED
      BY <3>1, Zenon DEF ChannelsOK, SameKinds
  <2> QED
    BY <2>1, <2>2
<1> QED
  <2>1. StacksOK' /\ stack'[n] \in Stack(n)
    <3>1. \A m \in Nodes : stack'[m] \in Stack(m)
      BY <1>4, <1>6 DEF SameStates
    <3> QED
      BY <1>6, <3>1 DEF StacksOK
  <2>2. failed' \in Errors
    BY <1>7, <1>6, <2>1, StackFields
  <2> QED
    BY <1>4, <1>5, <1>6, <1>7, <1>8, <2>1, <2>2 DEF Accessed

LEMMA VictimFacts ==
    ASSUME NEW cache, NEW a, NEW ways \in Nat \ {0}, NEW v \in Victims(cache, a, ways), a \in Addrs
    PROVE  v \in Addrs \cup {None} /\ v # a
BY CacheAssumption DEF Victims

\* The stack a miss goes on with: the L1's own copy of the line is gone.
MissStack(n, c, a) ==
    IF Valid(stack[n].l1[c][a]) THEN InvalidateL1(stack[n], c, a) ELSE stack[n]

LEMMA MissStackFacts ==
    ASSUME StacksOK, NEW n \in Nodes, NEW c \in CoresOf(n), NEW a \in Addrs
    PROVE  Invalidated(n, stack[n], c, a, MissStack(n, c, a))
<1>1. stack[n] \in Stack(n)
  BY DEF StacksOK
<1>2. CASE Valid(stack[n].l1[c][a])
  BY <1>1, <1>2, InvalidateL1Facts DEF MissStack
<1>3. CASE ~Valid(stack[n].l1[c][a])
  BY <1>1, <1>3 DEF MissStack, Invalidated, Valid
<1> QED
  BY <1>2, <1>3

\* The ways the LLC serves a request t for line a: a hit, a silent upgrade, or
\* with direct DRAM access the line read in.
ServedHit(n, st, C, t, a, r) ==
    Permissible(st.llc[a], t) /\ HitServed(n, st, C, t, a, r.st) /\ r.dram = dram
ServedUpgrade(n, st, C, t, a, r) ==
    /\ ~Permissible(st.llc[a], t) /\ Upgraded(n, st, C, a, r.st)
    /\ Permissible(r.st.llc[a], t) /\ r.dram = dram
ServedDirect(n, st, t, a, r) ==
    /\ cfg.direct /\ st.llc[a].s = "I"
    /\ \E v \in Addrs \cup {None}, cell \in Cell :
          /\ v # a /\ cell.s = IF IsWriter(t) THEN "M" ELSE "S"
          /\ InsertedLLC(n, st, a, cell, v, r.st) /\ r.dram = DramEvict(st, v)

LEMMA UpgradePermits ==
    ASSUME cfg \in Configs, NEW n \in Nodes, NEW st \in Stack(n), NEW C \in SUBSET CoresOf(n),
           NEW t, NEW a \in Addrs, cfg.direct, ~Permissible(Upgrade(st, C, a).llc[a], t)
    PROVE  st.llc[a].s = "I"
<1>1. Upgraded(n, st, C, a, Upgrade(st, C, a))
  BY UpgradeFacts
<1> QED
  BY <1>1 DEF Upgraded, Permissible

LEMMA UpgradeKeepsPermission ==
    ASSUME cfg \in Configs, NEW n \in Nodes, NEW st \in Stack(n), NEW C \in SUBSET CoresOf(n),
           NEW t, NEW a \in Addrs, Permissible(st.llc[a], t)
    PROVE  Permissible(Upgrade(st, C, a).llc[a], t)
<1>1. Upgraded(n, st, C, a, Upgrade(st, C, a))
  BY UpgradeFacts
<1> QED
  BY <1>1 DEF Upgraded, Permissible

LEMMA ServedFacts ==
    ASSUME cfg \in Configs, dram \in [Addrs -> BOOLEAN],
           NEW n \in Nodes, NEW st \in Stack(n), NEW C \in SUBSET CoresOf(n), NEW t, NEW a \in Addrs,
           NEW r \in Served(t, a, st, C)
    PROVE  /\ \/ ServedHit(n, st, C, t, a, r)
              \/ ServedUpgrade(n, st, C, t, a, r)
              \/ ServedDirect(n, st, t, a, r)
           /\ r.st \in Stack(n) /\ r.dram \in [Addrs -> BOOLEAN]
<1> DEFINE up == Upgrade(st, C, a)
           hit == ServeHit(st, C, t, a)
           new == [s |-> IF t \in {"R", "P"} THEN "S" ELSE "M", f |-> dram[a]]
<1>1. HitServed(n, st, C, t, a, hit) /\ Upgraded(n, st, C, a, up)
  BY ServeHitFacts, UpgradeFacts
<1>2. CASE Permissible(st.llc[a], t)
  <2>1. r = [st |-> hit, dram |-> dram]
    <3>1. Permissible(up.llc[a], t)
      BY <1>2, UpgradeKeepsPermission
    <3> QED
      BY <1>2, <3>1 DEF Served
  <2> HIDE DEF hit, up
  <2> QED
    BY <1>1, <1>2, <2>1 DEF ServedHit, HitServed
<1>3. CASE ~Permissible(st.llc[a], t) /\ Permissible(up.llc[a], t)
  <2>1. r = [st |-> up, dram |-> dram]
    BY <1>3 DEF Served
  <2> HIDE DEF hit, up
  <2> QED
    BY <1>1, <1>3, <2>1 DEF ServedUpgrade, Upgraded
<1>4. CASE ~Permissible(st.llc[a], t) /\ ~Permissible(up.llc[a], t)
  <2>1. r \in IF cfg.direct THEN {[st |-> InsertLLC(st, a, new, v), dram |-> DramEvict(st, v)] :
                                    v \in Victims(st.llc, a, LLCWays)} ELSE {}
    BY <1>4 DEF Served
  <2>2. cfg.direct
    BY <2>1
  <2>3. PICK v \in Victims(st.llc, a, LLCWays) :
             r = [st |-> InsertLLC(st, a, new, v), dram |-> DramEvict(st, v)]
    BY <2>1, <2>2
  <2>4. v \in Addrs \cup {None} /\ v # a /\ None \notin Addrs
    BY VictimFacts, CacheAssumption
  <2>5. new \in Cell /\ new.s = IF IsWriter(t) THEN "M" ELSE "S"
    BY DEF Cell, States, IsWriter
  <2> HIDE DEF new
  <2>6. InsertedLLC(n, st, a, new, v, InsertLLC(st, a, new, v))
    BY <2>4, <2>5, InsertLLCFacts
  <2>7. st.llc[a].s = "I"
    BY <1>4, <2>2, UpgradePermits
  <2>8. DramEvict(st, v) \in [Addrs -> BOOLEAN]
    BY <2>4, EvictFacts
  <2>9. r.st = InsertLLC(st, a, new, v) /\ r.dram = DramEvict(st, v)
    BY <2>3
  <2>10. r.st \in Stack(n)
    BY <2>6, <2>9 DEF InsertedLLC
  <2>11. ServedDirect(n, st, t, a, r)
    BY <2>2, <2>4, <2>5, <2>6, <2>7, <2>9 DEF ServedDirect
  <2> QED
    BY <2>8, <2>9, <2>10, <2>11
<1> QED
  BY <1>2, <1>3, <1>4

\* With direct DRAM access every miss is served.
LEMMA DirectServes ==
    ASSUME cfg \in Configs, cfg.direct, NEW n \in Nodes, NEW st \in Stack(n),
           NEW C \in SUBSET CoresOf(n), NEW t, NEW a \in Addrs
    PROVE  Served(t, a, st, C) # {}
<1>1. CASE Permissible(st.llc[a], t) \/ Permissible(Upgrade(st, C, a).llc[a], t)
  <2>1. Permissible(Upgrade(st, C, a).llc[a], t)
    BY <1>1, UpgradeKeepsPermission
  <2> QED
    BY <2>1 DEF Served
<1>2. CASE ~Permissible(st.llc[a], t) /\ ~Permissible(Upgrade(st, C, a).llc[a], t)
  <2>1. st.llc[a].s = "I"
    BY <1>2, UpgradePermits
  <2>2. Victims(st.llc, a, LLCWays) # {}
    <3> DEFINE held == {x \in Addrs : Valid(st.llc[x])}
    <3>1. a \notin held
      BY <2>1 DEF Valid
    <3>2. CASE held = {}
      <4>1. Cardinality(held) = 0 /\ LLCWays \in Nat \ {0}
        BY <3>2, FS_EmptySet, CacheAssumption
      <4> QED
        BY <4>1 DEF Victims
    <3>3. CASE held # {}
      BY <3>1, <3>3 DEF Victims
    <3> QED
      BY <3>2, <3>3
  <2>3. PICK v \in Victims(st.llc, a, LLCWays) : TRUE
    BY <2>2
  <2> DEFINE new == [s |-> IF t \in {"R", "P"} THEN "S" ELSE "M", f |-> dram[a]]
  <2>4. [st |-> InsertLLC(st, a, new, v), dram |-> DramEvict(st, v)] \in Served(t, a, st, C)
    BY <1>2 DEF Served
  <2> QED
    BY <2>4
<1> QED
  BY <1>1, <1>2

LEMMA MsgFacts ==
    ASSUME NEW t, NEW a \in Addrs, NEW f \in BOOLEAN, NEW d \in BOOLEAN
    PROVE  /\ Msg(t, a, f, d).t = t /\ Msg(t, a, f, d).a = a
           /\ Msg(t, a, f, d).f = f /\ Msg(t, a, f, d).d = d
           /\ t \in Requests \cup Gone \cup Wb => Msg(t, a, f, d) \in ToDir
           /\ t \in Rep \cup Ask => Msg(t, a, f, d) \in ToCache
<1>1. t \in Requests \cup Gone \cup Wb \cup Rep \cup Ask => t \in MsgTypes
  BY DEF MsgTypes, Requests, Gone, Wb, Rep, Ask
<1> QED
  BY <1>1 DEF Msg, Message, ToDir, ToCache

LEMMA SendFacts ==
    ASSUME toDir \in [Nodes -> Seq(ToDir)], NEW n \in Nodes, NEW ms \in Seq(ToDir), Send(n, ms)
    PROVE  /\ toDir' \in [Nodes -> Seq(ToDir)] /\ toDir'[n] = toDir[n] \o ms
           /\ \A m \in Nodes \ {n} : toDir'[m] = toDir[m]
<1>1. toDir[n] \in Seq(ToDir)
  OBVIOUS
<1>2. toDir[n] \o ms \in Seq(ToDir)
  BY <1>1, Concatenated
<1> QED
  BY <1>2 DEF Send

LEMMA SuggestionsFacts ==
    ASSUME NEW st, NEW list \in TrainPrefetcher(st)
    PROVE  list \in Seq(Addrs)
<1> DEFINE useful == {x \in Addrs : ~Permissible(st.llc[x], "R")}
<1>1. PICK k \in 0 .. PrefetchMax + 1 : list \in [1 .. k -> useful]
  BY DEF TrainPrefetcher
<1>2. k \in Nat /\ useful \subseteq Addrs
  BY CacheAssumption
<1> HIDE DEF useful
<1>3. list \in Seq(useful)
  BY <1>1, <1>2
<1> QED
  BY <1>2, <1>3, SeqSubset

\* A core queues up for line a; the first one sends the request of the node.
Sends(n, t, a, st) == FirstWaiter(n, a) /\ IsWriter(t) /\ st.llc[a].s = "S"
RequestOf(n, t, a, st) == IF Sends(n, t, a, st) THEN "UPGRADE_REQ"
                          ELSE IF IsWriter(t) THEN "EX_REQ" ELSE "SH_REQ"
Initiated(n, t, a, st) ==
    /\ StacksOK' /\ \A m \in Nodes \ {n} : stack'[m] = stack[m]
    /\ stack'[n].l1 = st.l1
    /\ stack'[n].llc[a].s = IF Sends(n, t, a, st) THEN "u" ELSE st.llc[a].s
    /\ \A x \in Addrs \ {a} : stack'[n].llc[x].s = st.llc[x].s
    /\ failed' = stack'[n].err /\ failed' \in Errors
    /\ failed' = "no" <=> /\ st.err = "no"
                          /\ FirstWaiter(n, a) /\ IsWriter(t) => st.llc[a].s \in {"I", "u", "S"}
    /\ \E ms \in Seq(ToDir) :
          /\ ms = IF FirstWaiter(n, a) THEN <<Msg(RequestOf(n, t, a, st), a, FALSE, FALSE)>> ELSE <<>>
          /\ toDir'[n] = toDir[n] \o ms
    /\ \A m \in Nodes \ {n} : toDir'[m] = toDir[m]
    /\ toDir' \in [Nodes -> Seq(ToDir)] /\ plist' \in [Nodes -> Seq(Addrs)]
    /\ toCache' = toCache

LEMMA InitiateFacts ==
    ASSUME StacksOK, ChannelsOK, plist \in [Nodes -> Seq(Addrs)],
           NEW n \in Nodes, NEW c, NEW t, NEW a \in Addrs, NEW st \in Stack(n),
           InitiateDirectoryAccess(n, c, t, a, st)
    PROVE  Initiated(n, t, a, st)
<1> DEFINE first == FirstWaiter(n, a)
           upgrade == Sends(n, t, a, st)
           st1 == IF upgrade THEN Upgrading(st, a) ELSE st
           ok == first /\ IsWriter(t) => st1.llc[a].s \in {"I", "u"}
           st2 == Check(st1, ok, "EX_REQ for a held line")
           ms == IF first THEN <<Msg(RequestOf(n, t, a, st), a, FALSE, FALSE)>> ELSE <<>>
<1>1. /\ stack' = [stack EXCEPT ![n] = st2] /\ failed' = st2.err /\ Send(n, ms) /\ toCache' = toCache
      /\ \E list \in IF cfg.pf THEN TrainPrefetcher(st2) ELSE {plist[n]} :
             plist' = [plist EXCEPT ![n] = list]
  BY DEF InitiateDirectoryAccess, Sends, RequestOf, IsWriter
<1>2. /\ st1 \in Stack(n) /\ st1.l1 = st.l1 /\ st1.err = st.err
      /\ st1.llc[a].s = IF upgrade THEN "u" ELSE st.llc[a].s
      /\ \A x \in Addrs \ {a} : st1.llc[x].s = st.llc[x].s
  <2>1. CASE upgrade
    <3>1. SetUpgrading(n, st, a, Upgrading(st, a)) /\ st.llc[a].s = "S"
      BY <2>1, UpgradingFacts DEF Sends
    <3> QED
      BY <2>1, <3>1, StackFields DEF SetUpgrading
  <2>2. CASE ~upgrade
    BY <2>2
  <2> QED
    BY <2>1, <2>2
<1>3. ok <=> (first /\ IsWriter(t) => st.llc[a].s \in {"I", "u", "S"})
  BY <1>2 DEF Sends
<1> HIDE DEF st1
<1>4. /\ st2 \in Stack(n) /\ st2.l1 = st1.l1 /\ st2.llc = st1.llc
      /\ st2.err = "no" <=> st1.err = "no" /\ ok
  <2>1. CASE ok
    BY <1>2, <2>1 DEF Check, Stack
  <2>2. CASE ~ok
    BY <1>2, <2>2 DEF Check, Stack, Errors
  <2> QED
    BY <2>1, <2>2
<1> HIDE DEF ok, st2
<1>5. StacksOK' /\ stack'[n] = st2 /\ \A m \in Nodes \ {n} : stack'[m] = stack[m]
  BY <1>1, <1>4 DEF StacksOK
<1>6. plist' \in [Nodes -> Seq(Addrs)]
  BY <1>1, SuggestionsFacts
<1>7. ms \in Seq(ToDir)
  <2> DEFINE m == Msg(RequestOf(n, t, a, st), a, FALSE, FALSE)
  <2>1. m \in ToDir
    BY MsgFacts DEF RequestOf, Requests
  <2> HIDE DEF m
  <2>2. <<m>> \in Seq(ToDir) /\ <<>> \in Seq(ToDir)
    BY <2>1
  <2> QED
    BY <2>2 DEF m
<1> HIDE DEF ms
<1>8. /\ toDir' \in [Nodes -> Seq(ToDir)] /\ toDir'[n] = toDir[n] \o ms
      /\ \A m \in Nodes \ {n} : toDir'[m] = toDir[m]
  BY <1>1, <1>7, SendFacts DEF ChannelsOK
<1>9. failed' \in Errors
  BY <1>1, <1>4, StackFields
<1> QED
  <2>1. \E k \in Seq(ToDir) :
          /\ k = IF FirstWaiter(n, a) THEN <<Msg(RequestOf(n, t, a, st), a, FALSE, FALSE)>> ELSE <<>>
          /\ toDir'[n] = toDir[n] \o k
    BY <1>7, <1>8 DEF ms
  <2>2. failed' = "no" <=> /\ st.err = "no"
                           /\ FirstWaiter(n, a) /\ IsWriter(t) => st.llc[a].s \in {"I", "u", "S"}
    BY <1>1, <1>2, <1>3, <1>4
  <2>3. /\ stack'[n].l1 = st.l1
        /\ stack'[n].llc[a].s = IF upgrade THEN "u" ELSE st.llc[a].s
        /\ \A x \in Addrs \ {a} : stack'[n].llc[x].s = st.llc[x].s
    BY <1>2, <1>4, <1>5
  <2>4. failed' = stack'[n].err
    BY <1>1, <1>5
  <2> QED
    BY <1>1, <1>5, <1>6, <1>8, <1>9, <2>1, <2>2, <2>3, <2>4 DEF Initiated

\* A reply of the directory: a line inserted, or all copies of the node MODIFIED.
Replied(n, st, m, v, r) ==
    /\ r \in Stack(n)
    /\ m.t \in {"EX_REP", "SH_REP"} =>
          \E cell \in Cell : cell.s = (IF m.t = "EX_REP" THEN "E" ELSE "S")
                             /\ InsertedLLC(n, st, m.a, cell, v, r)
    /\ m.t = "UPGRADE_REP" =>
          /\ \A x \in Addrs : r.llc[x].s = IF x = m.a /\ st.llc[m.a].s # "I" THEN "M" ELSE st.llc[x].s
          /\ \A d \in CoresOf(n), x \in Addrs :
                r.l1[d][x].s = IF x = m.a /\ st.l1[d][m.a].s # "I" THEN "M" ELSE st.l1[d][x].s
          /\ r.err = "no" => st.err = "no" /\ st.llc[m.a].s = "u"
          /\ st.err = "no" /\ (m.d <=> st.llc[m.a].s = "I")
                /\ st.llc[m.a].s \in {"u", "I"} /\ (\A d \in CoresOf(n) : st.l1[d][m.a].s # "M")
                => r.err \in {"no", "out_buf never written"}

LEMMA RepFacts ==
    ASSUME cfg \in Configs, NEW n \in Nodes, NEW st \in Stack(n), NEW m \in ToCache, m.t \in Rep,
           NEW v \in Addrs \cup {None}, v # m.a
    PROVE  Replied(n, st, m, v, RepState(st, m, v))
<1> DEFINE a == m.a
           r == RepState(st, m, v)
<1>1. a \in Addrs /\ m.f \in BOOLEAN /\ m.d \in BOOLEAN /\ None \notin Addrs
  BY CacheAssumption DEF ToCache, Message
<1>2. CASE m.t = "EX_REP"
  <2> DEFINE cell == [s |-> "E", f |-> m.f]
  <2>1. r = InsertLLC(st, a, cell, v)
    BY <1>2 DEF RepState
  <2>2. cell \in Cell /\ cell.s = "E"
    BY <1>1 DEF Cell, States
  <2> HIDE DEF cell, r
  <2>3. InsertedLLC(n, st, a, cell, v, r)
    BY <1>1, <2>1, <2>2, InsertLLCFacts
  <2>4. Replied(n, st, m, v, r)
    BY <1>2, <2>2, <2>3 DEF Replied, InsertedLLC
  <2> QED
    BY <2>4 DEF r
<1>3. CASE m.t = "SH_REP"
  <2> DEFINE cell == [s |-> "S", f |-> m.f]
  <2>1. r = InsertLLC(st, a, cell, v)
    BY <1>3 DEF RepState
  <2>2. cell \in Cell /\ cell.s = "S"
    BY <1>1 DEF Cell, States
  <2> HIDE DEF cell, r
  <2>3. InsertedLLC(n, st, a, cell, v, r)
    BY <1>1, <2>1, <2>2, InsertLLCFacts
  <2>4. Replied(n, st, m, v, r)
    BY <1>3, <2>2, <2>3 DEF Replied, InsertedLLC
  <2> QED
    BY <2>4 DEF r
<1>4. CASE m.t = "UPGRADE_REP"
  <2> DEFINE ok1 == st.llc[a].s = "I" => m.d
             ok2 == st.llc[a].s \in {"I", "u"}
             st1 == Check(st, ok1, "upgrade reply without data")
             st2 == Check(st1, ok2, "upgrade reply for a held line")
             lost == st.llc[a].s = "I"
  <2>1. r = UpdateLLC(st2, a, "M", lost)
    BY <1>4 DEF RepState
  <2>2. /\ st1 \in Stack(n) /\ st1.l1 = st.l1 /\ st1.llc = st.llc
        /\ st1.err = "no" <=> st.err = "no" /\ ok1
    <3>1. CASE ok1
      BY <3>1 DEF Check, Stack
    <3>2. CASE ~ok1
      BY <3>2 DEF Check, Stack, Errors
    <3> QED
      BY <3>1, <3>2
  <2> HIDE DEF ok1, st1
  <2>3. /\ st2 \in Stack(n) /\ st2.l1 = st1.l1 /\ st2.llc = st1.llc
        /\ st2.err = "no" <=> st1.err = "no" /\ ok2
    <3>1. CASE ok2
      BY <2>2, <3>1 DEF Check, Stack
    <3>2. CASE ~ok2
      BY <2>2, <3>2 DEF Check, Stack, Errors
    <3> QED
      BY <3>1, <3>2
  <2> HIDE DEF st2
  <2>4. lost \in BOOLEAN /\ (lost <=> st2.llc[a].s = "I")
    BY <2>2, <2>3
  <2> HIDE DEF lost
  <2>5. UpdatedLLC(n, st2, a, "M", lost, UpdateLLC(st2, a, "M", lost))
    BY <1>1, <2>3, <2>4, UpdateLLCFacts
  <2> HIDE DEF r
  <2>6. UpdatedLLC(n, st2, a, "M", lost, r)
    BY <2>1, <2>5
  <2>7. /\ r \in Stack(n)
        /\ \A x \in Addrs : r.llc[x].s = IF x = a /\ st.llc[a].s # "I" THEN "M" ELSE st.llc[x].s
        /\ \A d \in CoresOf(n), x \in Addrs :
              r.l1[d][x].s = IF x = a /\ st.l1[d][a].s # "I" THEN "M" ELSE st.l1[d][x].s
    <3>1. st2.l1 = st.l1 /\ st2.llc = st.llc
      BY <2>2, <2>3
    <3> QED
      BY <2>6, <3>1 DEF UpdatedLLC
  <2>8. r.err = "no" => st.err = "no" /\ st.llc[a].s = "u"
    <3>1. r.err = "no" => st2.err = "no" /\ ~lost
      BY <2>4, <2>6 DEF UpdatedLLC
    <3> QED
      BY <2>2, <2>3, <2>4, <3>1
  <2>9. ASSUME st.err = "no", m.d <=> st.llc[a].s = "I", st.llc[a].s \in {"u", "I"},
               \A d \in CoresOf(n) : st.l1[d][a].s # "M"
        PROVE  r.err \in {"no", "out_buf never written"}
    <3>1. st2.err = "no" /\ st2.llc[a].s # "M" /\ \A d \in CoresOf(n) : st2.l1[d][a].s # "M"
      BY <2>2, <2>3, <2>9 DEF ok1
    <3> QED
      BY <2>6, <3>1 DEF UpdatedLLC
  <2>10. Replied(n, st, m, v, r)
    BY <1>4, <2>7, <2>8, <2>9 DEF Replied
  <2> QED
    BY <2>10 DEF r
<1> QED
  BY <1>2, <1>3, <1>4 DEF Rep

\* The caches after the loop over the waiters of line a has gone one waiter on.
Woken(n, a, st, ws, ms) ==
    LET again == ws # <<>> /\ NeedsUpgrade(ws[1], st.llc[a]) IN
    /\ StacksOK' /\ \A m \in Nodes \ {n} : stack'[m] = stack[m]
    /\ stack'[n].l1 = st.l1 /\ stack'[n].err = st.err /\ failed' = st.err
    /\ stack'[n].llc[a].s = IF again THEN "u" ELSE st.llc[a].s
    /\ \A x \in Addrs \ {a} : stack'[n].llc[x].s = st.llc[x].s
    /\ toDir' \in [Nodes -> Seq(ToDir)] /\ \A m \in Nodes \ {n} : toDir'[m] = toDir[m]
    /\ toDir'[n] = IF again THEN toDir[n] \o (ms \o <<Msg("UPGRADE_REQ", a, FALSE, FALSE)>>)
                            ELSE toDir[n] \o ms

LEMMA WakeFacts ==
    ASSUME StacksOK, ChannelsOK, NEW n \in Nodes, NEW a \in Addrs, NEW st \in Stack(n),
           NEW ws, NEW ms \in Seq(ToDir), WakeWaiters(n, a, st, ws, ms)
    PROVE  Woken(n, a, st, ws, ms)
<1> DEFINE again == ws # <<>> /\ NeedsUpgrade(ws[1], st.llc[a])
           req == Msg("UPGRADE_REQ", a, FALSE, FALSE)
<1>1. CASE again
  <2> DEFINE r == Upgrading(st, a)
  <2>1. SetUpgrading(n, st, a, r) /\ st.llc[a].s = "S"
    BY <1>1, UpgradingFacts DEF NeedsUpgrade
  <2>2. stack' = [stack EXCEPT ![n] = r] /\ failed' = st.err /\ Send(n, ms \o <<req>>)
    BY <1>1 DEF WakeWaiters
  <2> HIDE DEF r
  <2>3. /\ StacksOK' /\ \A m \in Nodes \ {n} : stack'[m] = stack[m]
        /\ stack'[n] = r
    BY <2>1, <2>2 DEF StacksOK, SetUpgrading
  <2>4. req \in ToDir
    BY MsgFacts DEF Requests
  <2> HIDE DEF req
  <2>5. <<req>> \in Seq(ToDir)
    BY <2>4
  <2>6. ms \o <<req>> \in Seq(ToDir)
    BY <2>5, Concatenated
  <2>7. /\ toDir' \in [Nodes -> Seq(ToDir)] /\ \A m \in Nodes \ {n} : toDir'[m] = toDir[m]
        /\ toDir'[n] = toDir[n] \o (ms \o <<req>>)
    BY <2>2, <2>6, SendFacts DEF ChannelsOK
  <2>10. stack'[n].err = st.err
    BY <2>1, <2>3 DEF SetUpgrading
  <2> QED
    BY <1>1, <2>1, <2>2, <2>3, <2>7, <2>10 DEF Woken, SetUpgrading, req
<1>2. CASE ~again
  <2>1. stack' = [stack EXCEPT ![n] = st] /\ failed' = st.err /\ Send(n, ms)
    BY <1>2 DEF WakeWaiters
  <2>2. /\ StacksOK' /\ \A m \in Nodes \ {n} : stack'[m] = stack[m]
        /\ stack'[n] = st
    BY <2>1 DEF StacksOK
  <2>3. /\ toDir' \in [Nodes -> Seq(ToDir)] /\ \A m \in Nodes \ {n} : toDir'[m] = toDir[m]
        /\ toDir'[n] = toDir[n] \o ms
    BY <2>1, SendFacts DEF ChannelsOK
  <2>4. /\ toDir'[n] = IF again THEN toDir[n] \o (ms \o <<req>>) ELSE toDir[n] \o ms
        /\ stack'[n].llc[a].s = IF again THEN "u" ELSE st.llc[a].s
    BY <1>2, <2>2, <2>3
  <2>5. /\ stack'[n].l1 = st.l1 /\ stack'[n].err = st.err /\ failed' = st.err
        /\ \A x \in Addrs \ {a} : stack'[n].llc[x].s = st.llc[x].s
    BY <2>1, <2>2
  <2> HIDE DEF again, req
  <2> QED
    BY <2>2, <2>3, <2>4, <2>5, Zenon DEF Woken, again, req
<1> QED
  BY <1>1, <1>2

\* The network thread handles the reply m: the line comes in, another may go out.
HandledRep(n, m) ==
    \E v \in Addrs \cup {None}, r \in Stack(n), k \in Stack(n), ms \in Seq(ToDir) :
       /\ v # m.a /\ (m.t = "UPGRADE_REP" => v = None)
       /\ Replied(n, stack[n], m, v, r) /\ ms = EvictMsgs(stack[n], v)
       /\ k.l1 = r.l1 /\ k.llc = r.llc
       /\ k.err = "no" <=> r.err = "no" /\ waiters[n][m.a] # <<>>
       /\ waiters[n][m.a] # <<>> => k.err = r.err
       /\ WakeWaiters(n, m.a, k, waiters[n][m.a], ms)

LEMMA EvictMsgsType ==
    ASSUME cfg \in Configs, NEW n \in Nodes, NEW st \in Stack(n), NEW v \in Addrs \cup {None}
    PROVE  EvictMsgs(st, v) \in Seq(ToDir)
<1>1. None \notin Addrs
  BY CacheAssumption
<1>2. CASE v = None
  <2>1. EvictMsgs(st, v) = <<>>
    BY <1>1, <1>2, EvictFacts
  <2> QED
    BY <2>1
<1>3. CASE v # None
  <2>1. PICK m \in ToDir : EvictMsgs(st, v) = <<m>>
    BY <1>1, <1>3, EvictFacts
  <2> QED
    BY <2>1
<1> QED
  BY <1>2, <1>3

LEMMA HeadOfChannel ==
    ASSUME ChannelsOK, NEW n \in Nodes, toCache[n] # <<>>
    PROVE  /\ Head(toCache[n]) \in ToCache /\ Head(toCache[n]).a \in Addrs
           /\ Head(toCache[n]).t \in Rep \cup Ask
           /\ Tail(toCache[n]) \in Seq(ToCache)
<1>1. toCache[n] \in Seq(ToCache)
  BY DEF ChannelsOK
<1>2. Head(toCache[n]) \in ToCache /\ Tail(toCache[n]) \in Seq(ToCache)
  BY <1>1
<1> QED
  BY <1>2 DEF ToCache, Message

LEMMA HandleRepFacts ==
    ASSUME cfg \in Configs, StacksOK, ChannelsOK, NEW n \in Nodes, HandleRep(n)
    PROVE  HandledRep(n, Head(toCache[n]))
<1> DEFINE m == Head(toCache[n])
           st == stack[n]
           vs == IF m.t = "UPGRADE_REP" THEN {None} ELSE Victims(st.llc, m.a, LLCWays)
<1>1. m \in ToCache /\ m.a \in Addrs /\ m.t \in Rep
  BY HeadOfChannel DEF HandleRep, Rep
<1>2. PICK v \in vs : WakeWaiters(n, m.a, Check(RepState(st, m, v), waiters[n][m.a] # <<>>,
                                                "reply without waiter"),
                                  waiters[n][m.a], EvictMsgs(st, v))
  BY DEF HandleRep
<1> HIDE DEF m
<1>3. v \in Addrs \cup {None} /\ v # m.a /\ (m.t = "UPGRADE_REP" => v = None)
  <2>1. None \notin Addrs /\ LLCWays \in Nat \ {0}
    BY CacheAssumption
  <2>2. CASE m.t = "UPGRADE_REP"
    BY <1>1, <2>1, <2>2
  <2>3. CASE m.t # "UPGRADE_REP"
    BY <1>1, <2>1, <2>3, VictimFacts
  <2> QED
    BY <2>2, <2>3
<1>4. st \in Stack(n)
  BY DEF StacksOK
<1> DEFINE r == RepState(st, m, v)
           ok == waiters[n][m.a] # <<>>
           k == Check(r, ok, "reply without waiter")
<1>5. Replied(n, st, m, v, r)
  BY <1>1, <1>3, <1>4, RepFacts
<1> HIDE DEF r
<1>6. r \in Stack(n)
  BY <1>5 DEF Replied
<1>7. /\ k \in Stack(n) /\ k.l1 = r.l1 /\ k.llc = r.llc
      /\ k.err = "no" <=> r.err = "no" /\ ok
      /\ ok => k.err = r.err
  <2>1. CASE ok
    BY <1>6, <2>1 DEF Check, Stack
  <2>2. CASE ~ok
    BY <1>6, <2>2 DEF Check, Stack, Errors
  <2> QED
    BY <2>1, <2>2
<1>8. EvictMsgs(st, v) \in Seq(ToDir)
  BY <1>3, <1>4, EvictMsgsType
<1>9. WakeWaiters(n, m.a, k, waiters[n][m.a], EvictMsgs(st, v))
  BY <1>2 DEF r, m
<1> HIDE DEF k
<1>10. HandledRep(n, m)
  BY <1>3, <1>5, <1>6, <1>7, <1>8, <1>9 DEF HandledRep
<1> QED
  BY <1>10 DEF m

\* The network thread answers the request m of the directory, if the line is there.
Answered(n, m) ==
    LET s == stack[n].llc[m.a].s IN
    /\ StacksOK' /\ \A k \in Nodes \ {n} : stack'[k] = stack[k]
    /\ failed' = stack'[n].err /\ failed' \in Errors
    /\ toDir' \in [Nodes -> Seq(ToDir)] /\ \A k \in Nodes \ {n} : toDir'[k] = toDir[k]
    /\ s = "I" => stack'[n] = stack[n] /\ toDir'[n] = toDir[n]
    /\ s # "I" =>
          /\ \E rep \in ToDir :
                /\ rep.a = m.a /\ toDir'[n] = Append(toDir[n], rep)
                /\ rep.t = IF m.t = "WB_REQ" THEN "WB_REP"
                           ELSE IF m.t = "FLUSH_REQ" THEN "FLUSH_REP" ELSE "INV_REP"
          /\ m.t = "WB_REQ" /\ s = "u" => stack'[n] = stack[n]
          /\ ~(m.t = "WB_REQ" /\ s = "u") =>
                UpdatedLLC(n, stack[n], m.a, IF m.t = "WB_REQ" THEN "S" ELSE "I",
                           m.t # "INV_REQ", stack'[n])

LEMMA HandleReqFacts ==
    ASSUME cfg \in Configs, StacksOK, ChannelsOK, failed \in Errors, NEW n \in Nodes, HandleReq(n),
           failed = stack[n].err
    PROVE  Answered(n, Head(toCache[n]))
<1> DEFINE m == Head(toCache[n])
           st == stack[n]
           s == st.llc[m.a].s
           st2 == CASE m.t = "INV_REQ" -> UpdateLLC(st, m.a, "I", FALSE)
                    [] m.t = "FLUSH_REQ" -> UpdateLLC(st, m.a, "I", TRUE)
                    [] m.t = "WB_REQ" -> IF st.llc[m.a].s = "u" THEN st
                                         ELSE UpdateLLC(st, m.a, "S", TRUE)
           data == /\ st.llc[m.a].s # "u"
                   /\ UpdatePrev(st, DOMAIN st.l1, m.a, "S", FALSE).llc[m.a].f
           rep == CASE m.t = "INV_REQ" -> Msg("INV_REP", m.a, FALSE, FALSE)
                    [] m.t = "FLUSH_REQ" -> Msg("FLUSH_REP", m.a, data, TRUE)
                    [] m.t = "WB_REQ" -> Msg("WB_REP", m.a, data, TRUE)
           held == Valid(st.llc[m.a])
<1>1. m \in ToCache /\ m.a \in Addrs /\ m.t \in Ask
  BY HeadOfChannel, Zenon DEF HandleReq, Ask
<1>2. /\ stack' = IF held THEN [stack EXCEPT ![n] = st2] ELSE stack
      /\ failed' = IF held THEN st2.err ELSE failed
      /\ Send(n, IF held THEN <<rep>> ELSE <<>>)
  BY Zenon DEF HandleReq
<1> HIDE DEF m
<1>3. st \in Stack(n) /\ toDir \in [Nodes -> Seq(ToDir)]
  BY DEF StacksOK, ChannelsOK
<1>4. CASE ~held
  <2>1. stack' = stack /\ failed' = failed /\ Send(n, <<>>) /\ s = "I" /\ <<>> \in Seq(ToDir)
    BY <1>2, <1>4 DEF Valid
  <2>2. /\ toDir' \in [Nodes -> Seq(ToDir)] /\ \A k \in Nodes \ {n} : toDir'[k] = toDir[k]
        /\ toDir'[n] = toDir[n] \o <<>>
    BY <1>3, <2>1, SendFacts, Zenon
  <2>3. toDir[n] \o <<>> = toDir[n]
    BY <1>3
  <2>4. Answered(n, m)
    BY <2>1, <2>2, <2>3 DEF Answered, StacksOK
  <2> QED
    BY <2>4 DEF m
<1>5. CASE held
  <2>1. stack' = [stack EXCEPT ![n] = st2] /\ failed' = st2.err /\ Send(n, <<rep>>) /\ s # "I"
    BY <1>2, <1>5, Zenon DEF Valid
  <2>2. data \in BOOLEAN
    <3> DEFINE p == UpdatePrev(st, DOMAIN st.l1, m.a, "S", FALSE)
    <3>1. DOMAIN st.l1 \in SUBSET CoresOf(n)
      BY <1>3, StackFields
    <3>2. PrevUpdated(n, st, DOMAIN st.l1, m.a, "S", FALSE, p)
      BY <1>1, <1>3, <3>1, UpdatePrevFacts
    <3> HIDE DEF p
    <3>3. p.llc[m.a].f \in BOOLEAN
      BY <1>1, <3>2, StackFields DEF PrevUpdated
    <3> QED
      BY <3>3 DEF p
  <2> HIDE DEF data
  <2>3. /\ rep \in ToDir /\ rep.a = m.a
        /\ rep.t = IF m.t = "WB_REQ" THEN "WB_REP"
                   ELSE IF m.t = "FLUSH_REQ" THEN "FLUSH_REP" ELSE "INV_REP"
    <3>1. CASE m.t = "INV_REQ"
      <4>1. rep = Msg("INV_REP", m.a, FALSE, FALSE)
        BY <3>1
      <4>2. "INV_REP" \in Gone \cup Wb
        BY DEF Gone, Wb
      <4>3. /\ Msg("INV_REP", m.a, FALSE, FALSE) \in ToDir /\ Msg("INV_REP", m.a, FALSE, FALSE).a = m.a
            /\ Msg("INV_REP", m.a, FALSE, FALSE).t = "INV_REP"
        BY <1>1, <2>2, <4>2 DEF Msg, ToDir, Message, MsgTypes, Requests, Gone, Wb
      <4> HIDE DEF rep
      <4> QED
        BY <3>1, <4>1, <4>3
    <3>2. CASE m.t = "FLUSH_REQ"
      <4>1. rep = Msg("FLUSH_REP", m.a, data, TRUE)
        BY <3>2
      <4>2. "FLUSH_REP" \in Gone \cup Wb
        BY DEF Gone, Wb
      <4>3. /\ Msg("FLUSH_REP", m.a, data, TRUE) \in ToDir /\ Msg("FLUSH_REP", m.a, data, TRUE).a = m.a
            /\ Msg("FLUSH_REP", m.a, data, TRUE).t = "FLUSH_REP"
        BY <1>1, <2>2, <4>2 DEF Msg, ToDir, Message, MsgTypes, Requests, Gone, Wb
      <4> HIDE DEF rep
      <4> QED
        BY <3>2, <4>1, <4>3
    <3>3. CASE m.t = "WB_REQ"
      <4>1. rep = Msg("WB_REP", m.a, data, TRUE)
        BY <3>3
      <4>2. "WB_REP" \in Gone \cup Wb
        BY DEF Gone, Wb
      <4>3. /\ Msg("WB_REP", m.a, data, TRUE) \in ToDir /\ Msg("WB_REP", m.a, data, TRUE).a = m.a
            /\ Msg("WB_REP", m.a, data, TRUE).t = "WB_REP"
        BY <1>1, <2>2, <4>2 DEF Msg, ToDir, Message, MsgTypes, Requests, Gone, Wb
      <4> HIDE DEF rep
      <4> QED
        BY <3>3, <4>1, <4>3
    <3> QED
      BY <1>1, <3>1, <3>2, <3>3 DEF Ask
  <2> HIDE DEF rep
  <2>4. <<rep>> \in Seq(ToDir)
    BY <2>3
  <2>5. /\ toDir' \in [Nodes -> Seq(ToDir)] /\ \A k \in Nodes \ {n} : toDir'[k] = toDir[k]
        /\ toDir'[n] = toDir[n] \o <<rep>>
    BY <1>3, <2>1, <2>4, SendFacts
  <2>6. toDir[n] \o <<rep>> = Append(toDir[n], rep)
    BY <1>3, <2>3
  <2>7. /\ m.t = "WB_REQ" /\ s = "u" => st2 = st
        /\ ~(m.t = "WB_REQ" /\ s = "u") =>
              UpdatedLLC(n, st, m.a, IF m.t = "WB_REQ" THEN "S" ELSE "I", m.t # "INV_REQ", st2)
        /\ st2 \in Stack(n)
    <3>1. CASE m.t = "WB_REQ" /\ s = "u"
      BY <1>3, <3>1
    <3>2. CASE m.t = "WB_REQ" /\ s # "u"
      <4> DEFINE r == UpdateLLC(st, m.a, "S", TRUE)
      <4>1. UpdatedLLC(n, st, m.a, "S", TRUE, r)
        BY <1>1, <1>3, UpdateLLCFacts
      <4>2. st2 = r
        BY <3>2
      <4>3. m.t = "WB_REQ" /\ (m.t # "INV_REQ") = TRUE
        BY <3>2
      <4> HIDE DEF r, st2
      <4> QED
        BY <3>2, <4>1, <4>2, <4>3 DEF UpdatedLLC
    <3>3. CASE m.t = "FLUSH_REQ"
      <4> DEFINE r == UpdateLLC(st, m.a, "I", TRUE)
      <4>1. UpdatedLLC(n, st, m.a, "I", TRUE, r)
        BY <1>1, <1>3, UpdateLLCFacts
      <4>2. st2 = r
        BY <3>3
      <4>3. m.t # "WB_REQ" /\ (m.t # "INV_REQ") = TRUE
        BY <3>3
      <4> HIDE DEF r, st2
      <4> QED
        BY <3>3, <4>1, <4>2, <4>3 DEF UpdatedLLC
    <3>4. CASE m.t = "INV_REQ"
      <4> DEFINE r == UpdateLLC(st, m.a, "I", FALSE)
      <4>1. UpdatedLLC(n, st, m.a, "I", FALSE, r)
        BY <1>1, <1>3, UpdateLLCFacts
      <4>2. st2 = r
        BY <3>4
      <4>3. m.t # "WB_REQ" /\ (m.t # "INV_REQ") = FALSE
        BY <3>4
      <4> HIDE DEF r, st2
      <4> QED
        BY <3>4, <4>1, <4>2, <4>3 DEF UpdatedLLC
    <3> QED
      BY <1>1, <3>1, <3>2, <3>3, <3>4 DEF Ask
  <2> HIDE DEF st2
  <2>8. StacksOK' /\ stack'[n] = st2 /\ \A k \in Nodes \ {n} : stack'[k] = stack[k]
    BY <2>1, <2>7 DEF StacksOK
  <2>9. failed' = stack'[n].err /\ failed' \in Errors
    BY <2>1, <2>7, <2>8, StackFields
  <2>10. Answered(n, m)
    BY <2>1, <2>3, <2>5, <2>6, <2>7, <2>8, <2>9 DEF Answered
  <2> QED
    BY <2>10 DEF m
<1> QED
  BY <1>4, <1>5, Zenon

-----------------------------------------------------------------------------
(* Every variable keeps its type *)

Threads == {"locked", "prefetch", "idle"}

LEMMA NodeOfCore ==
    ASSUME NEW c \in Cores
    PROVE  NodeOf[c] \in Nodes /\ c \in CoresOf(NodeOf[c])
BY CacheAssumption DEF CoresOf

\* The lock and the thread after the access of core c.
LEMMA AfterAccess ==
    ASSUME Types, NEW n \in Nodes, NEW c \in CoresOf(n), NEW o \in Op, NEW st, Access(n, c, o, st)
    PROVE  /\ lock' \in [Nodes -> [sh : SUBSET Cores, ex : Cores \cup {"free"}]]
           /\ lock' = [lock EXCEPT ![n] = LockAfter(n, c, o)]
           /\ pc' \in [Cores -> Control] /\ pc'[c] \in Threads
           /\ pc'[c] = "locked" <=> o.sig = "LOCK"
           /\ \A d \in Cores \ {c} : pc'[d] = pc[d]
<1>1. c \in Cores /\ lock[n] \in [sh : SUBSET Cores, ex : Cores \cup {"free"}]
  BY DEF CoresOf, Types, ThreadsOK
<1>2. LockAfter(n, c, o) \in [sh : SUBSET Cores, ex : Cores \cup {"free"}]
  BY <1>1, Zenon DEF LockAfter
<1>3. /\ lock' = [lock EXCEPT ![n] = LockAfter(n, c, o)]
      /\ pc' = [pc EXCEPT ![c] = IF o.sig = "LOCK" THEN "locked"
                                 ELSE IF cfg.pf THEN "prefetch" ELSE "idle"]
  BY Zenon DEF Access
<1> QED
  BY <1>1, <1>2, <1>3 DEF Types, ThreadsOK, Control, Threads

LEMMA FirstLevelTypes ==
    ASSUME Types, NEW c \in Cores, NEW o \in Op, o.a \in Addrs, todo' \in [Cores -> Nat],
           FirstLevel(NodeOf[c], c, o)
    PROVE  Types'
<1> DEFINE n == NodeOf[c]
<1>1. n \in Nodes /\ c \in CoresOf(n) /\ StacksOK /\ ThreadsOK /\ ChannelsOK /\ cfg \in Configs
  BY NodeOfCore DEF Types, ThreadsOK
<1>2. op' \in [Cores -> Op] /\ UNCHANGED <<cfg, waiters, plist, net, dir>>
  BY <1>1 DEF FirstLevel, ThreadsOK
<1>3. stack[n] \in Stack(n)
  BY <1>1 DEF StacksOK
<1>4. CASE Permissible(stack[n].l1[c][o.a], o.t)
  <2>1. Access(n, c, o, stack[n]) /\ dram' = DramAfter(dram, o)
    BY <1>4 DEF FirstLevel
  <2>2. Accessed(n, c, o, stack[n])
    BY <1>1, <1>3, <2>1, AccessFacts
  <2>3. dram' \in [Addrs -> BOOLEAN]
    BY <1>1, <2>1 DEF DramAfter, ChannelsOK
  <2> HIDE DEF n
  <2>4. ThreadsOK'
    BY <1>1, <1>2, <2>1, AfterAccess DEF ThreadsOK
  <2> QED
    BY <1>1, <1>2, <2>2, <2>3, <2>4 DEF Types, ChannelsOK, Accessed
<1>5. CASE ~Permissible(stack[n].l1[c][o.a], o.t)
  <2>1. /\ pc' = [pc EXCEPT ![c] = "missed"]
        /\ failed' = IF o.sig = "UNLOCK" THEN "second half missed" ELSE failed
        /\ lock' = IF LockAll(o) THEN [lock EXCEPT ![n] = [sh |-> {}, ex |-> c]] ELSE lock
        /\ UNCHANGED <<stack, toDir, toCache, dram>>
    BY <1>5 DEF FirstLevel
  <2>2. ThreadsOK'
    BY <1>1, <1>2, <2>1 DEF ThreadsOK, Control
  <2>3. failed' \in Errors
    BY <2>1 DEF Types, Errors
  <2> QED
    BY <1>1, <1>2, <2>1, <2>2, <2>3 DEF Types, ChannelsOK, StacksOK
<1> QED
  BY <1>4, <1>5

LEMMA FillTypes ==
    ASSUME Types, NEW n \in Nodes, NEW c \in CoresOf(n), NEW o \in Op, o.a \in Addrs,
           NEW st \in Stack(n), NEW d \in [Addrs -> BOOLEAN], FillAndAccess(n, c, o, st, d)
    PROVE  /\ StacksOK' /\ failed' \in Errors
           /\ toDir' \in [Nodes -> Seq(ToDir)] /\ toCache' \in [Nodes -> Seq(ToCache)]
           /\ dram' \in [Addrs -> BOOLEAN]
           /\ lock' \in [Nodes -> [sh : SUBSET Cores, ex : Cores \cup {"free"}]]
           /\ pc' \in [Cores -> Control]
<1>1. PICK v \in Victims(st.l1[c], o.a, L1Ways) :
           /\ Access(n, c, o, CopyDataFromNextLevel(st, c, o.t, o.a, v))
           /\ dram' = DramAfter(d, o)
  BY DEF FillAndAccess
<1> DEFINE r == CopyDataFromNextLevel(st, c, o.t, o.a, v)
<1>2. v \in Addrs \cup {None}
  BY VictimFacts, CacheAssumption
<1>3. Copied(n, st, c, o.t, o.a, v, r)
  BY <1>2, CopyFacts DEF Types, ThreadsOK
<1> HIDE DEF r
<1>4. r \in Stack(n)
  BY <1>3 DEF Copied
<1>5. Access(n, c, o, r)
  BY <1>1 DEF r
<1>6. Accessed(n, c, o, r)
  BY <1>4, <1>5, AccessFacts DEF Types, ThreadsOK
<1>7. dram' \in [Addrs -> BOOLEAN]
  BY <1>1 DEF DramAfter
<1> QED
  BY <1>4, <1>5, <1>6, <1>7, AfterAccess DEF Accessed

LEMMA InitiateTypes ==
    ASSUME Types, NEW n \in Nodes, NEW c \in CoresOf(n), NEW t, NEW a \in Addrs, NEW st \in Stack(n),
           InitiateDirectoryAccess(n, c, t, a, st), UNCHANGED <<cfg, op, todo, net, dir>>
    PROVE  Types'
<1>0. c \in Cores /\ StacksOK /\ ThreadsOK /\ ChannelsOK
  BY DEF CoresOf, Types
<1>1. Initiated(n, t, a, st)
  BY <1>0, InitiateFacts DEF ThreadsOK
<1>2. /\ waiters' = [waiters EXCEPT ![n][a] = Append(@, [c |-> c, excl |-> IsWriter(t)])]
      /\ lock' = [lock EXCEPT ![n] = Free] /\ pc' = [pc EXCEPT ![c] = "waiting"]
      /\ UNCHANGED <<toCache, dram>>
  BY DEF InitiateDirectoryAccess, IsWriter
<1>3. waiters' \in [Nodes -> [Addrs -> Seq(Waiter)]]
  <2> DEFINE w == [c |-> c, excl |-> IsWriter(t)]
  <2>1. w \in Waiter
    BY <1>0 DEF Waiter, IsWriter
  <2>2. waiters[n][a] \in Seq(Waiter) /\ waiters[n] \in [Addrs -> Seq(Waiter)]
    BY <1>0 DEF ThreadsOK
  <2> HIDE DEF w
  <2>3. Append(waiters[n][a], w) \in Seq(Waiter)
    BY <2>1, <2>2
  <2>4. waiters' = [waiters EXCEPT ![n] = [waiters[n] EXCEPT ![a] = Append(waiters[n][a], w)]]
    BY <1>0, <1>2 DEF ThreadsOK, w
  <2>5. [waiters[n] EXCEPT ![a] = Append(waiters[n][a], w)] \in [Addrs -> Seq(Waiter)]
    BY <2>2, <2>3
  <2> QED
    BY <1>0, <2>4, <2>5 DEF ThreadsOK
<1>4. lock' \in [Nodes -> [sh : SUBSET Cores, ex : Cores \cup {"free"}]] /\ pc' \in [Cores -> Control]
  BY <1>0, <1>2 DEF ThreadsOK, Free, Control
<1>5. ThreadsOK'
  BY <1>0, <1>1, <1>3, <1>4 DEF ThreadsOK, Initiated
<1> QED
  BY <1>0, <1>1, <1>2, <1>5 DEF Types, ChannelsOK, Initiated

\* What the types of the next state need beside the types: an operation under way
\* has a line, and a network thread that is not idle has waiters for its line.
OpsUsed == \A c \in Cores : pc[c] # "idle" => op[c].a \in Addrs
NetUsed == \A n \in Nodes : net[n].pc # "idle" =>
              net[n].a \in Addrs /\ waiters[n][net[n].a] # <<>>

LEMMA WakeTypes ==
    ASSUME Types, NEW n \in Nodes, NEW a \in Addrs, NEW st \in Stack(n), NEW ws \in Seq(Waiter),
           NEW ms \in Seq(ToDir), WakeWaiters(n, a, st, ws, ms),
           toCache' \in [Nodes -> Seq(ToCache)], UNCHANGED <<cfg, plist, op, todo, dirVars>>
    PROVE  Types'
<1>0. StacksOK /\ ThreadsOK /\ ChannelsOK
  BY DEF Types
<1>1. Woken(n, a, st, ws, ms)
  BY <1>0, WakeFacts
<1>2. waiters' \in [Nodes -> [Addrs -> Seq(Waiter)]]
  <2>1. waiters' = [waiters EXCEPT ![n] = [waiters[n] EXCEPT ![a] = ws]]
    BY <1>0 DEF WakeWaiters, ThreadsOK
  <2> QED
    BY <1>0, <2>1 DEF ThreadsOK
<1>3. /\ lock' \in [Nodes -> [sh : SUBSET Cores, ex : Cores \cup {"free"}]]
      /\ net' \in [Nodes -> [pc : {"idle", "handoff", "signalled"}, a : Addrs \cup {None}]]
      /\ pc' \in [Cores -> Control]
  <2>1. CASE \/ ws = <<>>
             \/ ws # <<>> /\ NeedsUpgrade(ws[1], st.llc[a])
    <3>1. /\ lock' = [lock EXCEPT ![n] = Free] /\ pc' = pc
          /\ net' = [net EXCEPT ![n] = [pc |-> "idle", a |-> None]]
      BY <2>1 DEF WakeWaiters
    <3> QED
      BY <1>0, <3>1 DEF ThreadsOK, Free
  <2>2. CASE ws # <<>> /\ ~NeedsUpgrade(ws[1], st.llc[a])
    <3>1. /\ lock' = [lock EXCEPT ![n] = [sh |-> {}, ex |-> ws[1].c]]
          /\ pc' = [pc EXCEPT ![ws[1].c] = "woken"]
          /\ net' = [net EXCEPT ![n] = [pc |-> "handoff", a |-> a]]
      BY <2>2 DEF WakeWaiters
    <3>2. ws[1] \in Waiter
      BY <2>2
    <3>3. ws[1].c \in Cores
      BY <3>2 DEF Waiter
    <3> QED
      BY <1>0, <3>1, <3>3 DEF ThreadsOK, Control
  <2> QED
    BY <2>1, <2>2
<1>4. failed' \in Errors
  BY <1>1, StackFields DEF Woken
<1> QED
  BY <1>0, <1>1, <1>2, <1>3, <1>4 DEF Types, ThreadsOK, ChannelsOK, Woken, dirVars

LEMMA NextLevelTypes ==
    ASSUME Types, OpsUsed, NEW c \in Cores, NextLevel(c)
    PROVE  Types'
<1> DEFINE n == NodeOf[c]
           o == op[c]
           st == MissStack(n, c, o.a)
           others == DOMAIN st.l1 \ {c}
<1>1. n \in Nodes /\ c \in CoresOf(n) /\ StacksOK /\ ThreadsOK /\ ChannelsOK /\ cfg \in Configs
  BY NodeOfCore, Zenon DEF Types, ThreadsOK
<1>2. o \in Op /\ o.a \in Addrs
  BY <1>1, Zenon DEF NextLevel, OpsUsed, ThreadsOK
<1>3. /\ \/ /\ \E r \in Served(o.t, o.a, st, others) : FillAndAccess(n, c, o, r.st, r.dram)
            /\ \E list \in TrainOnHit(n, st, o.t, o.a) : plist' = [plist EXCEPT ![n] = list]
            /\ UNCHANGED waiters
         \/ InitiateDirectoryAccess(n, c, o.t, o.a, Upgrade(st, others, o.a))
      /\ UNCHANGED <<cfg, op, todo, net, dir>>
  BY Zenon DEF NextLevel, MissStack
<1> HIDE DEF n, o
<1>4. Invalidated(n, stack[n], c, o.a, st)
  BY <1>1, <1>2, MissStackFacts
<1> HIDE DEF st
<1>5. st \in Stack(n)
  BY <1>4 DEF Invalidated
<1>6. others \in SUBSET CoresOf(n)
  BY <1>1, <1>5, StackFields
<1> HIDE DEF others
<1>7. ASSUME NEW r \in Served(o.t, o.a, st, others), FillAndAccess(n, c, o, r.st, r.dram),
             NEW list \in TrainOnHit(n, st, o.t, o.a), plist' = [plist EXCEPT ![n] = list],
             UNCHANGED waiters
      PROVE  Types'
  <2>0. plist' \in [Nodes -> Seq(Addrs)]
    <3>1. list \in Seq(Addrs)
      BY <1>1, SuggestionsFacts DEF TrainOnHit, ThreadsOK
    <3> QED
      BY <1>1, <1>7, <3>1 DEF ThreadsOK
  <2>1. r.st \in Stack(n) /\ r.dram \in [Addrs -> BOOLEAN]
    BY <1>1, <1>2, <1>5, <1>6, ServedFacts DEF ChannelsOK
  <2>2. /\ StacksOK' /\ failed' \in Errors
        /\ toDir' \in [Nodes -> Seq(ToDir)] /\ toCache' \in [Nodes -> Seq(ToCache)]
        /\ dram' \in [Addrs -> BOOLEAN]
        /\ lock' \in [Nodes -> [sh : SUBSET Cores, ex : Cores \cup {"free"}]]
        /\ pc' \in [Cores -> Control]
    BY <1>1, <1>2, <1>7, <2>1, FillTypes
  <2> QED
    BY <1>1, <1>3, <1>7, <2>0, <2>2 DEF Types, ThreadsOK, ChannelsOK
<1>8. ASSUME InitiateDirectoryAccess(n, c, o.t, o.a, Upgrade(st, others, o.a))
      PROVE  Types'
  <2>1. Upgraded(n, st, others, o.a, Upgrade(st, others, o.a))
    BY <1>1, <1>2, <1>5, <1>6, UpgradeFacts
  <2>2. Upgrade(st, others, o.a) \in Stack(n)
    BY <2>1 DEF Upgraded
  <2> QED
    BY <1>1, <1>2, <1>3, <1>8, <2>2, InitiateTypes
<1> QED
  BY <1>3, <1>7, <1>8

\* The stack a woken thread finds and makes.
Refilled(n, c, o) ==
    IF Permissible(stack[n].llc[o.a], o.t) THEN ServeHit(stack[n], CoresOf(n) \ {c}, o.t, o.a)
                                           ELSE Upgrade(stack[n], CoresOf(n) \ {c}, o.a)
RefillChecked(n, c, o) ==
    Check(Refilled(n, c, o),
          \/ Permissible(stack[n].llc[o.a], o.t)
          \/ Permissible(Upgrade(stack[n], {}, o.a).llc[o.a], o.t), "refill missed")
RefillStack(n, c, o, r) ==
    /\ r \in Stack(n)
    /\ \E k \in Stack(n) :
          /\ \/ Permissible(stack[n].llc[o.a], o.t) /\ HitServed(n, stack[n], CoresOf(n) \ {c}, o.t, o.a, k)
             \/ ~Permissible(stack[n].llc[o.a], o.t) /\ Upgraded(n, stack[n], CoresOf(n) \ {c}, o.a, k)
          /\ r.l1 = k.l1 /\ r.llc = k.llc
          /\ r.err = "no" <=> k.err = "no" /\ Permissible(k.llc[o.a], o.t)

LEMMA RefillFacts ==
    ASSUME cfg \in Configs, StacksOK, NEW n \in Nodes, NEW c \in CoresOf(n), NEW o, o.a \in Addrs
    PROVE  RefillStack(n, c, o, RefillChecked(n, c, o))
<1> DEFINE st == stack[n]
           C == CoresOf(n) \ {c}
           hit == \/ Permissible(st.llc[o.a], o.t)
                  \/ Permissible(Upgrade(st, {}, o.a).llc[o.a], o.t)
           k == Refilled(n, c, o)
           r == RefillChecked(n, c, o)
<1>1. st \in Stack(n) /\ C \in SUBSET CoresOf(n) /\ {} \in SUBSET CoresOf(n)
  BY DEF StacksOK
<1>2. /\ HitServed(n, st, C, o.t, o.a, ServeHit(st, C, o.t, o.a))
      /\ Upgraded(n, st, C, o.a, Upgrade(st, C, o.a))
      /\ Upgraded(n, st, {}, o.a, Upgrade(st, {}, o.a))
  BY <1>1, ServeHitFacts, UpgradeFacts
<1>3. /\ \/ Permissible(st.llc[o.a], o.t) /\ HitServed(n, st, C, o.t, o.a, k)
         \/ ~Permissible(st.llc[o.a], o.t) /\ Upgraded(n, st, C, o.a, k)
      /\ k \in Stack(n)
  <2>1. CASE Permissible(st.llc[o.a], o.t)
    BY <1>2, <2>1, Zenon DEF Refilled, HitServed
  <2>2. CASE ~Permissible(st.llc[o.a], o.t)
    BY <1>2, <2>2, Zenon DEF Refilled, Upgraded
  <2> QED
    BY <2>1, <2>2
<1>4. r = Check(k, hit, "refill missed")
  BY DEF RefillChecked
<1>5. hit <=> Permissible(k.llc[o.a], o.t)
  <2>1. CASE Permissible(st.llc[o.a], o.t)
    BY <1>3, <2>1, Zenon DEF HitServed, Permissible
  <2>2. CASE ~Permissible(st.llc[o.a], o.t)
    <3>1. Upgraded(n, st, C, o.a, k)
      BY <1>3, <2>2, Zenon
    <3>2. k.llc[o.a].s = Upgrade(st, {}, o.a).llc[o.a].s
      BY <1>2, <3>1, Zenon DEF Upgraded
    <3> QED
      BY <2>2, <3>2 DEF Permissible
  <2> QED
    BY <2>1, <2>2
<1> HIDE DEF hit, k, r
<1>6. /\ r \in Stack(n) /\ r.l1 = k.l1 /\ r.llc = k.llc
      /\ r.err = "no" <=> k.err = "no" /\ hit
  <2>1. CASE hit
    BY <1>3, <1>4, <2>1 DEF Check, Stack
  <2>2. CASE ~hit
    BY <1>3, <1>4, <2>2 DEF Check, Stack, Errors
  <2> QED
    BY <2>1, <2>2
<1> QED
  <2>1. RefillStack(n, c, o, r)
    BY <1>3, <1>5, <1>6 DEF RefillStack
  <2> QED
    BY <2>1 DEF r

LEMMA RefillParts ==
    ASSUME Types, NEW c \in Cores, Refill(c)
    PROVE  LET n == NodeOf[c]
               o == op[c]
           IN /\ pc[c] = "woken" /\ o.t # "P"
              /\ net' = [net EXCEPT ![n].pc = "signalled"]
              /\ FillAndAccess(n, c, o, RefillChecked(n, c, o), dram)
              /\ UNCHANGED <<cfg, op, todo, waiters, plist, dir>>
<1>1. DOMAIN stack[NodeOf[c]].l1 = CoresOf(NodeOf[c])
  BY NodeOfCore, StackFields DEF Types, StacksOK
<1> QED
  BY <1>1 DEF Refill, RefillChecked, Refilled

LEMMA RefillTypes ==
    ASSUME Types, OpsUsed, NEW c \in Cores, Refill(c)
    PROVE  Types'
<1> DEFINE n == NodeOf[c]
           o == op[c]
           st == RefillChecked(n, c, o)
<1>1. n \in Nodes /\ c \in CoresOf(n) /\ StacksOK /\ ThreadsOK /\ ChannelsOK /\ cfg \in Configs
  BY NodeOfCore DEF Types, ThreadsOK
<1>2. /\ pc[c] = "woken" /\ net' = [net EXCEPT ![n].pc = "signalled"]
      /\ FillAndAccess(n, c, o, st, dram)
      /\ UNCHANGED <<cfg, op, todo, waiters, plist, dir>>
  BY RefillParts
<1>3. o \in Op /\ o.a \in Addrs
  BY <1>1, <1>2 DEF OpsUsed, ThreadsOK
<1> HIDE DEF n, o
<1>4. st \in Stack(n)
  BY <1>1, <1>3, RefillFacts DEF RefillStack
<1> HIDE DEF st
<1>5. /\ StacksOK' /\ failed' \in Errors
      /\ toDir' \in [Nodes -> Seq(ToDir)] /\ toCache' \in [Nodes -> Seq(ToCache)]
      /\ dram' \in [Addrs -> BOOLEAN]
      /\ lock' \in [Nodes -> [sh : SUBSET Cores, ex : Cores \cup {"free"}]]
      /\ pc' \in [Cores -> Control]
  BY <1>1, <1>2, <1>3, <1>4, FillTypes DEF ChannelsOK
<1>6. net' \in [Nodes -> [pc : {"idle", "handoff", "signalled"}, a : Addrs \cup {None}]]
  BY <1>1, <1>2 DEF ThreadsOK
<1> QED
  BY <1>1, <1>2, <1>5, <1>6 DEF Types, ThreadsOK, ChannelsOK

LEMMA PrefetchParts ==
    ASSUME Types, NEW c \in Cores, Prefetch(c)
    PROVE  /\ pc[c] = "prefetch" /\ plist' \in [Nodes -> Seq(Addrs)]
           /\ UNCHANGED <<cfg, stack, lock, waiters, net, todo, toDir, toCache, dirVars, failed>>
           /\ \/ pc' = [pc EXCEPT ![c] = "idle"] /\ op' = op
              \/ \E a \in Addrs : /\ pc' = [pc EXCEPT ![c] = "prefetching"]
                                  /\ op' = [op EXCEPT ![c] = [t |-> "P", a |-> a, sig |-> "NONE"]]
<1> DEFINE n == NodeOf[c]
           missing == {i \in DOMAIN plist[n] : ~Permissible(stack[n].llc[plist[n][i]], "R")}
           first == Min(missing)
<1>1. n \in Nodes /\ plist \in [Nodes -> Seq(Addrs)] /\ plist[n] \in Seq(Addrs)
  BY NodeOfCore DEF Types, ThreadsOK
<1>2. CASE pc' = [pc EXCEPT ![c] = "idle"] /\ UNCHANGED <<plist, op>>
  BY <1>1, <1>2 DEF Prefetch
<1>3. CASE missing = {} /\ plist' = [plist EXCEPT ![n] = <<>>]
           /\ pc' = [pc EXCEPT ![c] = "idle"] /\ UNCHANGED op
  <2>1. <<>> \in Seq(Addrs)
    OBVIOUS
  <2>2. plist' \in [Nodes -> Seq(Addrs)]
    BY <1>1, <1>3, <2>1, Zenon
  <2>3. /\ pc[c] = "prefetch"
        /\ UNCHANGED <<cfg, stack, lock, waiters, net, todo, toDir, toCache, dirVars, failed>>
    BY Zenon DEF Prefetch
  <2> QED
    BY <1>3, <2>2, <2>3
<1>4. CASE /\ missing # {}
           /\ plist' = [plist EXCEPT ![n] = SubSeq(@, first + 1, Len(@))]
           /\ op' = [op EXCEPT ![c] = [t |-> "P", a |-> plist[n][first], sig |-> "NONE"]]
           /\ pc' = [pc EXCEPT ![c] = "prefetching"]
  <2>1. missing \in SUBSET Nat /\ missing \subseteq DOMAIN plist[n]
    BY <1>1
  <2> HIDE DEF missing
  <2>2. first \in missing
    BY <1>4, <2>1, MinIsLeast
  <2>3. first \in 1 .. Len(plist[n]) /\ plist[n][first] \in Addrs
    BY <1>1, <2>1, <2>2, SeqElement
  <2> HIDE DEF first
  <2>4. SubSeq(plist[n], first + 1, Len(plist[n])) \in Seq(Addrs)
    BY <1>1, <2>3
  <2>5. plist' \in [Nodes -> Seq(Addrs)]
    BY <1>1, <1>4, <2>4
  <2> QED
    BY <1>4, <2>3, <2>5, Zenon DEF Prefetch
<1> QED
  BY <1>2, <1>3, <1>4, Zenon DEF Prefetch

\* The prefetch of a line: served by the LLC, or queued for the directory.
DoPrefetchEnds(c) ==
    LET n == NodeOf[c]
        a == op[c].a
    IN \E r \in Served("P", a, stack[n], CoresOf(n)) :
          /\ EndPrefetch(n, c, r.st, r.dram) /\ UNCHANGED <<waiters, plist>>

LEMMA DoPrefetchParts ==
    ASSUME Types, NEW c \in Cores, DoPrefetch(c)
    PROVE  LET n == NodeOf[c]
               a == op[c].a
           IN /\ pc[c] = "prefetching" /\ LockFree(n) /\ UNCHANGED <<cfg, op, todo, net, dir>>
              /\ \/ DoPrefetchEnds(c)
                 \/ /\ Served("P", a, stack[n], CoresOf(n)) = {}
                    /\ InitiateDirectoryAccess(n, c, "P", a, Upgrade(stack[n], CoresOf(n), a))
<1>1. DOMAIN stack[NodeOf[c]].l1 = CoresOf(NodeOf[c])
  BY NodeOfCore, StackFields DEF Types, StacksOK
<1> QED
  BY <1>1 DEF DoPrefetch, DoPrefetchEnds

LEMMA DoPrefetchTypes ==
    ASSUME Types, OpsUsed, NEW c \in Cores, DoPrefetch(c)
    PROVE  Types'
<1> DEFINE n == NodeOf[c]
           a == op[c].a
           st == stack[n]
           C == CoresOf(n)
<1>1. /\ n \in Nodes /\ c \in C /\ StacksOK /\ ThreadsOK /\ ChannelsOK /\ cfg \in Configs
      /\ st \in Stack(n) /\ C \in SUBSET CoresOf(n)
  BY NodeOfCore DEF Types, ThreadsOK, StacksOK
<1>2. pc[c] = "prefetching" /\ UNCHANGED <<cfg, op, todo, net, dir>>
  BY DoPrefetchParts
<1>3. a \in Addrs
  BY <1>1, <1>2 DEF OpsUsed
<1>4. CASE DoPrefetchEnds(c)
  <2>1. PICK r \in Served("P", a, st, C) : /\ EndPrefetch(n, c, r.st, r.dram)
                                           /\ UNCHANGED <<waiters, plist>>
    BY <1>4 DEF DoPrefetchEnds
  <2> HIDE DEF n, a
  <2>2. r.st \in Stack(n) /\ r.dram \in [Addrs -> BOOLEAN]
    BY <1>1, <1>3, <2>1, ServedFacts DEF ChannelsOK
  <2> HIDE DEF st
  <2>3. /\ stack' = [stack EXCEPT ![n] = r.st] /\ failed' = r.st.err
        /\ lock' = [lock EXCEPT ![n] = Free] /\ pc' = [pc EXCEPT ![c] = "idle"]
        /\ dram' = r.dram /\ UNCHANGED <<toDir, toCache>>
    BY <2>1 DEF EndPrefetch
  <2>4. StacksOK' /\ failed' \in Errors
    BY <1>1, <2>2, <2>3, StackFields DEF StacksOK
  <2>5. ThreadsOK'
    BY <1>1, <1>2, <2>1, <2>3 DEF ThreadsOK, Control, Free
  <2> QED
    BY <1>1, <1>2, <2>2, <2>3, <2>4, <2>5 DEF Types, ChannelsOK
<1>5. CASE InitiateDirectoryAccess(n, c, "P", a, Upgrade(st, C, a))
  <2> HIDE DEF n, a
  <2>1. Upgraded(n, st, C, a, Upgrade(st, C, a))
    BY <1>1, <1>3, UpgradeFacts
  <2>2. Upgrade(st, C, a) \in Stack(n)
    BY <2>1 DEF Upgraded
  <2> HIDE DEF st
  <2> QED
    BY <1>1, <1>2, <1>3, <1>5, <2>2, InitiateTypes
<1> QED
  BY <1>4, <1>5, DoPrefetchParts

\* The end of a prefetch the network thread woke.
PrefetchRefilled(c, r) ==
    LET n == NodeOf[c]
        a == op[c].a
    IN \E k \in Stack(n) :
          /\ k.l1 = stack[n].l1 /\ k.llc = stack[n].llc
          /\ k.err = "no" <=> stack[n].err = "no" /\ Permissible(stack[n].llc[a], "P")
          /\ HitServed(n, k, CoresOf(n), "P", a, r)

LEMMA RefillPrefetchParts ==
    ASSUME Types, OpsUsed, NEW c \in Cores, RefillPrefetch(c)
    PROVE  LET n == NodeOf[c] IN
           /\ pc[c] = "woken" /\ op[c].t = "P" /\ net' = [net EXCEPT ![n].pc = "signalled"]
           /\ UNCHANGED <<cfg, op, todo, waiters, plist, dir>>
           /\ \E r \in Stack(n) : EndPrefetch(n, c, r, dram) /\ PrefetchRefilled(c, r)
<1> DEFINE n == NodeOf[c]
           a == op[c].a
           ok == Permissible(stack[n].llc[a], "P")
           k == Check(stack[n], ok, "line not there after prefetch")
           r == ServeHit(k, DOMAIN k.l1, "P", a)
<1>1. /\ n \in Nodes /\ StacksOK /\ ThreadsOK /\ cfg \in Configs /\ stack[n] \in Stack(n)
  BY NodeOfCore DEF Types, ThreadsOK, StacksOK
<1>2. /\ k \in Stack(n) /\ k.l1 = stack[n].l1 /\ k.llc = stack[n].llc
      /\ k.err = "no" <=> stack[n].err = "no" /\ ok
  <2>1. CASE ok
    BY <1>1, <2>1 DEF Check, Stack
  <2>2. CASE ~ok
    BY <1>1, <2>2 DEF Check, Stack, Errors
  <2> QED
    BY <2>1, <2>2
<1>3. DOMAIN stack[n].l1 = CoresOf(n) /\ DOMAIN k.l1 = CoresOf(n)
  BY <1>1, <1>2, StackFields
<1>4. pc[c] = "woken"
  BY DEF RefillPrefetch
<1>5. a \in Addrs
  BY <1>4, Zenon DEF OpsUsed
<1>6. /\ op[c].t = "P" /\ net' = [net EXCEPT ![n].pc = "signalled"]
      /\ UNCHANGED <<cfg, op, todo, waiters, plist, dir>>
      /\ EndPrefetch(n, c, r, dram)
  <2>1. DOMAIN k.l1 = DOMAIN stack[n].l1
    BY <1>3
  <2> QED
    BY <2>1, Zenon DEF RefillPrefetch
<1> HIDE DEF k
<1>7. HitServed(n, k, CoresOf(n), "P", a, r)
  BY <1>1, <1>2, <1>3, <1>5, ServeHitFacts
<1> HIDE DEF r
<1>8. r \in Stack(n)
  BY <1>7 DEF HitServed
<1>9. PrefetchRefilled(c, r)
  BY <1>2, <1>7 DEF PrefetchRefilled
<1> QED
  BY <1>4, <1>6, <1>8, <1>9

LEMMA RefillPrefetchTypes ==
    ASSUME Types, OpsUsed, NEW c \in Cores, RefillPrefetch(c)
    PROVE  Types'
<1> DEFINE n == NodeOf[c]
<1>1. n \in Nodes /\ StacksOK /\ ThreadsOK /\ ChannelsOK
  BY NodeOfCore DEF Types
<1>2. PICK r \in Stack(n) : EndPrefetch(n, c, r, dram)
  BY RefillPrefetchParts
<1>3. net' = [net EXCEPT ![n].pc = "signalled"] /\ UNCHANGED <<cfg, op, todo, waiters, plist, dir>>
  BY RefillPrefetchParts
<1> HIDE DEF n
<1>4. /\ stack' = [stack EXCEPT ![n] = r] /\ failed' = r.err
      /\ lock' = [lock EXCEPT ![n] = Free] /\ pc' = [pc EXCEPT ![c] = "idle"]
      /\ dram' = dram /\ UNCHANGED <<toDir, toCache>>
  BY <1>2 DEF EndPrefetch
<1>5. StacksOK' /\ failed' \in Errors
  BY <1>1, <1>2, <1>4, StackFields DEF StacksOK
<1>6. ThreadsOK'
  BY <1>1, <1>3, <1>4 DEF ThreadsOK, Control, Free
<1> QED
  BY <1>1, <1>3, <1>4, <1>5, <1>6 DEF Types, ChannelsOK

LEMMA HandleRepTypes ==
    ASSUME Types, NEW n \in Nodes, HandleRep(n)
    PROVE  Types'
<1> DEFINE m == Head(toCache[n])
<1>1. StacksOK /\ ThreadsOK /\ ChannelsOK /\ cfg \in Configs
  BY DEF Types, ThreadsOK
<1>2. /\ toCache[n] # <<>> /\ toCache' = [toCache EXCEPT ![n] = Tail(@)]
      /\ UNCHANGED <<cfg, plist, op, todo, dirVars>>
  BY DEF HandleRep
<1>3. m.a \in Addrs /\ Tail(toCache[n]) \in Seq(ToCache)
  BY <1>1, <1>2, HeadOfChannel
<1>4. HandledRep(n, m)
  BY <1>1, HandleRepFacts
<1> HIDE DEF m
<1>5. PICK k \in Stack(n), ms \in Seq(ToDir) : WakeWaiters(n, m.a, k, waiters[n][m.a], ms)
  BY <1>4 DEF HandledRep
<1>6. waiters[n][m.a] \in Seq(Waiter) /\ toCache' \in [Nodes -> Seq(ToCache)]
  BY <1>1, <1>2, <1>3 DEF ThreadsOK, ChannelsOK
<1> QED
  BY <1>2, <1>3, <1>5, <1>6, WakeTypes

LEMMA ResumeTypes ==
    ASSUME Types, NetUsed, NEW n \in Nodes, ResumeWaiters(n)
    PROVE  Types'
<1> DEFINE a == net[n].a
           ws == Tail(waiters[n][a])
<1>1. /\ net[n].pc = "signalled" /\ WakeWaiters(n, a, stack[n], ws, <<>>)
      /\ UNCHANGED <<cfg, plist, op, todo, toCache, dirVars>>
  BY DEF ResumeWaiters
<1>2. a \in Addrs /\ waiters[n][a] # <<>>
  BY <1>1 DEF NetUsed
<1>3. waiters[n][a] \in Seq(Waiter) /\ toCache' \in [Nodes -> Seq(ToCache)] /\ stack[n] \in Stack(n)
  BY <1>1, <1>2 DEF Types, ThreadsOK, ChannelsOK, StacksOK
<1>4. ws \in Seq(Waiter) /\ <<>> \in Seq(ToDir)
  BY <1>2, <1>3
<1> HIDE DEF a, ws
<1> QED
  BY <1>1, <1>2, <1>3, <1>4, WakeTypes

LEMMA HandleReqTypes ==
    ASSUME Types, NEW n \in Nodes, failed = stack[n].err, HandleReq(n)
    PROVE  Types'
<1>1. StacksOK /\ ThreadsOK /\ ChannelsOK /\ cfg \in Configs /\ failed \in Errors
  BY DEF Types, ThreadsOK
<1>2. Answered(n, Head(toCache[n]))
  BY <1>1, HandleReqFacts
<1>3. /\ toCache[n] # <<>> /\ toCache' = [toCache EXCEPT ![n] = Tail(@)]
      /\ UNCHANGED <<cfg, lock, waiters, plist, net, userVars, dirVars>>
  BY Zenon DEF HandleReq
<1>4. Tail(toCache[n]) \in Seq(ToCache)
  BY <1>1, <1>3, HeadOfChannel
<1>5. toCache' \in [Nodes -> Seq(ToCache)]
  BY <1>1, <1>3, <1>4 DEF ChannelsOK
<1> QED
  BY <1>1, <1>2, <1>3, <1>5 DEF Types, ThreadsOK, ChannelsOK, Answered, userVars, dirVars

\* A message the directory takes: its entry and DRAM.
LEMMA DirReceiveTypes ==
    ASSUME Types, NEW n \in Nodes, DirReceive(n)
    PROVE  Types'
<1> DEFINE m == Head(toDir[n])
           e == dir[m.a]
           gone == [e EXCEPT !.owner = IF @ = n THEN None ELSE @,
                             !.sharers = @ \ {n}, !.asked = @ \ {n}]
           queued == [e EXCEPT !.q = Append(@, [t |-> m.t, n |-> n])]
           new == CASE m.t \in Requests -> queued
                    [] m.t = "WB_REP" -> [gone EXCEPT !.sharers = @ \cup {n}]
                    [] OTHER -> gone
<1>1. /\ toDir[n] # <<>> /\ toDir' = [toDir EXCEPT ![n] = Tail(@)]
      /\ dir' = [dir EXCEPT ![m.a] = new]
      /\ dram' = IF m.d THEN [dram EXCEPT ![m.a] = m.f] ELSE dram
      /\ UNCHANGED <<cfg, cacheVars, userVars, toCache, failed>>
  BY Zenon DEF DirReceive
<1>2. toDir[n] \in Seq(ToDir)
  BY DEF Types, ChannelsOK
<1>3. m \in ToDir /\ Tail(toDir[n]) \in Seq(ToDir)
  <2> DEFINE q == toDir[n]
  <2>1. q \in Seq(ToDir) /\ q # <<>>
    BY <1>1, <1>2, Zenon
  <2> HIDE DEF q
  <2>2. Head(q) \in ToDir /\ Tail(q) \in Seq(ToDir)
    BY <2>1
  <2> QED
    BY <2>2, Zenon DEF q
<1> HIDE DEF m
<1>4. m.a \in Addrs /\ m.f \in BOOLEAN
  BY <1>3 DEF ToDir, Message
<1>5. e \in Entry
  BY <1>4 DEF Types, ChannelsOK
<1> HIDE DEF e
<1>6. e.q \in Seq([t : Requests, n : Nodes])
  BY <1>5 DEF Entry
<1>7. m.t \in Requests => queued \in Entry
  <2> SUFFICES ASSUME m.t \in Requests PROVE queued \in Entry
    OBVIOUS
  <2> DEFINE q == Append(e.q, [t |-> m.t, n |-> n])
  <2>1. q \in Seq([t : Requests, n : Nodes])
    BY <1>6
  <2>2. queued = [e EXCEPT !.q = q]
    OBVIOUS
  <2> HIDE DEF q, queued
  <2> QED
    BY <1>5, <2>1, <2>2 DEF Entry
<1>8. gone \in Entry /\ [gone EXCEPT !.sharers = @ \cup {n}] \in Entry
  BY <1>5 DEF Entry
<1> HIDE DEF queued, gone
<1>9. new \in Entry
  BY <1>7, <1>8 DEF Requests
<1> HIDE DEF new
<1>10. toDir' \in [Nodes -> Seq(ToDir)]
  BY <1>1, <1>3 DEF Types, ChannelsOK
<1>11. dir' \in [Addrs -> Entry] /\ dram' \in [Addrs -> BOOLEAN]
  BY <1>1, <1>4, <1>9 DEF Types, ChannelsOK
<1> QED
  BY <1>1, <1>10, <1>11, Zenon DEF Types, StacksOK, ThreadsOK, ChannelsOK, cacheVars, userVars

LEMMA FirstRequest ==
    ASSUME ChannelsOK, NEW a \in Addrs, dir[a].q # <<>>
    PROVE  /\ dir[a] \in Entry /\ Head(dir[a].q).t \in Requests /\ Head(dir[a].q).n \in Nodes
           /\ Tail(dir[a].q) \in Seq([t : Requests, n : Nodes])
           /\ Targets(dir[a], Head(dir[a].q)) \subseteq Nodes
<1> DEFINE e == dir[a]
           r == Head(e.q)
<1>1. e \in Entry
  BY DEF ChannelsOK
<1>2. e.q \in Seq([t : Requests, n : Nodes]) /\ e.sharers \subseteq Nodes /\ e.owner \in Nodes \cup {None}
  BY <1>1 DEF Entry
<1>3. r \in [t : Requests, n : Nodes] /\ Tail(e.q) \in Seq([t : Requests, n : Nodes])
  <2> DEFINE R == [t : Requests, n : Nodes]
             q == e.q
  <2>1. q \in Seq(R) /\ q # <<>>
    BY <1>2
  <2> HIDE DEF R, q
  <2>2. Head(q) \in R /\ Tail(q) \in Seq(R)
    BY <2>1
  <2> QED
    BY <2>2 DEF R, q
<1>4. Owner(e) \subseteq Nodes
  BY <1>2 DEF Owner
<1> HIDE DEF e, r
<1>5. r.t \in Requests /\ r.n \in Nodes
  BY <1>3
<1>6. Targets(e, r) \subseteq Nodes
  BY <1>2, <1>4, <1>5 DEF Targets, Requests
<1> QED
  BY <1>1, <1>3, <1>5, <1>6 DEF e, r

LEMMA DirAskTypes ==
    ASSUME Types, NEW a \in Addrs, DirAsk(a)
    PROVE  Types'
<1> DEFINE e == dir[a]
           r == Head(e.q)
           ask == Targets(e, r) \ e.asked
           kind(n) == IF n # e.owner THEN "INV_REQ"
                      ELSE IF r.t = "SH_REQ" THEN "WB_REQ" ELSE "FLUSH_REQ"
           new == [e EXCEPT !.asked = @ \cup ask]
<1>1. /\ e.q # <<>> /\ dir' = [dir EXCEPT ![a].asked = @ \cup ask]
      /\ toCache' = [n \in Nodes |-> IF n \in ask
                       THEN Append(toCache[n], Msg(kind(n), a, FALSE, FALSE)) ELSE toCache[n]]
      /\ UNCHANGED <<cfg, cacheVars, userVars, toDir, dram, failed>>
  BY DEF DirAsk
<1>2. ChannelsOK
  BY DEF Types
<1>3. e \in Entry /\ ask \subseteq Nodes
  BY <1>1, <1>2, FirstRequest
<1>4. dir' = [dir EXCEPT ![a] = new]
  BY <1>1, <1>2 DEF ChannelsOK
<1> HIDE DEF e, ask
<1>5. new \in Entry
  BY <1>3 DEF Entry
<1> HIDE DEF new
<1>6. dir' \in [Addrs -> Entry]
  BY <1>2, <1>4, <1>5 DEF ChannelsOK
<1>7. \A n \in Nodes : Msg(kind(n), a, FALSE, FALSE) \in ToCache
  BY MsgFacts DEF Ask
<1> HIDE DEF kind
<1> DEFINE sent(n) == Msg(kind(n), a, FALSE, FALSE)
<1>7a. toCache' = [n \in Nodes |-> IF n \in ask THEN Append(toCache[n], sent(n)) ELSE toCache[n]]
       /\ \A n \in Nodes : sent(n) \in ToCache
  BY <1>1, <1>7
<1> HIDE DEF sent
<1>8. \A n \in Nodes : Append(toCache[n], sent(n)) \in Seq(ToCache)
  <2> TAKE n \in Nodes
  <2>1. toCache[n] \in Seq(ToCache) /\ sent(n) \in ToCache
    BY <1>2, <1>7a DEF ChannelsOK
  <2> QED
    BY <2>1
<1>9. toCache' \in [Nodes -> Seq(ToCache)]
  BY <1>2, <1>7a, <1>8, Zenon DEF ChannelsOK
<1> QED
  BY <1>1, <1>2, <1>6, <1>9 DEF Types, StacksOK, ThreadsOK, ChannelsOK, cacheVars, userVars

LEMMA DirReplyParts ==
    ASSUME ChannelsOK, NEW a \in Addrs, DirReply(a)
    PROVE  LET e == dir[a]
               r == Head(e.q)
               own == [e EXCEPT !.owner = r.n, !.sharers = {}, !.q = Tail(@), !.asked = {}]
               share == [e EXCEPT !.sharers = @ \cup {r.n}, !.q = Tail(@), !.asked = {}]
           IN /\ e.q # <<>> /\ Targets(e, r) = {}
              /\ UNCHANGED <<cfg, cacheVars, userVars, toDir, dram, failed>>
              /\ \E m \in ToCache :
                    /\ toCache' = [toCache EXCEPT ![r.n] = Append(@, m)] /\ m.a = a
                    /\ \/ r.t = "SH_REQ" /\ m.t = "SH_REP" /\ dir' = [dir EXCEPT ![a] = share]
                       \/ r.t = "SH_REQ" /\ m.t = "EX_REP" /\ e.sharers = {}
                             /\ dir' = [dir EXCEPT ![a] = own]
                       \/ r.t = "EX_REQ" /\ m.t = "EX_REP" /\ dir' = [dir EXCEPT ![a] = own]
                       \/ r.t = "UPGRADE_REQ" /\ m.t = "UPGRADE_REP" /\ (m.d <=> r.n \notin e.sharers)
                             /\ dir' = [dir EXCEPT ![a] = own]
<1> DEFINE e == dir[a]
           r == Head(e.q)
           own == [e EXCEPT !.owner = r.n, !.sharers = {}, !.q = Tail(@), !.asked = {}]
           share == [e EXCEPT !.sharers = @ \cup {r.n}, !.q = Tail(@), !.asked = {}]
           m(t, d) == Msg(t, a, d /\ dram[a], d)
<1>0. /\ e.q # <<>> /\ Targets(e, r) = {}
      /\ UNCHANGED <<cfg, cacheVars, userVars, toDir, dram, failed>>
  BY Zenon DEF DirReply
<1>1. ASSUME NEW t \in Rep, NEW d \in BOOLEAN
      PROVE  m(t, d) \in ToCache /\ m(t, d).t = t /\ m(t, d).a = a /\ m(t, d).d = d
  BY ZenonT(30) DEF Msg, ToCache, Message, MsgTypes, Rep
<1>2. CASE r.t = "SH_REQ" /\ dir' = [dir EXCEPT ![a] = share]
           /\ toCache' = [toCache EXCEPT ![r.n] = Append(@, m("SH_REP", TRUE))]
  <2>1. "SH_REP" \in Rep /\ TRUE \in BOOLEAN
    BY DEF Rep
  <2>2. m("SH_REP", TRUE) \in ToCache /\ m("SH_REP", TRUE).t = "SH_REP" /\ m("SH_REP", TRUE).a = a
    BY <1>1, <2>1, Zenon
  <2> HIDE DEF m
  <2> QED
    BY <1>0, <1>2, <2>2
<1>3. CASE /\ (r.t = "SH_REQ" /\ e.sharers = {}) \/ r.t = "EX_REQ"
           /\ dir' = [dir EXCEPT ![a] = own]
           /\ toCache' = [toCache EXCEPT ![r.n] = Append(@, m("EX_REP", TRUE))]
  <2>1. "EX_REP" \in Rep /\ TRUE \in BOOLEAN
    BY DEF Rep
  <2>2. m("EX_REP", TRUE) \in ToCache /\ m("EX_REP", TRUE).t = "EX_REP" /\ m("EX_REP", TRUE).a = a
    BY <1>1, <2>1
  <2> HIDE DEF m
  <2> QED
    BY <1>0, <1>3, <2>2, Zenon
<1>4. CASE r.t = "UPGRADE_REQ" /\ dir' = [dir EXCEPT ![a] = own]
           /\ toCache' = [toCache EXCEPT ![r.n] = Append(@, m("UPGRADE_REP", r.n \notin e.sharers))]
  <2> DEFINE d == r.n \notin e.sharers
             x == m("UPGRADE_REP", d)
  <2>1. "UPGRADE_REP" \in Rep /\ d \in BOOLEAN
    BY DEF Rep
  <2>2. x \in ToCache /\ x.t = "UPGRADE_REP" /\ x.a = a /\ (x.d <=> d)
    BY <1>1, <2>1
  <2>3. toCache' = [toCache EXCEPT ![r.n] = Append(@, x)]
    BY <1>4
  <2> HIDE DEF m, x
  <2> QED
    BY <1>0, <1>4, <2>2, <2>3, Zenon
<1> QED
  BY <1>0, <1>2, <1>3, <1>4, Zenon DEF DirReply

LEMMA DirReplyTypes ==
    ASSUME Types, NEW a \in Addrs, DirReply(a)
    PROVE  Types'
<1> DEFINE e == dir[a]
           r == Head(e.q)
           own == [e EXCEPT !.owner = r.n, !.sharers = {}, !.q = Tail(@), !.asked = {}]
           share == [e EXCEPT !.sharers = @ \cup {r.n}, !.q = Tail(@), !.asked = {}]
<1>1. ChannelsOK
  BY DEF Types
<1>2. e.q # <<>> /\ UNCHANGED <<cfg, cacheVars, userVars, toDir, dram, failed>>
  BY <1>1, DirReplyParts, Zenon
<1> HIDE DEF own, share
<1>3. PICK m \in ToCache : toCache' = [toCache EXCEPT ![r.n] = Append(@, m)]
                           /\ (dir' = [dir EXCEPT ![a] = share] \/ dir' = [dir EXCEPT ![a] = own])
  <2>1. \E m \in ToCache :
                    /\ toCache' = [toCache EXCEPT ![r.n] = Append(@, m)] /\ m.a = a
                    /\ \/ r.t = "SH_REQ" /\ m.t = "SH_REP" /\ dir' = [dir EXCEPT ![a] = share]
                       \/ r.t = "SH_REQ" /\ m.t = "EX_REP" /\ e.sharers = {}
                             /\ dir' = [dir EXCEPT ![a] = own]
                       \/ r.t = "EX_REQ" /\ m.t = "EX_REP" /\ dir' = [dir EXCEPT ![a] = own]
                       \/ r.t = "UPGRADE_REQ" /\ m.t = "UPGRADE_REP" /\ (m.d <=> r.n \notin e.sharers)
                             /\ dir' = [dir EXCEPT ![a] = own]
    BY <1>1, DirReplyParts, Zenon DEF own, share
  <2> QED
    BY <2>1, Zenon
<1>4. e \in Entry /\ r.n \in Nodes /\ Tail(e.q) \in Seq([t : Requests, n : Nodes])
  BY <1>1, <1>2, FirstRequest
<1> HIDE DEF e, r
<1>5. own \in Entry /\ share \in Entry
  <2> DEFINE q == Tail(e.q)
  <2>1. q \in Seq([t : Requests, n : Nodes])
    BY <1>4
  <2>2. /\ own = [e EXCEPT !.owner = r.n, !.sharers = {}, !.q = q, !.asked = {}]
        /\ share = [e EXCEPT !.sharers = @ \cup {r.n}, !.q = q, !.asked = {}]
    BY DEF own, share
  <2> HIDE DEF q
  <2> QED
    BY <1>4, <2>1, <2>2 DEF Entry
<1>6. dir' \in [Addrs -> Entry]
  BY <1>1, <1>3, <1>5 DEF ChannelsOK
<1>7. Append(toCache[r.n], m) \in Seq(ToCache)
  BY <1>1, <1>4 DEF ChannelsOK
<1>8. toCache' \in [Nodes -> Seq(ToCache)]
  BY <1>1, <1>3, <1>4, <1>7 DEF ChannelsOK
<1> QED
  BY <1>1, <1>2, <1>6, <1>8, Zenon DEF Types, StacksOK, ThreadsOK, ChannelsOK, cacheVars, userVars

-----------------------------------------------------------------------------
(* The threads of a node, its set lock and its waiters *)

\* Entry i of the waiters of line a still waits: it is not the one that was
\* served and that the network thread has yet to drop.
Live(n, a, i) == ~(net[n].pc = "signalled" /\ net[n].a = a /\ i = 1)

LockTypes ==
    /\ \A n \in Nodes : /\ lock[n].sh \subseteq CoresOf(n)
                        /\ lock[n].ex \in CoresOf(n) \cup {"free"}
                        /\ lock[n].sh = {} \/ lock[n].ex = "free"
    /\ \A n \in Nodes, a \in Addrs : \A i \in DOMAIN waiters[n][a] :
          waiters[n][a][i].c \in CoresOf(n)
    /\ \A c \in Cores : todo[c] <= cfg.ops[c]
LockInv ==
    /\ \A n \in Nodes, c \in Cores :
          /\ c \in lock[n].sh => pc[c] = "locked"
          /\ lock[n].ex = c => pc[c] \in {"woken", "locked", "missed"}
    /\ \A n \in Nodes : \A c \in CoresOf(n) : pc[c] = "locked" => c \in lock[n].sh \/ lock[n].ex = c
OpInv ==
    \A c \in Cores : /\ pc[c] # "idle" => op[c].a \in Addrs
                     /\ pc[c] = "prefetching" => op[c].t = "P"
                     /\ pc[c] = "missed" => op[c].t # "P"
NetInv ==
    /\ \A n \in Nodes :
          /\ net[n].pc = "idle" <=> net[n].a = None
          /\ net[n].pc # "idle" => waiters[n][net[n].a] # <<>>
          /\ net[n].pc = "handoff" => pc[waiters[n][net[n].a][1].c] = "woken"
    /\ \A n \in Nodes : \A c \in CoresOf(n) : pc[c] = "woken" =>
          /\ lock[n].ex = c /\ net[n].pc = "handoff" /\ waiters[n][net[n].a][1].c = c
WaiterInv ==
    \A n \in Nodes, a \in Addrs :
        /\ \A i \in DOMAIN waiters[n][a] : Live(n, a, i) =>
              LET c == waiters[n][a][i].c IN
              /\ op[c].a = a /\ (waiters[n][a][i].excl <=> IsWriter(op[c].t))
              /\ pc[c] \in {"waiting", "woken"}
              /\ pc[c] = "woken" => net[n].a = a /\ i = 1
        /\ \A i, j \in DOMAIN waiters[n][a] :
              Live(n, a, i) /\ Live(n, a, j) /\ waiters[n][a][i].c = waiters[n][a][j].c => i = j
ThreadInv == LockInv /\ OpInv /\ NetInv /\ WaiterInv

\* A step of core c that leaves the lock of its node as L and goes on as p.
UserLock(n, c, L, p) ==
    /\ lock' = [lock EXCEPT ![n] = L] /\ pc' = [pc EXCEPT ![c] = p]
    /\ p \in {"locked", "prefetch", "idle", "missed", "waiting"}
    /\ L \in [sh : SUBSET Cores, ex : Cores \cup {"free"}]
    /\ L.sh \subseteq CoresOf(n) /\ L.ex \in {c, "free"} /\ (L.sh = {} \/ L.ex = "free")
    /\ L.sh \ {c} = lock[n].sh \ {c}
    /\ c \in L.sh => p = "locked"
    /\ L.ex = c => p \in {"locked", "missed"}
    /\ p = "locked" => c \in L.sh \/ L.ex = c
    /\ lock[n].ex \in {c, "free"}

LEMMA UserLockInv ==
    ASSUME Types, LockTypes, LockInv, NEW n \in Nodes, NEW c \in CoresOf(n), NEW L, NEW p,
           UserLock(n, c, L, p)
    PROVE  LockInv'
<1>1. /\ lock \in [Nodes -> [sh : SUBSET Cores, ex : Cores \cup {"free"}]]
      /\ pc \in [Cores -> Control] /\ c \in Cores
  BY DEF Types, ThreadsOK, CoresOf
<1>2. ASSUME NEW m \in Nodes, NEW d \in Cores
      PROVE  /\ d \in lock'[m].sh => pc'[d] = "locked"
             /\ lock'[m].ex = d => pc'[d] \in {"woken", "locked", "missed"}
  <2>1. m # n => (d \in CoresOf(m) => d # c)
    BY DEF CoresOf
  <2>2. m # n => c \notin lock[m].sh /\ lock[m].ex # c
    BY CacheAssumption DEF LockTypes, CoresOf
  <2> QED
    BY <1>1, <2>1, <2>2, CacheAssumption DEF UserLock, LockInv
<1>3. ASSUME NEW m \in Nodes, NEW d \in CoresOf(m), pc'[d] = "locked"
      PROVE  d \in lock'[m].sh \/ lock'[m].ex = d
  <2>1. d \in Cores /\ (m # n => d # c)
    BY DEF CoresOf
  <2> QED
    BY <1>1, <1>3, <2>1, CacheAssumption DEF UserLock, LockInv
<1> QED
  BY <1>2, <1>3 DEF LockInv

\* The network thread while core c of its node holds or may take the lock.
LEMMA UserNetInv ==
    ASSUME Types, LockTypes, NetInv, NEW n \in Nodes, NEW c \in CoresOf(n), NEW L, NEW p,
           UserLock(n, c, L, p), pc[c] # "waiting",
           IF pc[c] = "woken" THEN net' = [net EXCEPT ![n].pc = "signalled"] ELSE net' = net,
           NEW a \in Addrs, NEW w \in Waiter,
           waiters' = waiters \/ waiters' = [waiters EXCEPT ![n][a] = Append(@, w)]
    PROVE  NetInv'
<1>1. /\ lock \in [Nodes -> [sh : SUBSET Cores, ex : Cores \cup {"free"}]]
      /\ pc \in [Cores -> Control] /\ c \in Cores
      /\ net \in [Nodes -> [pc : {"idle", "handoff", "signalled"}, a : Addrs \cup {None}]]
      /\ waiters \in [Nodes -> [Addrs -> Seq(Waiter)]] /\ "free" \notin Cores /\ None \notin Addrs
  BY CacheAssumption DEF Types, ThreadsOK, CoresOf
<1>2. ASSUME NEW m \in Nodes, NEW x \in Addrs, waiters[m][x] # <<>>
      PROVE  waiters'[m][x] # <<>> /\ waiters'[m][x][1] = waiters[m][x][1]
  <2> DEFINE q == waiters[m][x]
  <2>1. q \in Seq(Waiter) /\ q # <<>>
    BY <1>1, <1>2
  <2>2. waiters'[m][x] = q \/ waiters'[m][x] = Append(q, w)
    <3>1. CASE waiters' = waiters
      BY <3>1
    <3>2. CASE waiters' = [waiters EXCEPT ![n][a] = Append(@, w)]
      <4>1. CASE m = n /\ x = a
        BY <1>1, <3>2, <4>1
      <4>2. CASE ~(m = n /\ x = a)
        BY <1>1, <3>2, <4>2
      <4> QED
        BY <4>1, <4>2
    <3> QED
      BY <3>1, <3>2
  <2> HIDE DEF q
  <2>3. Append(q, w) # <<>> /\ Append(q, w)[1] = q[1]
    BY <2>1
  <2> QED
    BY <2>2, <2>1, <2>3 DEF q
<1>3. ASSUME NEW m \in Nodes
      PROVE  /\ net'[m].a = net[m].a
             /\ net'[m].pc = IF m = n /\ pc[c] = "woken" THEN "signalled" ELSE net[m].pc
  BY <1>1
<1>4. ASSUME NEW m \in Nodes, NEW d \in CoresOf(m), pc'[d] = "woken"
      PROVE  d # c /\ m # n /\ pc[d] = "woken" /\ lock'[m] = lock[m] /\ net'[m] = net[m]
  <2>1. d \in Cores /\ d # c /\ pc[d] = "woken"
    BY <1>1, <1>4 DEF UserLock, CoresOf
  <2>2. lock[m].ex = d
    BY <2>1 DEF NetInv
  <2>3. m # n
    BY <1>1, <2>1, <2>2 DEF UserLock
  <2> QED
    BY <1>1, <2>1, <2>3 DEF UserLock
<1>5. ASSUME NEW m \in Nodes, net[m].pc # "idle"
      PROVE  net[m].a \in Addrs /\ waiters[m][net[m].a] # <<>>
  BY <1>1, <1>5 DEF NetInv
<1>6. ASSUME NEW m \in Nodes
      PROVE  /\ net'[m].pc = "idle" <=> net'[m].a = None
             /\ net'[m].pc # "idle" => waiters'[m][net'[m].a] # <<>>
             /\ net'[m].pc = "handoff" => pc'[waiters'[m][net'[m].a][1].c] = "woken"
  <2>1. net'[m].pc = "idle" <=> net'[m].a = None
    <3>1. m = n /\ pc[c] = "woken" => net[m].pc = "handoff"
      BY DEF NetInv
    <3> QED
      BY <1>3, <3>1 DEF NetInv
  <2>2. net'[m].pc # "idle" => net[m].pc # "idle"
    BY <1>3, <2>1 DEF NetInv
  <2>3. ASSUME net'[m].pc # "idle"
        PROVE  waiters'[m][net'[m].a] # <<>> /\ waiters'[m][net'[m].a][1] = waiters[m][net[m].a][1]
    BY <1>2, <1>3, <1>5, <2>2, <2>3
  <2>4. ASSUME net'[m].pc = "handoff"
        PROVE  pc'[waiters'[m][net'[m].a][1].c] = "woken"
    <3> DEFINE d == waiters[m][net[m].a][1].c
    <3>1. net[m].pc = "handoff" /\ ~(m = n /\ pc[c] = "woken")
      BY <1>3, <2>4
    <3>2. pc[d] = "woken"
      BY <3>1 DEF NetInv
    <3>3. d \in CoresOf(m)
      <4>1. net[m].a \in Addrs /\ waiters[m][net[m].a] # <<>>
        BY <1>5, <3>1
      <4>2. 1 \in DOMAIN waiters[m][net[m].a]
        <5>1. waiters[m][net[m].a] \in Seq(Waiter)
          BY <1>1, <4>1
        <5> QED
          BY <4>1, <5>1
      <4> QED
        BY <4>1, <4>2 DEF LockTypes
    <3>4. d # c
      BY <3>1, <3>2, <3>3 DEF CoresOf
    <3>5. d \in Cores
      BY <3>3 DEF CoresOf
    <3>6. pc'[d] = "woken"
      BY <1>1, <3>2, <3>4, <3>5 DEF UserLock
    <3> HIDE DEF d
    <3> QED
      BY <2>3, <2>4, <3>6 DEF d
  <2> QED
    BY <2>1, <2>3, <2>4
<1>7. ASSUME NEW m \in Nodes, NEW d \in CoresOf(m), pc'[d] = "woken"
      PROVE  lock'[m].ex = d /\ net'[m].pc = "handoff" /\ waiters'[m][net'[m].a][1].c = d
  <2>1. /\ lock[m].ex = d /\ net[m].pc = "handoff" /\ waiters[m][net[m].a][1].c = d
        /\ lock'[m] = lock[m] /\ net'[m] = net[m]
    BY <1>4, <1>7 DEF NetInv
  <2>2. waiters'[m][net[m].a][1] = waiters[m][net[m].a][1]
    BY <1>2, <1>5, <2>1
  <2> QED
    BY <2>1, <2>2
<1> QED
  BY <1>6, <1>7 DEF NetInv

\* The waiters while a core that does not wait, or is served, goes on.
LEMMA UserWaiterInv ==
    ASSUME Types, LockTypes, NetInv, WaiterInv, NEW n \in Nodes, NEW c \in CoresOf(n), NEW p,
           pc' = [pc EXCEPT ![c] = p], pc[c] # "waiting",
           \A d \in Cores \ {c} : op'[d] = op[d],
           IF pc[c] = "woken" THEN net' = [net EXCEPT ![n].pc = "signalled"] ELSE net' = net,
           waiters' = waiters
    PROVE  WaiterInv'
<1>1. /\ pc \in [Cores -> Control] /\ c \in Cores
      /\ net \in [Nodes -> [pc : {"idle", "handoff", "signalled"}, a : Addrs \cup {None}]]
      /\ waiters \in [Nodes -> [Addrs -> Seq(Waiter)]]
  BY DEF Types, ThreadsOK, CoresOf
<1>3. ASSUME NEW m \in Nodes
      PROVE  /\ net'[m].a = net[m].a
             /\ net'[m].pc = IF m = n /\ pc[c] = "woken" THEN "signalled" ELSE net[m].pc
  BY <1>1
<1>4. ASSUME NEW m \in Nodes, NEW a \in Addrs, NEW i \in DOMAIN waiters[m][a], Live(m, a, i)'
      PROVE  Live(m, a, i) /\ waiters[m][a][i].c # c /\ waiters[m][a][i].c \in CoresOf(m)
  <2>1. Live(m, a, i)
    BY <1>3, <1>4 DEF Live
  <2>2. waiters[m][a][i].c \in CoresOf(m)
    BY DEF LockTypes
  <2>3. ASSUME waiters[m][a][i].c = c
        PROVE  FALSE
    <3>1. m = n
      BY <2>2, <2>3 DEF CoresOf
    <3>2. pc[c] = "woken" /\ net[m].a = a /\ i = 1
      BY <2>1, <2>3 DEF WaiterInv
    <3> QED
      BY <1>3, <1>4, <3>1, <3>2 DEF Live
  <2> QED
    BY <2>1, <2>2, <2>3
<1>5. ASSUME NEW m \in Nodes, NEW a \in Addrs, NEW i \in DOMAIN waiters[m][a], Live(m, a, i)'
      PROVE  LET d == waiters[m][a][i].c IN
             /\ op'[d].a = a /\ (waiters[m][a][i].excl <=> IsWriter(op'[d].t))
             /\ pc'[d] \in {"waiting", "woken"}
             /\ pc'[d] = "woken" => net'[m].a = a /\ i = 1
  <2> DEFINE d == waiters[m][a][i].c
  <2>1. Live(m, a, i) /\ d # c /\ d \in CoresOf(m)
    BY <1>4, <1>5
  <2>2. d \in Cores /\ op'[d] = op[d] /\ pc'[d] = pc[d]
    BY <1>1, <2>1 DEF CoresOf
  <2>3. /\ op[d].a = a /\ (waiters[m][a][i].excl <=> IsWriter(op[d].t))
        /\ pc[d] \in {"waiting", "woken"}
        /\ pc[d] = "woken" => net[m].a = a /\ i = 1
    BY <2>1 DEF WaiterInv
  <2> HIDE DEF d
  <2>4. /\ op'[d].a = a /\ (waiters[m][a][i].excl <=> IsWriter(op'[d].t))
        /\ pc'[d] \in {"waiting", "woken"}
        /\ pc'[d] = "woken" => net'[m].a = a /\ i = 1
    BY <1>3, <2>2, <2>3
  <2> QED
    BY <2>4 DEF d
<1>6. ASSUME NEW m \in Nodes, NEW a \in Addrs, NEW i \in DOMAIN waiters[m][a],
             NEW j \in DOMAIN waiters[m][a], Live(m, a, i)', Live(m, a, j)',
             waiters[m][a][i].c = waiters[m][a][j].c
      PROVE  i = j
  BY <1>4, <1>6 DEF WaiterInv
<1> QED
  BY <1>5, <1>6 DEF WaiterInv

LEMMA EntryOfAppend ==
    ASSUME NEW T, NEW q \in Seq(T), NEW w \in T, NEW i \in DOMAIN Append(q, w)
    PROVE  \/ i \in DOMAIN q /\ Append(q, w)[i] = q[i]
           \/ i = Len(q) + 1 /\ Append(q, w)[i] = w
OBVIOUS

\* The waiters when core c queues up for line a.
LEMMA QueueWaiterInv ==
    ASSUME Types, LockTypes, NetInv, WaiterInv, NEW n \in Nodes, NEW c \in CoresOf(n),
           pc' = [pc EXCEPT ![c] = "waiting"], pc[c] \notin {"waiting", "woken"},
           op' = op, net' = net, NEW a \in Addrs, op[c].a = a,
           waiters' = [waiters EXCEPT ![n][a] = Append(@, [c |-> c, excl |-> IsWriter(op[c].t)])]
    PROVE  WaiterInv'
<1> DEFINE w == [c |-> c, excl |-> IsWriter(op[c].t)]
           q == waiters[n][a]
<1>1. /\ pc \in [Cores -> Control] /\ c \in Cores
      /\ net \in [Nodes -> [pc : {"idle", "handoff", "signalled"}, a : Addrs \cup {None}]]
      /\ waiters \in [Nodes -> [Addrs -> Seq(Waiter)]] /\ q \in Seq(Waiter)
  BY DEF Types, ThreadsOK, CoresOf
<1>2. w \in Waiter /\ w.c = c /\ (w.excl <=> IsWriter(op[c].t))
  BY <1>1 DEF Waiter, IsWriter
<1>2a. waiters' = [waiters EXCEPT ![n][a] = Append(@, w)]
  OBVIOUS
<1> HIDE DEF w
<1>3. /\ waiters'[n][a] = Append(q, w)
      /\ \A m \in Nodes, x \in Addrs : ~(m = n /\ x = a) => waiters'[m][x] = waiters[m][x]
  <2>1. waiters'[n][a] = Append(q, w)
    BY <1>1, <1>2a
  <2>2. ASSUME NEW m \in Nodes, NEW x \in Addrs, ~(m = n /\ x = a)
        PROVE  waiters'[m][x] = waiters[m][x]
    BY <1>1, <1>2a, <2>2
  <2> QED
    BY <2>1, <2>2
<1>4. ASSUME NEW m \in Nodes, NEW x \in Addrs, NEW i \in DOMAIN waiters'[m][x], Live(m, x, i)'
      PROVE  \/ /\ i \in DOMAIN waiters[m][x] /\ waiters'[m][x][i] = waiters[m][x][i]
                /\ Live(m, x, i) /\ waiters[m][x][i].c # c
             \/ m = n /\ x = a /\ i = Len(q) + 1 /\ waiters'[m][x][i] = w
  <2>1. Live(m, x, i)
    BY <1>4 DEF Live
  <2>2. CASE ~(m = n /\ x = a)
    BY <1>3, <2>1, <2>2 DEF WaiterInv
  <2>3. CASE m = n /\ x = a
    <3>1. \/ i \in DOMAIN q /\ waiters'[m][x][i] = q[i]
          \/ i = Len(q) + 1 /\ waiters'[m][x][i] = w
      <4>1. i \in DOMAIN Append(q, w) /\ waiters'[m][x] = Append(q, w)
        BY <1>3, <1>4, <2>3
      <4>2. q \in Seq(Waiter)
        BY <1>1
      <4> HIDE DEF q
      <4>3. \/ i \in DOMAIN q /\ Append(q, w)[i] = q[i]
            \/ i = Len(q) + 1 /\ Append(q, w)[i] = w
        BY <1>2, <4>1, <4>2, EntryOfAppend, ZenonT(30)
      <4> QED
        BY <4>1, <4>3
    <3> QED
      BY <2>1, <2>3, <3>1 DEF WaiterInv
  <2> QED
    BY <2>2, <2>3
<1>5. ASSUME NEW m \in Nodes, NEW x \in Addrs, NEW i \in DOMAIN waiters'[m][x], Live(m, x, i)'
      PROVE  LET d == waiters'[m][x][i].c IN
             /\ op'[d].a = x /\ (waiters'[m][x][i].excl <=> IsWriter(op'[d].t))
             /\ pc'[d] \in {"waiting", "woken"}
             /\ pc'[d] = "woken" => net'[m].a = x /\ i = 1
  <2>1. CASE /\ i \in DOMAIN waiters[m][x] /\ waiters'[m][x][i] = waiters[m][x][i]
             /\ Live(m, x, i) /\ waiters[m][x][i].c # c
    <3> DEFINE d == waiters[m][x][i].c
    <3>1. d \in Cores
      BY <2>1 DEF LockTypes, CoresOf
    <3>2. /\ op[d].a = x /\ (waiters[m][x][i].excl <=> IsWriter(op[d].t))
          /\ pc[d] \in {"waiting", "woken"}
          /\ pc[d] = "woken" => net[m].a = x /\ i = 1
      BY <2>1 DEF WaiterInv
    <3>3. pc'[d] = pc[d]
      BY <1>1, <2>1, <3>1
    <3> QED
      BY <2>1, <3>2, <3>3
  <2>2. CASE m = n /\ x = a /\ waiters'[m][x][i] = w
    BY <1>1, <1>2, <2>2
  <2> QED
    BY <1>4, <1>5, <2>1, <2>2
<1>6. ASSUME NEW m \in Nodes, NEW x \in Addrs, NEW i \in DOMAIN waiters'[m][x],
             NEW j \in DOMAIN waiters'[m][x], Live(m, x, i)', Live(m, x, j)',
             waiters'[m][x][i].c = waiters'[m][x][j].c
      PROVE  i = j
  <2>1. \/ /\ i \in DOMAIN waiters[m][x] /\ waiters'[m][x][i] = waiters[m][x][i]
           /\ Live(m, x, i) /\ waiters[m][x][i].c # c
        \/ i = Len(q) + 1 /\ waiters'[m][x][i] = w
    BY <1>4, <1>6
  <2>2. \/ /\ j \in DOMAIN waiters[m][x] /\ waiters'[m][x][j] = waiters[m][x][j]
           /\ Live(m, x, j) /\ waiters[m][x][j].c # c
        \/ j = Len(q) + 1 /\ waiters'[m][x][j] = w
    BY <1>4, <1>6
  <2>3. w.c = c
    BY <1>2
  <2>4. CASE waiters'[m][x][i].c = c
    BY <1>6, <2>1, <2>2, <2>3, <2>4
  <2>5. CASE waiters'[m][x][i].c # c
    <3>1. /\ i \in DOMAIN waiters[m][x] /\ waiters'[m][x][i] = waiters[m][x][i]
          /\ Live(m, x, i)
      BY <2>1, <2>3, <2>5
    <3>2. /\ j \in DOMAIN waiters[m][x] /\ waiters'[m][x][j] = waiters[m][x][j]
          /\ Live(m, x, j)
      BY <1>6, <2>2, <2>3, <2>5
    <3>3. waiters[m][x][i].c = waiters[m][x][j].c
      BY <1>6, <3>1, <3>2
    <3>4. /\ i \in DOMAIN waiters[m][x] /\ Live(m, x, i)
          /\ j \in DOMAIN waiters[m][x] /\ Live(m, x, j)
      BY <3>1, <3>2
    <3>5. WaiterInv
      OBVIOUS
    <3> QED
      BY <3>3, <3>4, <3>5 DEF WaiterInv
  <2> QED
    BY <2>4, <2>5
<1>7. ASSUME NEW m \in Nodes, NEW x \in Addrs
      PROVE  \A i \in DOMAIN waiters'[m][x] : Live(m, x, i)' =>
                LET d == waiters'[m][x][i].c IN
                /\ op'[d].a = x /\ (waiters'[m][x][i].excl <=> IsWriter(op'[d].t))
                /\ pc'[d] \in {"waiting", "woken"}
                /\ pc'[d] = "woken" => net'[m].a = x /\ i = 1
  BY <1>5
<1>8. ASSUME NEW m \in Nodes, NEW x \in Addrs
      PROVE  \A i, j \in DOMAIN waiters'[m][x] :
                Live(m, x, i)' /\ Live(m, x, j)' /\ waiters'[m][x][i].c = waiters'[m][x][j].c => i = j
  BY <1>6
<1> HIDE DEF q
<1> QED
  BY ONLY <1>7, <1>8 DEF WaiterInv

\* Entry i of the waiters ws of a step is entry i + k of the queue before it.
LEMMA WakeQueue ==
    ASSUME ThreadsOK, NetInv, NEW n \in Nodes, NEW a \in Addrs, NEW ws,
           \/ net[n].pc = "idle" /\ ws = waiters[n][a]
           \/ net[n].pc = "signalled" /\ net[n].a = a /\ ws = Tail(waiters[n][a])
    PROVE  /\ ws \in Seq(Waiter)
           /\ \E k \in {0, 1} : \A i \in DOMAIN ws :
                 /\ i + k \in DOMAIN waiters[n][a] /\ ws[i] = waiters[n][a][i + k]
                 /\ Live(n, a, i + k)
<1> DEFINE q == waiters[n][a]
<1>1. q \in Seq(Waiter)
  BY DEF ThreadsOK
<1>2. CASE net[n].pc = "idle" /\ ws = q
  <2>1. \A i \in DOMAIN ws : i + 0 \in DOMAIN q /\ ws[i] = q[i + 0] /\ Live(n, a, i + 0)
    BY <1>1, <1>2 DEF Live
  <2> QED
    BY <1>1, <1>2, <2>1
<1>3. CASE net[n].pc = "signalled" /\ net[n].a = a /\ ws = Tail(q)
  <2>1. q # <<>>
    BY <1>3 DEF NetInv
  <2> HIDE DEF q
  <2>2. Tail(q) \in Seq(Waiter) /\ \A i \in DOMAIN Tail(q) : i + 1 \in DOMAIN q /\ Tail(q)[i] = q[i + 1] /\ i + 1 # 1
    BY <1>1, <2>1
  <2>3. \A i \in DOMAIN ws : i + 1 \in DOMAIN q /\ ws[i] = q[i + 1] /\ Live(n, a, i + 1)
    BY <1>3, <2>2 DEF Live
  <2> QED
    BY <1>3, <2>2, <2>3 DEF q
<1> QED
  BY <1>2, <1>3

\* What is left to say of a network thread's step: nobody, or the first of ws, is woken.
WakeControl(n, a, ws) ==
    /\ waiters' = [waiters EXCEPT ![n][a] = ws] /\ op' = op /\ todo' = todo /\ cfg' = cfg
    /\ \/ /\ lock' = [lock EXCEPT ![n] = Free] /\ pc' = pc
          /\ net' = [net EXCEPT ![n] = [pc |-> "idle", a |-> None]]
       \/ /\ ws # <<>>
          /\ lock' = [lock EXCEPT ![n] = [sh |-> {}, ex |-> ws[1].c]]
          /\ pc' = [pc EXCEPT ![ws[1].c] = "woken"]
          /\ net' = [net EXCEPT ![n] = [pc |-> "handoff", a |-> a]]

LEMMA WakeThreads ==
    ASSUME Types, LockTypes, ThreadInv, NEW n \in Nodes, NEW a \in Addrs, NEW ws,
           WakeControl(n, a, ws), LockFree(n),
           \/ net[n].pc = "idle" /\ ws = waiters[n][a]
           \/ net[n].pc = "signalled" /\ net[n].a = a /\ ws = Tail(waiters[n][a])
    PROVE  LockTypes' /\ ThreadInv'
<1> DEFINE w == ws[1].c
           woken == ws # <<>> /\ pc' = [pc EXCEPT ![w] = "woken"]
                       /\ lock' = [lock EXCEPT ![n] = [sh |-> {}, ex |-> w]]
                       /\ net' = [net EXCEPT ![n] = [pc |-> "handoff", a |-> a]]
<1>1. /\ lock \in [Nodes -> [sh : SUBSET Cores, ex : Cores \cup {"free"}]]
      /\ pc \in [Cores -> Control] /\ ThreadsOK
      /\ net \in [Nodes -> [pc : {"idle", "handoff", "signalled"}, a : Addrs \cup {None}]]
      /\ waiters \in [Nodes -> [Addrs -> Seq(Waiter)]] /\ "free" \notin Cores /\ None \notin Addrs
  BY CacheAssumption DEF Types, ThreadsOK
<1>2. PICK k \in {0, 1} : \A i \in DOMAIN ws :
                 /\ i + k \in DOMAIN waiters[n][a] /\ ws[i] = waiters[n][a][i + k]
                 /\ Live(n, a, i + k)
  BY <1>1, WakeQueue DEF ThreadInv
<1>3. ws \in Seq(Waiter)
  BY <1>1, WakeQueue DEF ThreadInv
<1>4. /\ waiters'[n][a] = ws
      /\ \A m \in Nodes, x \in Addrs : ~(m = n /\ x = a) => waiters'[m][x] = waiters[m][x]
  <2>1. waiters'[n][a] = ws
    BY <1>1 DEF WakeControl
  <2>2. ASSUME NEW m \in Nodes, NEW x \in Addrs, ~(m = n /\ x = a)
        PROVE  waiters'[m][x] = waiters[m][x]
    BY <1>1, <2>2 DEF WakeControl
  <2> QED
    BY <2>1, <2>2
<1>5. ASSUME NEW d \in CoresOf(n)
      PROVE  d \in Cores /\ pc[d] # "woken" /\ pc[d] # "locked" /\ d # "free"
  BY <1>1, <1>5 DEF ThreadInv, LockInv, NetInv, CoresOf, LockFree
\* the entries that are left wait, each in a thread of its own
<1>6. ASSUME NEW i \in DOMAIN ws
      PROVE  /\ ws[i].c \in CoresOf(n) /\ pc[ws[i].c] = "waiting" /\ op[ws[i].c].a = a
             /\ (ws[i].excl <=> IsWriter(op[ws[i].c].t))
  <2>1. /\ i + k \in DOMAIN waiters[n][a] /\ ws[i] = waiters[n][a][i + k]
        /\ Live(n, a, i + k)
    BY <1>2
  <2>2. ws[i].c \in CoresOf(n)
    BY <2>1 DEF LockTypes
  <2> QED
    BY <1>5, <2>1, <2>2 DEF ThreadInv, WaiterInv
<1>7. ASSUME NEW i \in DOMAIN ws, NEW j \in DOMAIN ws, ws[i].c = ws[j].c
      PROVE  i = j
  <2>1. /\ i + k \in DOMAIN waiters[n][a] /\ ws[i] = waiters[n][a][i + k] /\ Live(n, a, i + k)
        /\ j + k \in DOMAIN waiters[n][a] /\ ws[j] = waiters[n][a][j + k] /\ Live(n, a, j + k)
    BY <1>2
  <2>2. i + k = j + k
    BY <1>7, <2>1 DEF ThreadInv, WaiterInv
  <2>3. i \in Nat /\ j \in Nat
    BY <1>3
  <2> QED
    BY <2>2, <2>3
<1>8. ws # <<>> => 1 \in DOMAIN ws
  BY <1>3
<1>9. woken => /\ w \in CoresOf(n) /\ w \in Cores /\ pc[w] = "waiting" /\ op[w].a = a
               /\ (ws[1].excl <=> IsWriter(op[w].t))
  BY <1>6, <1>8 DEF CoresOf
<1>10. \/ /\ lock' = [lock EXCEPT ![n] = Free] /\ pc' = pc
          /\ net' = [net EXCEPT ![n] = [pc |-> "idle", a |-> None]]
       \/ woken
  BY DEF WakeControl
<1>11. LockTypes'
  <2>1. ASSUME NEW m \in Nodes
        PROVE  /\ lock'[m].sh \subseteq CoresOf(m) /\ lock'[m].ex \in CoresOf(m) \cup {"free"}
               /\ (lock'[m].sh = {} \/ lock'[m].ex = "free")
    <3> HIDE DEF w
    <3>1. CASE m = n
      BY <1>1, <1>9, <1>10, <3>1 DEF Free
    <3>2. CASE m # n
      <4>1. lock'[m] = lock[m]
        BY <1>1, <1>10, <3>2
      <4> QED
        BY <4>1 DEF LockTypes
    <3> QED
      BY <3>1, <3>2
  <2>2. ASSUME NEW m \in Nodes, NEW x \in Addrs
        PROVE  \A i \in DOMAIN waiters'[m][x] : waiters'[m][x][i].c \in CoresOf(m)
    BY <1>4, <1>6 DEF LockTypes
  <2>3. todo' = todo /\ cfg' = cfg
    BY DEF WakeControl
  <2> QED
    BY <2>1, <2>2, <2>3 DEF LockTypes, CoresOf
<1>12. LockInv'
  <2>1. ASSUME NEW m \in Nodes, NEW d \in Cores
        PROVE  /\ d \in lock'[m].sh => pc'[d] = "locked"
               /\ lock'[m].ex = d => pc'[d] \in {"woken", "locked", "missed"}
    <3>1. pc[d] # "waiting" => pc'[d] = pc[d]
      BY <1>1, <1>9, <1>10
    <3>2. CASE m = n
      <4> HIDE DEF w
      <4> QED
        BY <1>1, <1>9, <1>10, <3>2 DEF Free
    <3>3. CASE m # n
      <4>1. lock'[m] = lock[m]
        BY <1>1, <1>10, <3>3
      <4> QED
        BY <3>1, <4>1 DEF ThreadInv, LockInv
    <3> QED
      BY <3>2, <3>3
  <2>2. ASSUME NEW m \in Nodes, NEW d \in CoresOf(m), pc'[d] = "locked"
        PROVE  d \in lock'[m].sh \/ lock'[m].ex = d
    <3>1. pc[d] = "locked" /\ d \in Cores
      BY <1>1, <1>9, <1>10, <2>2 DEF CoresOf
    <3>2. m # n
      BY <1>5, <3>1
    <3> QED
      BY <1>1, <1>10, <3>1, <3>2 DEF ThreadInv, LockInv
  <2> QED
    BY <2>1, <2>2 DEF LockInv
<1>13. OpInv'
  BY <1>1, <1>9, <1>10 DEF ThreadInv, OpInv, WakeControl, Control
<1>14. NetInv'
  <2>1. ASSUME NEW m \in Nodes
        PROVE  /\ net'[m].pc = "idle" <=> net'[m].a = None
               /\ net'[m].pc # "idle" => waiters'[m][net'[m].a] # <<>>
               /\ net'[m].pc = "handoff" => pc'[waiters'[m][net'[m].a][1].c] = "woken"
    <3>1. CASE m = n
      BY <1>1, <1>4, <1>9, <1>10, <3>1
    <3>2. CASE m # n
      <4>1. net'[m] = net[m]
        BY <1>1, <1>10, <3>2
      <4>2. ASSUME net[m].pc # "idle"
            PROVE  /\ net[m].a \in Addrs /\ waiters'[m][net[m].a] = waiters[m][net[m].a]
                   /\ waiters[m][net[m].a] # <<>>
        BY <1>1, <1>4, <3>2, <4>2 DEF ThreadInv, NetInv
      <4>3. ASSUME net[m].pc = "handoff"
            PROVE  pc'[waiters[m][net[m].a][1].c] = "woken"
        <5> DEFINE d == waiters[m][net[m].a][1].c
        <5>1. pc[d] = "woken"
          BY <4>3 DEF ThreadInv, NetInv
        <5>2. waiters[m][net[m].a] \in Seq(Waiter) /\ waiters[m][net[m].a] # <<>>
          BY <1>1, <4>2, <4>3
        <5>3. d \in Cores
          <6>1. waiters[m][net[m].a][1] \in Waiter
            BY <5>2
          <6> QED
            BY <6>1 DEF Waiter
        <5> HIDE DEF d
        <5> QED
          BY <1>1, <1>9, <1>10, <5>1, <5>3 DEF d
      <4> QED
        BY <4>1, <4>2, <4>3 DEF ThreadInv, NetInv
    <3> QED
      BY <3>1, <3>2
  <2>2. ASSUME NEW m \in Nodes, NEW d \in CoresOf(m), pc'[d] = "woken"
        PROVE  lock'[m].ex = d /\ net'[m].pc = "handoff" /\ waiters'[m][net'[m].a][1].c = d
    <3>0. d \in Cores /\ (m # n => d # w \/ ~woken)
      BY <1>9 DEF CoresOf
    <3>1. CASE m = n
      <4>1. woken /\ d = w
        BY <1>1, <1>5, <1>10, <2>2, <3>0, <3>1
      <4> QED
        BY <1>1, <1>4, <3>1, <4>1
    <3>2. CASE m # n
      <4>1. pc[d] = "woken" /\ lock'[m] = lock[m] /\ net'[m] = net[m]
        BY <1>1, <1>10, <2>2, <3>0, <3>2
      <4>2. /\ lock[m].ex = d /\ net[m].pc = "handoff" /\ waiters[m][net[m].a][1].c = d
            /\ net[m].a \in Addrs
        BY <1>1, <4>1 DEF ThreadInv, NetInv
      <4>3. waiters'[m][net[m].a] = waiters[m][net[m].a]
        BY <1>4, <3>2, <4>2
      <4> QED
        BY <4>1, <4>2, <4>3
    <3> QED
      BY <3>1, <3>2
  <2> QED
    BY <2>1, <2>2 DEF NetInv
<1>15. ASSUME NEW m \in Nodes, NEW x \in Addrs, NEW i \in DOMAIN waiters'[m][x], Live(m, x, i)'
       PROVE  LET d == waiters'[m][x][i].c IN
              /\ op'[d].a = x /\ (waiters'[m][x][i].excl <=> IsWriter(op'[d].t))
              /\ pc'[d] \in {"waiting", "woken"}
              /\ pc'[d] = "woken" => net'[m].a = x /\ i = 1
  <2>1. op' = op
    BY DEF WakeControl
  <2>2. CASE m = n /\ x = a
    <3> DEFINE d == ws[i].c
    <3>1. /\ i \in DOMAIN ws /\ waiters'[m][x] = ws
      BY <1>4, <1>15, <2>2
    <3>2. d \in CoresOf(n) /\ d \in Cores /\ pc[d] = "waiting" /\ op[d].a = a
                /\ (ws[i].excl <=> IsWriter(op[d].t))
      BY <1>6, <3>1 DEF CoresOf
    <3>3. woken /\ d = w => i = 1
      BY <1>7, <1>8, <3>1
    <3>4. /\ pc'[d] \in {"waiting", "woken"}
          /\ pc'[d] = "woken" => net'[n].a = a /\ i = 1
      <4> HIDE DEF d, w
      <4> QED
        BY <1>1, <1>9, <1>10, <3>2, <3>3
    <3> QED
      BY <2>1, <2>2, <3>1, <3>2, <3>4
  <2>3. CASE ~(m = n /\ x = a)
    <3> DEFINE d == waiters[m][x][i].c
    <3>1. waiters'[m][x] = waiters[m][x] /\ i \in DOMAIN waiters[m][x]
      BY <1>4, <1>15, <2>3
    <3>2. Live(m, x, i)
      <4>1. CASE m = n
        BY <1>1, <2>3, <4>1 DEF Live, ThreadInv, NetInv
      <4>2. CASE m # n
        <5>1. net'[m] = net[m]
          BY <1>1, <1>10, <4>2
        <5> QED
          BY <1>15, <5>1 DEF Live
      <4> QED
        BY <4>1, <4>2
    <3>3. /\ op[d].a = x /\ (waiters[m][x][i].excl <=> IsWriter(op[d].t))
          /\ pc[d] \in {"waiting", "woken"} /\ d \in CoresOf(m) /\ d \in Cores
          /\ pc[d] = "woken" => net[m].a = x /\ i = 1
      BY <3>1, <3>2 DEF ThreadInv, WaiterInv, LockTypes, CoresOf
    <3>4. woken => d # w
      BY <1>9, <2>3, <3>3 DEF CoresOf
    <3>5. pc'[d] = pc[d] /\ (m = n => pc[d] # "woken") /\ (m # n => net'[m] = net[m])
      <4> HIDE DEF d, w
      <4> QED
        BY <1>1, <1>5, <1>10, <3>3, <3>4
    <3> QED
      BY <2>1, <3>1, <3>3, <3>5
  <2> QED
    BY <2>2, <2>3
<1>16. ASSUME NEW m \in Nodes, NEW x \in Addrs, NEW i \in DOMAIN waiters'[m][x],
              NEW j \in DOMAIN waiters'[m][x], Live(m, x, i)', Live(m, x, j)',
              waiters'[m][x][i].c = waiters'[m][x][j].c
       PROVE  i = j
  <2>1. CASE m = n /\ x = a
    BY <1>4, <1>7, <1>16, <2>1
  <2>2. CASE ~(m = n /\ x = a)
    <3>1. waiters'[m][x] = waiters[m][x]
      BY <1>4, <2>2
    <3>2. m # n => net'[m] = net[m]
      BY <1>1, <1>10
    <3>3. Live(m, x, i) /\ Live(m, x, j)
      BY <1>1, <1>16, <2>2, <3>2 DEF Live, ThreadInv, NetInv
    <3> QED
      BY <1>16, <3>1, <3>3 DEF ThreadInv, WaiterInv
  <2> QED
    BY <2>1, <2>2
<1>17. WaiterInv'
  <2>1. ASSUME NEW m \in Nodes, NEW x \in Addrs
        PROVE  \A i \in DOMAIN waiters'[m][x] : Live(m, x, i)' =>
                  LET d == waiters'[m][x][i].c IN
                  /\ op'[d].a = x /\ (waiters'[m][x][i].excl <=> IsWriter(op'[d].t))
                  /\ pc'[d] \in {"waiting", "woken"}
                  /\ pc'[d] = "woken" => net'[m].a = x /\ i = 1
    BY <1>15
  <2>2. ASSUME NEW m \in Nodes, NEW x \in Addrs
        PROVE  \A i, j \in DOMAIN waiters'[m][x] :
                  Live(m, x, i)' /\ Live(m, x, j)' /\ waiters'[m][x][i].c = waiters'[m][x][j].c => i = j
    BY <1>16
  <2> QED
    BY ONLY <2>1, <2>2 DEF WaiterInv
<1> QED
  BY <1>11, <1>12, <1>13, <1>14, <1>17 DEF ThreadInv

\* The lock is well-typed after a step of core c that leaves it as L.
LEMMA UserLockTypes ==
    ASSUME Types, LockTypes, NEW n \in Nodes, NEW L, lock' = [lock EXCEPT ![n] = L],
           L.sh \subseteq CoresOf(n), L.ex \in CoresOf(n) \cup {"free"}, L.sh = {} \/ L.ex = "free",
           NEW a \in Addrs, NEW w \in Waiter, w.c \in CoresOf(n),
           waiters' = waiters \/ waiters' = [waiters EXCEPT ![n][a] = Append(@, w)],
           cfg' = cfg, \A c \in Cores : todo'[c] <= cfg.ops[c]
    PROVE  LockTypes'
<1>1. /\ lock \in [Nodes -> [sh : SUBSET Cores, ex : Cores \cup {"free"}]]
      /\ waiters \in [Nodes -> [Addrs -> Seq(Waiter)]]
  BY DEF Types, ThreadsOK
<1>2. ASSUME NEW m \in Nodes
      PROVE  /\ lock'[m].sh \subseteq CoresOf(m) /\ lock'[m].ex \in CoresOf(m) \cup {"free"}
             /\ (lock'[m].sh = {} \/ lock'[m].ex = "free")
  BY <1>1 DEF LockTypes
<1>3. ASSUME NEW m \in Nodes, NEW x \in Addrs, NEW i \in DOMAIN waiters'[m][x]
      PROVE  waiters'[m][x][i].c \in CoresOf(m)
  <2>1. CASE waiters'[m][x] = waiters[m][x]
    BY <1>3, <2>1 DEF LockTypes
  <2>2. CASE m = n /\ x = a /\ waiters'[m][x] = Append(waiters[n][a], w)
    <3> DEFINE q == waiters[n][a]
    <3>1. q \in Seq(Waiter) /\ i \in DOMAIN Append(q, w)
      BY <1>1, <1>3, <2>2
    <3>2. \A j \in DOMAIN q : q[j].c \in CoresOf(n)
      BY DEF LockTypes
    <3> HIDE DEF q
    <3>3. \/ i \in DOMAIN q /\ Append(q, w)[i] = q[i]
          \/ i = Len(q) + 1 /\ Append(q, w)[i] = w
      BY <3>1, EntryOfAppend
    <3>4. Append(q, w)[i].c \in CoresOf(n)
      BY <3>2, <3>3
    <3> QED
      BY <2>2, <3>4 DEF q
  <2>3. waiters'[m][x] = waiters[m][x] \/ (m = n /\ x = a /\ waiters'[m][x] = Append(waiters[n][a], w))
    <3>1. CASE waiters' = waiters
      BY <3>1
    <3>2. CASE waiters' = [waiters EXCEPT ![n][a] = Append(@, w)]
      <4>1. CASE m = n /\ x = a
        BY <1>1, <3>2, <4>1
      <4>2. CASE ~(m = n /\ x = a)
        BY <1>1, <3>2, <4>2
      <4> QED
        BY <4>1, <4>2
    <3> QED
      BY <3>1, <3>2
  <2> QED
    BY <2>1, <2>2, <2>3
<1> QED
  BY <1>2, <1>3 DEF LockTypes, CoresOf

\* A step that changes neither lock nor waiters.
LEMMA SameLockTypes ==
    ASSUME LockTypes, UNCHANGED <<cfg, lock, waiters, todo>>
    PROVE  LockTypes'
BY DEF LockTypes, CoresOf

\* The lock after an access: free of core c, or kept by the first half of an atomic pair.
LEMMA AccessLock ==
    ASSUME Types, LockTypes, LockInv, NEW n \in Nodes, NEW c \in CoresOf(n), NEW o \in Op, NEW st,
           Access(n, c, o, st), lock[n].ex \in {c, "free"},
           o.sig = "LOCK" /\ LockAll(o) => lock[n].sh \ {c} = {}
    PROVE  \E p : UserLock(n, c, LockAfter(n, c, o), p)
<1> DEFINE p == IF o.sig = "LOCK" THEN "locked" ELSE IF cfg.pf THEN "prefetch" ELSE "idle"
           L == LockAfter(n, c, o)
<1>1. lock' = [lock EXCEPT ![n] = L] /\ pc' = [pc EXCEPT ![c] = p]
  BY Zenon DEF Access
<1>2. lock[n] \in [sh : SUBSET Cores, ex : Cores \cup {"free"}] /\ c \in Cores
  BY DEF Types, ThreadsOK, CoresOf
<1>3. lock[n].sh \subseteq CoresOf(n) /\ (lock[n].sh = {} \/ lock[n].ex = "free")
  BY DEF LockTypes
<1>4. c # "free"
  BY <1>2, CacheAssumption
<1>5. CASE o.sig # "LOCK"
  <2>1. L = [sh |-> lock[n].sh \ {c}, ex |-> "free"] /\ p \in {"prefetch", "idle"}
    BY <1>5 DEF LockAfter
  <2> HIDE DEF L, p
  <2>2. UserLock(n, c, L, p)
    BY <1>1, <1>2, <1>3, <1>4, <2>1 DEF UserLock
  <2> QED
    BY <2>2 DEF L
<1>6. CASE o.sig = "LOCK" /\ LockAll(o)
  <2>1. L = [sh |-> {}, ex |-> c] /\ p = "locked"
    BY <1>6 DEF LockAfter
  <2> HIDE DEF L, p
  <2>2. UserLock(n, c, L, p)
    BY <1>1, <1>2, <1>3, <1>4, <1>6, <2>1 DEF UserLock
  <2> QED
    BY <2>2 DEF L
<1>7. CASE o.sig = "LOCK" /\ ~LockAll(o)
  <2>1. L = [sh |-> lock[n].sh \cup {c}, ex |-> "free"] /\ p = "locked"
    BY <1>7 DEF LockAfter
  <2> HIDE DEF L, p
  <2>2. UserLock(n, c, L, p)
    BY <1>1, <1>2, <1>3, <1>4, <2>1 DEF UserLock
  <2> QED
    BY <2>2 DEF L
<1> QED
  BY <1>5, <1>6, <1>7, Zenon

\* A core that neither waits nor is woken by this step goes on.
LEMMA UserThreads ==
    ASSUME Types, LockTypes, ThreadInv, NEW n \in Nodes, NEW c \in CoresOf(n), NEW L, NEW p,
           UserLock(n, c, L, p), pc[c] # "waiting", p # "waiting",
           \A d \in Cores \ {c} : op'[d] = op[d],
           op'[c].a \in Addrs, p = "missed" => op'[c].t # "P",
           IF pc[c] = "woken" THEN net' = [net EXCEPT ![n].pc = "signalled"] ELSE net' = net,
           waiters' = waiters
    PROVE  ThreadInv'
<1>1. pc \in [Cores -> Control] /\ c \in Cores /\ pc' = [pc EXCEPT ![c] = p]
  BY DEF Types, ThreadsOK, CoresOf, UserLock
<1>2. PICK a \in Addrs : TRUE
  OBVIOUS
<1>3. [c |-> c, excl |-> TRUE] \in Waiter
  BY <1>1 DEF Waiter
<1>4. LockInv'
  BY UserLockInv DEF ThreadInv
<1>5. NetInv'
  BY <1>2, <1>3, UserNetInv DEF ThreadInv
<1>6. WaiterInv'
  BY <1>1, UserWaiterInv DEF ThreadInv
<1>7. OpInv'
  BY <1>1 DEF ThreadInv, OpInv, UserLock
<1> QED
  BY <1>4, <1>5, <1>6, <1>7 DEF ThreadInv

\* Core c gives the exclusive lock up and queues for line a.
LEMMA QueueThreads ==
    ASSUME Types, LockTypes, ThreadInv, NEW n \in Nodes, NEW c \in CoresOf(n), NEW a \in Addrs, NEW st,
           InitiateDirectoryAccess(n, c, op[c].t, a, st), op[c].a = a,
           LockFree(n) \/ lock[n].ex = c, pc[c] \notin {"waiting", "woken"},
           UNCHANGED <<cfg, op, todo, net>>
    PROVE  LockTypes' /\ ThreadInv'
<1> DEFINE w == [c |-> c, excl |-> IsWriter(op[c].t)]
<1>1. pc \in [Cores -> Control] /\ c \in Cores /\ c # "free"
  BY CacheAssumption DEF Types, ThreadsOK, CoresOf
<1>2. /\ pc' = [pc EXCEPT ![c] = "waiting"] /\ lock' = [lock EXCEPT ![n] = Free]
      /\ waiters' = [waiters EXCEPT ![n][a] = Append(@, w)]
  BY DEF InitiateDirectoryAccess, IsWriter
<1>3. w \in Waiter /\ w.c \in CoresOf(n)
  BY <1>1 DEF Waiter, IsWriter
<1>4. UserLock(n, c, Free, "waiting")
  <2>1. lock[n].sh = {} /\ lock[n].ex \in {c, "free"}
    BY <1>1 DEF LockFree, LockTypes
  <2> QED
    BY <1>1, <1>2, <2>1 DEF UserLock, Free
<1>5. LockInv'
  BY <1>4, UserLockInv DEF ThreadInv
<1>6. WaiterInv'
  BY <1>2, QueueWaiterInv DEF ThreadInv
<1>7. OpInv'
  BY <1>1, <1>2 DEF ThreadInv, OpInv
<1> HIDE DEF w
<1>8. NetInv'
  BY <1>2, <1>3, <1>4, UserNetInv DEF ThreadInv
<1>9. LockTypes'
  <2>1. Free.sh = {} /\ Free.ex = "free" /\ \A d \in Cores : todo'[d] <= cfg.ops[d]
    BY DEF Free, LockTypes
  <2> HIDE DEF Free
  <2> QED
    BY <1>2, <1>3, <2>1, UserLockTypes
<1> QED
  BY <1>5, <1>6, <1>7, <1>8, <1>9 DEF ThreadInv

ThreadsNext == LockTypes' /\ (failed' = "no" => ThreadInv')

\* An access at the end of an operation, with the lock in the core's reach.
LEMMA AccessThreads ==
    ASSUME Types, LockTypes, ThreadInv, NEW n \in Nodes, NEW c \in CoresOf(n), NEW o \in Op, NEW st,
           o.a \in Addrs, Access(n, c, o, st), lock[n].ex \in {c, "free"}, pc[c] # "waiting",
           o.sig = "LOCK" /\ LockAll(o) => lock[n].sh \ {c} = {},
           op'[c] = o, \A d \in Cores \ {c} : op'[d] = op[d], o.t # "P",
           IF pc[c] = "woken" THEN net' = [net EXCEPT ![n].pc = "signalled"] ELSE net' = net,
           waiters' = waiters, cfg' = cfg, \A d \in Cores : todo'[d] <= cfg.ops[d]
    PROVE  ThreadsNext
<1> DEFINE L == LockAfter(n, c, o)
<1>1. PICK p : UserLock(n, c, L, p)
  BY AccessLock DEF ThreadInv
<1>2. p # "waiting" /\ (p = "missed" => op'[c].t # "P")
  <2>1. p = pc'[c] /\ pc'[c] # "waiting"
    <3>1. c \in Cores /\ pc \in [Cores -> Control]
      BY DEF Types, ThreadsOK, CoresOf
    <3>2. pc' = [pc EXCEPT ![c] = p]
      BY <1>1, Zenon DEF UserLock
    <3>3. pc' = [pc EXCEPT ![c] = IF o.sig = "LOCK" THEN "locked"
                                  ELSE IF cfg.pf THEN "prefetch" ELSE "idle"]
      BY Zenon DEF Access
    <3> QED
      BY <3>1, <3>2, <3>3
  <2> QED
    BY <2>1
<1> HIDE DEF L
<1>3. ThreadInv'
  BY <1>1, <1>2, UserThreads
<1>4. PICK w \in Waiter : w.c \in CoresOf(n)
  <2>1. [c |-> c, excl |-> TRUE] \in Waiter /\ [c |-> c, excl |-> TRUE].c \in CoresOf(n)
    BY DEF Waiter, CoresOf
  <2> QED
    BY <2>1
<1>5. /\ lock' = [lock EXCEPT ![n] = L]
      /\ L.sh \subseteq CoresOf(n) /\ L.ex \in CoresOf(n) \cup {"free"}
      /\ (L.sh = {} \/ L.ex = "free")
  BY <1>1 DEF UserLock
<1>6. LockTypes'
  BY <1>4, <1>5, UserLockTypes
<1> QED
  BY <1>3, <1>6 DEF ThreadsNext

LEMMA FirstLevelThreads ==
    ASSUME Types, LockTypes, ThreadInv, NEW n \in Nodes, NEW c \in CoresOf(n), NEW o \in Op,
           o.a \in Addrs, o.t # "P", FirstLevel(n, c, o), \A d \in Cores : todo'[d] <= cfg.ops[d],
           lock[n].ex \in {c, "free"},
           \/ pc[c] = "idle" /\ o.sig # "UNLOCK" /\ (LockAll(o) => LockFree(n))
           \/ pc[c] = "locked" /\ o.sig = "UNLOCK"
    PROVE  ThreadsNext
<1>1. /\ c \in Cores /\ c # "free" /\ pc \in [Cores -> Control] /\ op \in [Cores -> Op]
      /\ lock \in [Nodes -> [sh : SUBSET Cores, ex : Cores \cup {"free"}]]
  BY CacheAssumption DEF Types, ThreadsOK, CoresOf
<1>2. op' = [op EXCEPT ![c] = o] /\ UNCHANGED <<cfg, waiters, net>>
  BY DEF FirstLevel
<1>3. op'[c] = o /\ \A d \in Cores \ {c} : op'[d] = op[d]
  BY <1>1, <1>2
<1>4. CASE Permissible(stack[n].l1[c][o.a], o.t)
  <2>1. Access(n, c, o, stack[n])
    BY <1>4 DEF FirstLevel
  <2>2. o.sig = "LOCK" /\ LockAll(o) => lock[n].sh \ {c} = {}
    BY DEF LockFree
  <2>3. pc[c] # "waiting" /\ pc[c] # "woken"
    OBVIOUS
  <2> QED
    BY <1>2, <1>3, <2>1, <2>2, <2>3, AccessThreads
<1>5. CASE ~Permissible(stack[n].l1[c][o.a], o.t)
  <2> DEFINE L == IF LockAll(o) THEN [sh |-> {}, ex |-> c] ELSE lock[n]
  <2>1. /\ pc' = [pc EXCEPT ![c] = "missed"]
        /\ failed' = IF o.sig = "UNLOCK" THEN "second half missed" ELSE failed
        /\ lock' = IF LockAll(o) THEN [lock EXCEPT ![n] = [sh |-> {}, ex |-> c]] ELSE lock
    BY <1>5 DEF FirstLevel
  <2>2. lock' = [lock EXCEPT ![n] = L]
    BY <1>1, <2>1
  <2>3. /\ L \in [sh : SUBSET Cores, ex : Cores \cup {"free"}]
        /\ L.sh \subseteq CoresOf(n) /\ L.ex \in CoresOf(n) \cup {"free"}
        /\ (L.sh = {} \/ L.ex = "free")
    BY <1>1 DEF LockTypes
  <2>4. pc[c] = "idle" => c \notin lock[n].sh /\ lock[n].ex # c
    BY <1>1 DEF ThreadInv, LockInv
  <2>5. pc[c] = "idle" /\ o.sig # "UNLOCK" => UserLock(n, c, L, "missed")
    BY <1>1, <2>1, <2>2, <2>3, <2>4 DEF UserLock, LockFree
  <2>6. PICK w \in Waiter : w.c \in CoresOf(n)
    <3>1. [c |-> c, excl |-> TRUE] \in Waiter /\ [c |-> c, excl |-> TRUE].c \in CoresOf(n)
      BY <1>1 DEF Waiter
    <3> QED
      BY <3>1
  <2> HIDE DEF L
  <2>7. LockTypes'
    BY <1>2, <2>2, <2>3, <2>6, UserLockTypes
  <2>8. ASSUME failed' = "no"
        PROVE  ThreadInv'
    <3>1. pc[c] = "idle" /\ o.sig # "UNLOCK"
      BY <2>1, <2>8
    <3> QED
      BY <1>2, <1>3, <2>5, <3>1, UserThreads
  <2> QED
    BY <2>7, <2>8 DEF ThreadsNext
<1> QED
  BY <1>4, <1>5

LEMMA IssueThreads ==
    ASSUME Types, LockTypes, ThreadInv, NEW c \in Cores, NEW t \in {"R", "W", "X"}, NEW a \in Addrs,
           Issue(c, Operation(t, a))
    PROVE  ThreadsNext /\ Types'
<1> DEFINE n == NodeOf[c]
           o == Operation(t, a)
<1>1. /\ n \in Nodes /\ c \in CoresOf(n) /\ todo \in [Cores -> Nat] /\ cfg \in Configs
  BY NodeOfCore DEF Types, ThreadsOK
<1>2. o \in Op /\ o.a = a /\ o.t = t /\ o.sig # "UNLOCK" /\ (o.sig = "NONE" \/ t = "X")
  BY DEF Operation, Op
<1> HIDE DEF o
<1>3. /\ pc[c] = "idle" /\ todo[c] > 0
      /\ IF LockAll(o) THEN LockFree(n) ELSE lock[n].ex = "free"
      /\ todo' = [todo EXCEPT ![c] = @ - 1]
      /\ FirstLevel(n, c, o)
  BY DEF Issue, o
<1> HIDE DEF n
<1>4. todo' \in [Cores -> Nat] /\ \A d \in Cores : todo'[d] <= cfg.ops[d]
  <2>1. \A d \in Cores : cfg.ops[d] \in Nat
    BY <1>1, CacheAssumption
  <2> QED
    BY <1>1, <1>3, <2>1 DEF LockTypes
<1>5. lock[n].ex \in {c, "free"} /\ (LockAll(o) => LockFree(n))
  BY <1>3 DEF LockFree
<1>6. Types'
  BY <1>1, <1>2, <1>3, <1>4, FirstLevelTypes DEF n
<1>7. ThreadsNext
  BY <1>1, <1>2, <1>3, <1>4, <1>5, FirstLevelThreads
<1> QED
  BY <1>6, <1>7

LEMMA IssueUnlockThreads ==
    ASSUME Types, LockTypes, ThreadInv, NEW c \in Cores, IssueUnlock(c)
    PROVE  ThreadsNext /\ Types'
<1> DEFINE n == NodeOf[c]
           o == [t |-> "W", a |-> op[c].a, sig |-> "UNLOCK"]
<1>1. /\ n \in Nodes /\ c \in CoresOf(n) /\ todo \in [Cores -> Nat] /\ cfg \in Configs
  BY NodeOfCore DEF Types, ThreadsOK
<1>2. pc[c] = "locked" /\ FirstLevel(n, c, o) /\ todo' = todo
  BY DEF IssueUnlock
<1>3. o \in Op /\ o.a \in Addrs /\ o.t # "P" /\ o.sig = "UNLOCK"
  <2>1. op[c].a \in Addrs
    BY <1>2 DEF ThreadInv, OpInv
  <2> QED
    BY <2>1 DEF Op
<1> HIDE DEF n, o
<1>4. lock[n].ex \in {c, "free"}
  BY <1>1, <1>2 DEF ThreadInv, LockInv, LockTypes
<1>5. todo' \in [Cores -> Nat] /\ \A d \in Cores : todo'[d] <= cfg.ops[d]
  BY <1>1, <1>2 DEF LockTypes
<1>6. Types'
  BY <1>1, <1>2, <1>3, <1>5, FirstLevelTypes DEF n
<1>7. ThreadsNext
  BY <1>1, <1>2, <1>3, <1>4, <1>5, FirstLevelThreads
<1> QED
  BY <1>6, <1>7

LEMMA NextLevelThreads ==
    ASSUME Types, LockTypes, ThreadInv, NEW c \in Cores, NextLevel(c)
    PROVE  ThreadsNext
<1> DEFINE n == NodeOf[c]
           o == op[c]
           st == MissStack(n, c, o.a)
           others == DOMAIN st.l1 \ {c}
<1>1. n \in Nodes /\ c \in CoresOf(n) /\ c # "free" /\ op \in [Cores -> Op]
  BY NodeOfCore, CacheAssumption, Zenon DEF Types, ThreadsOK
<1>2. /\ pc[c] = "missed" /\ (LockFree(n) \/ lock[n].ex = c)
      /\ \/ /\ \E r \in Served(o.t, o.a, st, others) : FillAndAccess(n, c, o, r.st, r.dram)
            /\ UNCHANGED waiters
         \/ InitiateDirectoryAccess(n, c, o.t, o.a, Upgrade(st, others, o.a))
      /\ UNCHANGED <<cfg, op, todo, net, dir>>
  BY Zenon DEF NextLevel, MissStack
<1>3. o \in Op /\ o.a \in Addrs /\ o.t # "P"
  BY <1>1, <1>2 DEF ThreadInv, OpInv
<1>4. lock[n].sh = {} /\ lock[n].ex \in {c, "free"}
  BY <1>1, <1>2 DEF LockFree, LockTypes
<1> HIDE DEF st, others
<1>5. CASE /\ \E r \in Served(o.t, o.a, st, others) : FillAndAccess(n, c, o, r.st, r.dram)
           /\ UNCHANGED waiters
  <2>1. \E r : Access(n, c, o, r)
    BY <1>5 DEF FillAndAccess
  <2>2. PICK r : Access(n, c, o, r)
    BY <2>1
  <2>3. op'[c] = o /\ (\A d \in Cores \ {c} : op'[d] = op[d]) /\ net' = net /\ cfg' = cfg
        /\ waiters' = waiters /\ \A d \in Cores : todo'[d] <= cfg.ops[d]
    BY <1>2, <1>5 DEF LockTypes
  <2> HIDE DEF n, o
  <2>4. pc[c] # "waiting" /\ pc[c] # "woken" /\ lock[n].sh \ {c} = {}
    BY <1>2, <1>4
  <2> QED
    BY <1>1, <1>3, <1>4, <2>2, <2>3, <2>4, AccessThreads
<1>6. CASE InitiateDirectoryAccess(n, c, o.t, o.a, Upgrade(st, others, o.a))
  <2> HIDE DEF n
  <2>1. LockTypes' /\ ThreadInv'
    BY <1>1, <1>2, <1>3, <1>6, QueueThreads
  <2> QED
    BY <2>1 DEF ThreadsNext
<1> QED
  BY <1>2, <1>5, <1>6

LEMMA RefillThreads ==
    ASSUME Types, LockTypes, ThreadInv, NEW c \in Cores, Refill(c)
    PROVE  ThreadsNext
<1> DEFINE n == NodeOf[c]
           o == op[c]
<1>1. n \in Nodes /\ c \in CoresOf(n) /\ c # "free" /\ op \in [Cores -> Op]
  BY NodeOfCore, CacheAssumption DEF Types, ThreadsOK
<1>2. /\ pc[c] = "woken" /\ o.t # "P"
      /\ net' = [net EXCEPT ![n].pc = "signalled"]
      /\ FillAndAccess(n, c, o, RefillChecked(n, c, o), dram)
      /\ UNCHANGED <<cfg, op, todo, waiters, plist, dir>>
  BY RefillParts
<1>3. o \in Op /\ o.a \in Addrs
  BY <1>1, <1>2 DEF ThreadInv, OpInv
<1>4. lock[n].sh = {} /\ lock[n].ex \in {c, "free"}
  BY <1>1, <1>2 DEF ThreadInv, NetInv, LockTypes
<1>5. \E r : Access(n, c, o, r)
  BY <1>2 DEF FillAndAccess
<1>6. PICK r : Access(n, c, o, r)
  BY <1>5
<1>7. op'[c] = o /\ (\A d \in Cores \ {c} : op'[d] = op[d]) /\ cfg' = cfg
      /\ waiters' = waiters /\ \A d \in Cores : todo'[d] <= cfg.ops[d]
  BY <1>2 DEF LockTypes
<1> HIDE DEF n, o
<1>8. pc[c] # "waiting" /\ pc[c] = "woken" /\ lock[n].sh \ {c} = {}
  BY <1>2, <1>4
<1> QED
  BY <1>1, <1>2, <1>3, <1>4, <1>6, <1>7, <1>8, AccessThreads

LEMMA PrefetchThreads ==
    ASSUME Types, LockTypes, ThreadInv, NEW c \in Cores, Prefetch(c)
    PROVE  ThreadsNext /\ Types'
<1>1. /\ pc[c] = "prefetch" /\ plist' \in [Nodes -> Seq(Addrs)]
      /\ UNCHANGED <<cfg, stack, lock, waiters, net, todo, toDir, toCache, dirVars, failed>>
      /\ \/ pc' = [pc EXCEPT ![c] = "idle"] /\ op' = op
         \/ \E a \in Addrs : /\ pc' = [pc EXCEPT ![c] = "prefetching"]
                             /\ op' = [op EXCEPT ![c] = [t |-> "P", a |-> a, sig |-> "NONE"]]
  BY PrefetchParts
<1>2. /\ pc \in [Cores -> Control] /\ op \in [Cores -> Op]
  BY DEF Types, ThreadsOK
<1>3. /\ pc'[c] \in {"idle", "prefetching"} /\ \A d \in Cores \ {c} : pc'[d] = pc[d] /\ op'[d] = op[d]
      /\ pc' \in [Cores -> Control] /\ op' \in [Cores -> Op]
      /\ pc'[c] = "prefetching" => op'[c].t = "P" /\ op'[c].a \in Addrs
  <2>1. CASE pc' = [pc EXCEPT ![c] = "idle"] /\ op' = op
    BY <1>2, <2>1 DEF Control
  <2>2. ASSUME NEW a \in Addrs, pc' = [pc EXCEPT ![c] = "prefetching"],
               op' = [op EXCEPT ![c] = [t |-> "P", a |-> a, sig |-> "NONE"]]
        PROVE  /\ pc'[c] = "prefetching" /\ \A d \in Cores \ {c} : pc'[d] = pc[d] /\ op'[d] = op[d]
               /\ pc' \in [Cores -> Control] /\ op' \in [Cores -> Op]
               /\ op'[c].t = "P" /\ op'[c].a \in Addrs
    <3> DEFINE p == [t |-> "P", a |-> a, sig |-> "NONE"]
    <3>1. p \in Op /\ p.t = "P" /\ p.a \in Addrs
      BY DEF Op
    <3>2. op' = [op EXCEPT ![c] = p]
      BY <2>2
    <3> HIDE DEF p
    <3>3. op'[c] = p /\ (\A d \in Cores \ {c} : op'[d] = op[d]) /\ op' \in [Cores -> Op]
      BY <1>2, <3>1, <3>2
    <3> QED
      BY <1>2, <2>2, <3>1, <3>3 DEF Control
  <2> QED
    BY <1>1, <2>1, <2>2
<1>4. Types'
  BY <1>1, <1>3 DEF Types, StacksOK, ThreadsOK, ChannelsOK, dirVars
<1>5. LockTypes'
  BY <1>1, SameLockTypes
<1>6. LockInv'
  BY <1>1, <1>3 DEF ThreadInv, LockInv, CoresOf
<1>7. OpInv'
  BY <1>1, <1>3 DEF ThreadInv, OpInv
<1>8. ASSUME NEW m \in Nodes, NEW a \in Addrs, NEW i \in DOMAIN waiters[m][a], Live(m, a, i)
      PROVE  waiters[m][a][i].c \in Cores \ {c}
  <2>1. waiters[m][a][i].c \in Cores
    BY DEF LockTypes, CoresOf
  <2>2. pc[waiters[m][a][i].c] \in {"waiting", "woken"}
    BY <1>8 DEF ThreadInv, WaiterInv
  <2> QED
    BY <1>1, <2>1, <2>2
<1>9. NetInv'
  <2>1. ASSUME NEW m \in Nodes
        PROVE  /\ net'[m].pc = "idle" <=> net'[m].a = None
               /\ net'[m].pc # "idle" => waiters'[m][net'[m].a] # <<>>
               /\ net'[m].pc = "handoff" => pc'[waiters'[m][net'[m].a][1].c] = "woken"
    <3>1. ASSUME net[m].pc = "handoff"
          PROVE  pc'[waiters[m][net[m].a][1].c] = "woken"
      <4> DEFINE d == waiters[m][net[m].a][1].c
      <4>1. pc[d] = "woken" /\ waiters[m][net[m].a] # <<>> /\ net[m].a # None
        BY <3>1 DEF ThreadInv, NetInv
      <4>2. net[m].a \in Addrs
        BY <4>1 DEF Types, ThreadsOK
      <4>3. waiters[m][net[m].a] \in Seq(Waiter)
        BY <4>2 DEF Types, ThreadsOK
      <4>4. 1 \in DOMAIN waiters[m][net[m].a]
        BY <4>1, <4>3
      <4>5. d \in Cores
        BY <4>2, <4>4 DEF LockTypes, CoresOf
      <4> QED
        BY <1>1, <1>3, <4>1, <4>5
    <3> QED
      BY <1>1, <3>1 DEF ThreadInv, NetInv
  <2>2. ASSUME NEW m \in Nodes, NEW d \in CoresOf(m), pc'[d] = "woken"
        PROVE  lock'[m].ex = d /\ net'[m].pc = "handoff" /\ waiters'[m][net'[m].a][1].c = d
    BY <1>1, <1>3, <2>2 DEF ThreadInv, NetInv, CoresOf
  <2> QED
    BY <2>1, <2>2 DEF NetInv
<1>10. WaiterInv'
  <2>1. ASSUME NEW m \in Nodes, NEW a \in Addrs, NEW i \in DOMAIN waiters[m][a], Live(m, a, i)
        PROVE  LET d == waiters[m][a][i].c IN
               /\ op'[d].a = a /\ (waiters[m][a][i].excl <=> IsWriter(op'[d].t))
               /\ pc'[d] \in {"waiting", "woken"}
               /\ pc'[d] = "woken" => net[m].a = a /\ i = 1
    <3> DEFINE d == waiters[m][a][i].c
    <3>1. op'[d] = op[d] /\ pc'[d] = pc[d]
      BY <1>3, <1>8, <2>1
    <3>2. /\ op[d].a = a /\ (waiters[m][a][i].excl <=> IsWriter(op[d].t))
          /\ pc[d] \in {"waiting", "woken"}
          /\ pc[d] = "woken" => net[m].a = a /\ i = 1
      BY <2>1 DEF ThreadInv, WaiterInv
    <3> QED
      BY <3>1, <3>2
  <2> QED
    BY <1>1, <2>1 DEF ThreadInv, WaiterInv, Live
<1> QED
  BY <1>4, <1>5, <1>6, <1>7, <1>9, <1>10 DEF ThreadsNext, ThreadInv

\* A prefetch that ends gives the exclusive lock up.
LEMMA EndPrefetchThreads ==
    ASSUME Types, LockTypes, ThreadInv, NEW n \in Nodes, NEW c \in CoresOf(n), NEW st, NEW d,
           EndPrefetch(n, c, st, d), LockFree(n) \/ lock[n].ex = c, pc[c] \in {"prefetching", "woken"},
           IF pc[c] = "woken" THEN net' = [net EXCEPT ![n].pc = "signalled"] ELSE net' = net,
           UNCHANGED <<cfg, op, todo, waiters>>
    PROVE  ThreadsNext
<1>1. /\ c \in Cores /\ c # "free" /\ lock[n] \in [sh : SUBSET Cores, ex : Cores \cup {"free"}]
  BY CacheAssumption DEF Types, ThreadsOK, CoresOf
<1>2. lock' = [lock EXCEPT ![n] = Free] /\ pc' = [pc EXCEPT ![c] = "idle"]
  BY DEF EndPrefetch
<1>3. lock[n].sh = {} /\ lock[n].ex \in {c, "free"}
  BY <1>1 DEF LockFree, LockTypes
<1>4. UserLock(n, c, Free, "idle")
  BY <1>1, <1>2, <1>3 DEF UserLock, Free
<1>5. op[c].a \in Addrs
  BY <1>1 DEF ThreadInv, OpInv
<1>6. ThreadInv'
  BY <1>4, <1>5, UserThreads
<1>7. PICK w \in Waiter : w.c \in CoresOf(n)
  <2>1. [c |-> c, excl |-> TRUE] \in Waiter /\ [c |-> c, excl |-> TRUE].c \in CoresOf(n)
    BY <1>1 DEF Waiter
  <2> QED
    BY <2>1
<1>8. LockTypes'
  <2>1. Free.sh = {} /\ Free.ex = "free" /\ \A e \in Cores : todo'[e] <= cfg.ops[e]
    BY DEF Free, LockTypes
  <2> HIDE DEF Free
  <2> QED
    BY <1>2, <1>5, <1>7, <2>1, UserLockTypes
<1> QED
  BY <1>6, <1>8 DEF ThreadsNext

LEMMA DoPrefetchThreads ==
    ASSUME Types, LockTypes, ThreadInv, NEW c \in Cores, DoPrefetch(c)
    PROVE  ThreadsNext
<1> DEFINE n == NodeOf[c]
           a == op[c].a
<1>1. n \in Nodes /\ c \in CoresOf(n)
  BY NodeOfCore
<1>2. /\ pc[c] = "prefetching" /\ LockFree(n) /\ UNCHANGED <<cfg, op, todo, net, dir>>
      /\ \/ DoPrefetchEnds(c)
         \/ /\ Served("P", a, stack[n], CoresOf(n)) = {}
            /\ InitiateDirectoryAccess(n, c, "P", a, Upgrade(stack[n], CoresOf(n), a))
  BY DoPrefetchParts
<1>3. op[c].t = "P" /\ a \in Addrs
  BY <1>2 DEF ThreadInv, OpInv
<1>4. CASE DoPrefetchEnds(c)
  <2>1. PICK r : EndPrefetch(n, c, r.st, r.dram) /\ UNCHANGED <<waiters, plist>>
    BY <1>4 DEF DoPrefetchEnds
  <2> HIDE DEF n
  <2> QED
    BY <1>1, <1>2, <2>1, EndPrefetchThreads
<1>5. CASE InitiateDirectoryAccess(n, c, "P", a, Upgrade(stack[n], CoresOf(n), a))
  <2>1. InitiateDirectoryAccess(n, c, op[c].t, a, Upgrade(stack[n], CoresOf(n), a))
    BY <1>3, <1>5
  <2> HIDE DEF n
  <2>2. LockTypes' /\ ThreadInv'
    BY <1>1, <1>2, <1>3, <2>1, QueueThreads
  <2> QED
    BY <2>2 DEF ThreadsNext
<1> QED
  BY <1>2, <1>4, <1>5

LEMMA RefillPrefetchThreads ==
    ASSUME Types, LockTypes, ThreadInv, NEW c \in Cores, RefillPrefetch(c)
    PROVE  ThreadsNext
<1> DEFINE n == NodeOf[c]
<1>1. n \in Nodes /\ c \in CoresOf(n)
  BY NodeOfCore
<1>2. OpsUsed
  BY DEF ThreadInv, OpInv, OpsUsed
<1>3. /\ pc[c] = "woken" /\ op[c].t = "P" /\ net' = [net EXCEPT ![n].pc = "signalled"]
      /\ UNCHANGED <<cfg, op, todo, waiters, plist, dir>>
      /\ \E r \in Stack(n) : EndPrefetch(n, c, r, dram) /\ PrefetchRefilled(c, r)
  BY <1>2, RefillPrefetchParts
<1>4. PICK r \in Stack(n) : EndPrefetch(n, c, r, dram)
  BY <1>3
<1>5. lock[n].ex = c
  BY <1>1, <1>3 DEF ThreadInv, NetInv
<1> HIDE DEF n
<1> QED
  BY <1>1, <1>3, <1>4, <1>5, EndPrefetchThreads

-----------------------------------------------------------------------------
(* What each step does to the caches *)

\* The L1 of core c is filled from stack st and accessed.
Filled(n, c, o, st) ==
    \E v \in Addrs \cup {None}, r \in Stack(n) :
        v # o.a /\ Copied(n, st, c, o.t, o.a, v, r) /\ Accessed(n, c, o, r)
Replaced(n, r) == stack' = [stack EXCEPT ![n] = r] /\ failed' = r.err
AnyServed(n, st, C, t, a, r) ==
    r.st \in Stack(n) /\ (\/ ServedHit(n, st, C, t, a, r) \/ ServedUpgrade(n, st, C, t, a, r)
                          \/ ServedDirect(n, st, t, a, r))
Queued(n, st, C, t, a) ==
    /\ ~cfg.direct
    /\ \E k \in Stack(n) : Upgraded(n, st, C, a, k) /\ ~Permissible(k.llc[a], t) /\ Initiated(n, t, a, k)

LEMMA FillFacts ==
    ASSUME Types, NEW n \in Nodes, NEW c \in CoresOf(n), NEW o \in Op, o.a \in Addrs,
           NEW st \in Stack(n), NEW d, FillAndAccess(n, c, o, st, d)
    PROVE  Filled(n, c, o, st)
<1>1. PICK v \in Victims(st.l1[c], o.a, L1Ways) :
           Access(n, c, o, CopyDataFromNextLevel(st, c, o.t, o.a, v))
  BY DEF FillAndAccess
<1> DEFINE r == CopyDataFromNextLevel(st, c, o.t, o.a, v)
<1>2. v \in Addrs \cup {None} /\ v # o.a
  BY VictimFacts, CacheAssumption
<1>3. Copied(n, st, c, o.t, o.a, v, r)
  BY <1>2, CopyFacts DEF Types, ThreadsOK
<1>4. Access(n, c, o, r)
  BY <1>1
<1> HIDE DEF r
<1>5. r \in Stack(n)
  BY <1>3 DEF Copied
<1>6. Accessed(n, c, o, r)
  BY <1>4, <1>5, AccessFacts DEF Types, ThreadsOK
<1> QED
  BY <1>2, <1>3, <1>5, <1>6 DEF Filled

FirstLevelData(n, c, o) ==
    IF Permissible(stack[n].l1[c][o.a], o.t)
      THEN Accessed(n, c, o, stack[n])
      ELSE UNCHANGED <<stack, toDir, toCache>> /\ failed' \in {failed, "second half missed"}

LEMMA FirstLevelFacts ==
    ASSUME Types, NEW n \in Nodes, NEW c \in CoresOf(n), NEW o \in Op, o.a \in Addrs,
           FirstLevel(n, c, o)
    PROVE  FirstLevelData(n, c, o)
<1>1. stack[n] \in Stack(n) /\ StacksOK /\ ChannelsOK /\ cfg \in Configs
  BY DEF Types, StacksOK, ThreadsOK
<1>2. CASE Permissible(stack[n].l1[c][o.a], o.t)
  <2>1. Access(n, c, o, stack[n])
    BY <1>2 DEF FirstLevel
  <2>2. Accessed(n, c, o, stack[n])
    BY <1>1, <2>1, AccessFacts
  <2> QED
    BY <1>2, <2>2 DEF FirstLevelData
<1>3. CASE ~Permissible(stack[n].l1[c][o.a], o.t)
  BY <1>3 DEF FirstLevel, FirstLevelData
<1> QED
  BY <1>2, <1>3

\* Unless the directory has to be asked, the LLC serves the request.
LEMMA QueuedFacts ==
    ASSUME Types, NEW n \in Nodes, NEW c, NEW C \in SUBSET CoresOf(n), NEW st \in Stack(n),
           NEW t, NEW a \in Addrs, Served(t, a, st, C) = {},
           InitiateDirectoryAccess(n, c, t, a, Upgrade(st, C, a))
    PROVE  Queued(n, st, C, t, a)
<1> DEFINE k == Upgrade(st, C, a)
<1>1. StacksOK /\ ChannelsOK /\ cfg \in Configs /\ plist \in [Nodes -> Seq(Addrs)]
  BY DEF Types, ThreadsOK
<1>2. Upgraded(n, st, C, a, k) /\ k \in Stack(n)
  <2>1. Upgraded(n, st, C, a, k)
    BY <1>1, UpgradeFacts
  <2> HIDE DEF k
  <2> QED
    BY <2>1 DEF Upgraded
<1>3. ~cfg.direct
  BY <1>1, DirectServes
<1>4. ~Permissible(k.llc[a], t)
  <2>1. CASE Permissible(st.llc[a], t)
    BY <2>1 DEF Served
  <2>2. CASE ~Permissible(st.llc[a], t) /\ Permissible(k.llc[a], t)
    BY <2>2 DEF Served
  <2> QED
    BY <2>1, <2>2
<1>5. InitiateDirectoryAccess(n, c, t, a, k)
  OBVIOUS
<1> HIDE DEF k
<1>6. Initiated(n, t, a, k)
  BY <1>1, <1>2, <1>5, InitiateFacts
<1> QED
  BY <1>2, <1>3, <1>4, <1>6 DEF Queued

\* Core c goes on after its access.
AccessEnds(c, o) ==
    \E p \in Threads : pc' = [pc EXCEPT ![c] = p] /\ (p = "locked" <=> o.sig = "LOCK")

LEMMA EndOfAccess ==
    ASSUME NEW n, NEW c, NEW o, NEW st, Access(n, c, o, st)
    PROVE  AccessEnds(c, o)
<1> DEFINE p == IF o.sig = "LOCK" THEN "locked" ELSE IF cfg.pf THEN "prefetch" ELSE "idle"
<1>1. pc' = [pc EXCEPT ![c] = p]
  BY Zenon DEF Access
<1>2. p \in Threads /\ (p = "locked" <=> o.sig = "LOCK")
  BY DEF Threads
<1> HIDE DEF p
<1> QED
  BY <1>1, <1>2 DEF AccessEnds

NextLevelData(n, c, o) ==
    \E st \in Stack(n) :
        /\ Invalidated(n, stack[n], c, o.a, st)
        /\ \/ /\ \E r : AnyServed(n, st, CoresOf(n) \ {c}, o.t, o.a, r) /\ Filled(n, c, o, r.st)
              /\ AccessEnds(c, o)
           \/ Queued(n, st, CoresOf(n) \ {c}, o.t, o.a) /\ pc' = [pc EXCEPT ![c] = "waiting"]

LEMMA NextLevelFacts ==
    ASSUME Types, NEW c \in Cores, op[c].a \in Addrs, NextLevel(c)
    PROVE  NextLevelData(NodeOf[c], c, op[c])
<1> DEFINE n == NodeOf[c]
           o == op[c]
           st == MissStack(n, c, o.a)
           others == DOMAIN st.l1 \ {c}
<1>1. n \in Nodes /\ c \in CoresOf(n) /\ StacksOK /\ ChannelsOK /\ cfg \in Configs /\ o \in Op /\ o.a \in Addrs
  BY NodeOfCore, Zenon DEF Types, ThreadsOK
<1>2. \/ \E r \in Served(o.t, o.a, st, others) : FillAndAccess(n, c, o, r.st, r.dram)
      \/ /\ Served(o.t, o.a, st, others) = {}
         /\ InitiateDirectoryAccess(n, c, o.t, o.a, Upgrade(st, others, o.a))
  BY Zenon DEF NextLevel, MissStack
<1> HIDE DEF n, o
<1>3. Invalidated(n, stack[n], c, o.a, st)
  BY <1>1, MissStackFacts
<1> HIDE DEF st
<1>4. st \in Stack(n)
  BY <1>3 DEF Invalidated
<1>5. others = CoresOf(n) \ {c}
  BY <1>1, <1>4, StackFields
<1> HIDE DEF others
<1>6. ASSUME NEW r \in Served(o.t, o.a, st, others), FillAndAccess(n, c, o, r.st, r.dram)
      PROVE  AnyServed(n, st, others, o.t, o.a, r) /\ Filled(n, c, o, r.st) /\ AccessEnds(c, o)
  <2>1. AnyServed(n, st, others, o.t, o.a, r)
    BY <1>1, <1>4, <1>5, ServedFacts DEF ChannelsOK, AnyServed
  <2>2. Filled(n, c, o, r.st)
    BY <1>1, <1>6, <2>1, FillFacts DEF AnyServed
  <2>3. AccessEnds(c, o)
    BY <1>6, EndOfAccess DEF FillAndAccess
  <2> QED
    BY <2>1, <2>2, <2>3
<1>7. ASSUME Served(o.t, o.a, st, others) = {},
             InitiateDirectoryAccess(n, c, o.t, o.a, Upgrade(st, others, o.a))
      PROVE  Queued(n, st, others, o.t, o.a) /\ pc' = [pc EXCEPT ![c] = "waiting"]
  <2>1. Queued(n, st, others, o.t, o.a)
    BY <1>1, <1>4, <1>5, <1>7, QueuedFacts
  <2>2. pc' = [pc EXCEPT ![c] = "waiting"]
    BY <1>7 DEF InitiateDirectoryAccess
  <2> QED
    BY <2>1, <2>2
<1>8. NextLevelData(n, c, o)
  BY <1>2, <1>3, <1>4, <1>5, <1>6, <1>7 DEF NextLevelData
<1> QED
  BY <1>8 DEF n, o

RefillData(n, c, o) ==
    \E k \in Stack(n) : RefillStack(n, c, o, k) /\ Filled(n, c, o, k)

LEMMA RefillDataFacts ==
    ASSUME Types, NEW c \in Cores, op[c].a \in Addrs, Refill(c)
    PROVE  RefillData(NodeOf[c], c, op[c])
<1> DEFINE n == NodeOf[c]
           o == op[c]
           k == RefillChecked(n, c, o)
<1>1. n \in Nodes /\ c \in CoresOf(n) /\ StacksOK /\ cfg \in Configs /\ o \in Op /\ o.a \in Addrs
  BY NodeOfCore DEF Types, ThreadsOK
<1>2. FillAndAccess(n, c, o, k, dram)
  BY RefillParts
<1> HIDE DEF n, o
<1>3. RefillStack(n, c, o, k)
  BY <1>1, RefillFacts
<1> HIDE DEF k
<1>4. k \in Stack(n)
  BY <1>3 DEF RefillStack
<1>5. RefillData(n, c, o)
  BY <1>1, <1>2, <1>3, <1>4, FillFacts DEF RefillData
<1> QED
  BY <1>5 DEF n, o

DoPrefetchData(n, a) ==
    \/ \E r : AnyServed(n, stack[n], CoresOf(n), "P", a, r) /\ Replaced(n, r.st)
                 /\ UNCHANGED <<toDir, toCache>>
    \/ Queued(n, stack[n], CoresOf(n), "P", a)

LEMMA DoPrefetchFacts ==
    ASSUME Types, NEW c \in Cores, op[c].a \in Addrs, DoPrefetch(c)
    PROVE  DoPrefetchData(NodeOf[c], op[c].a)
<1> DEFINE n == NodeOf[c]
           a == op[c].a
<1>1. n \in Nodes /\ c \in CoresOf(n) /\ stack[n] \in Stack(n) /\ cfg \in Configs
      /\ a \in Addrs /\ dram \in [Addrs -> BOOLEAN]
  BY NodeOfCore DEF Types, ThreadsOK, StacksOK, ChannelsOK
<1>2. \/ DoPrefetchEnds(c)
      \/ /\ Served("P", a, stack[n], CoresOf(n)) = {}
         /\ InitiateDirectoryAccess(n, c, "P", a, Upgrade(stack[n], CoresOf(n), a))
  BY DoPrefetchParts
<1>3. CASE DoPrefetchEnds(c)
  <2>1. PICK r \in Served("P", a, stack[n], CoresOf(n)) : EndPrefetch(n, c, r.st, r.dram)
    BY <1>3 DEF DoPrefetchEnds
  <2> HIDE DEF n, a
  <2>2. AnyServed(n, stack[n], CoresOf(n), "P", a, r)
    BY <1>1, ServedFacts DEF AnyServed
  <2>3. Replaced(n, r.st) /\ UNCHANGED <<toDir, toCache>>
    BY <2>1 DEF EndPrefetch, Replaced
  <2>4. DoPrefetchData(n, a)
    BY <2>2, <2>3 DEF DoPrefetchData
  <2> QED
    BY <2>4 DEF n, a
<1>4. CASE /\ Served("P", a, stack[n], CoresOf(n)) = {}
           /\ InitiateDirectoryAccess(n, c, "P", a, Upgrade(stack[n], CoresOf(n), a))
  <2> HIDE DEF n, a
  <2>1. Queued(n, stack[n], CoresOf(n), "P", a)
    BY <1>1, <1>4, QueuedFacts
  <2>2. DoPrefetchData(n, a)
    BY <2>1 DEF DoPrefetchData
  <2> QED
    BY <2>2 DEF n, a
<1> QED
  BY <1>2, <1>3, <1>4

-----------------------------------------------------------------------------
(* Every variable keeps its type *)

LEMMA WakeIsControl ==
    ASSUME NEW n, NEW a, NEW st, NEW ws, NEW ms, WakeWaiters(n, a, st, ws, ms),
           UNCHANGED <<cfg, op, todo>>
    PROVE  WakeControl(n, a, ws)
BY DEF WakeWaiters, WakeControl

LEMMA HandleRepThreads ==
    ASSUME Types, LockTypes, ThreadInv, NEW n \in Nodes, HandleRep(n)
    PROVE  ThreadsNext
<1> DEFINE a == Head(toCache[n]).a
           ws == waiters[n][a]
<1>1. /\ net[n].pc = "idle" /\ toCache[n] # <<>> /\ LockFree(n) /\ UNCHANGED <<cfg, op, todo>>
      /\ \E st, ms : WakeWaiters(n, a, st, ws, ms)
  BY DEF HandleRep
<1>2. a \in Addrs
  BY <1>1, HeadOfChannel DEF Types
<1> HIDE DEF a
<1>3. WakeControl(n, a, ws)
  BY <1>1, WakeIsControl
<1>4. LockTypes' /\ ThreadInv'
  BY <1>1, <1>2, <1>3, WakeThreads
<1> QED
  BY <1>4 DEF ThreadsNext

LEMMA ResumeThreads ==
    ASSUME Types, LockTypes, ThreadInv, NEW n \in Nodes, ResumeWaiters(n)
    PROVE  ThreadsNext
<1> DEFINE a == net[n].a
           ws == Tail(waiters[n][a])
<1>1. /\ net[n].pc = "signalled" /\ LockFree(n) /\ UNCHANGED <<cfg, op, todo>>
      /\ WakeWaiters(n, a, stack[n], ws, <<>>)
  BY DEF ResumeWaiters
<1>2. a \in Addrs
  <2>1. a # None
    BY <1>1 DEF ThreadInv, NetInv
  <2> QED
    BY <2>1 DEF Types, ThreadsOK
<1>3. WakeControl(n, a, ws)
  <2> HIDE DEF a, ws
  <2> QED
    BY <1>1, WakeIsControl
<1>4. net[n].pc = "signalled" /\ net[n].a = a /\ ws = Tail(waiters[n][a])
  BY <1>1
<1> HIDE DEF a, ws
<1>5. LockTypes' /\ ThreadInv'
  BY <1>1, <1>2, <1>3, <1>4, WakeThreads
<1> QED
  BY <1>5 DEF ThreadsNext

\* A step that no thread of the model notices.
LEMMA SameThreads ==
    ASSUME LockTypes, ThreadInv, UNCHANGED <<cfg, lock, waiters, net, userVars>>
    PROVE  ThreadsNext
<1>1. LockTypes'
  BY DEF LockTypes, CoresOf, userVars
<1>2. LockInv' /\ OpInv' /\ NetInv'
  BY DEF ThreadInv, LockInv, OpInv, NetInv, CoresOf, userVars
<1>3. WaiterInv'
  BY DEF ThreadInv, WaiterInv, Live, userVars
<1> QED
  BY <1>1, <1>2, <1>3 DEF ThreadsNext, ThreadInv

\* The assertion a step fails is recorded in the stack it works on.
ErrInv == \A n \in Nodes : stack[n].err = "no"
ErrNext == failed' = "no" => ErrInv'

LEMMA ErrOfStep ==
    ASSUME ErrInv, NEW n \in Nodes, \A m \in Nodes \ {n} : stack'[m].err = stack[m].err,
           failed' = stack'[n].err
    PROVE  ErrNext
BY DEF ErrInv, ErrNext

LEMMA FilledErr ==
    ASSUME ErrInv, NEW n \in Nodes, NEW c, NEW o, NEW st, Filled(n, c, o, st)
    PROVE  ErrNext
<1>1. PICK r : Accessed(n, c, o, r)
  BY DEF Filled
<1> QED
  BY <1>1, ErrOfStep DEF Accessed

LEMMA QueuedErr ==
    ASSUME ErrInv, NEW n \in Nodes, NEW st, NEW C, NEW t, NEW a, Queued(n, st, C, t, a)
    PROVE  ErrNext
<1>1. PICK k : Initiated(n, t, a, k)
  BY DEF Queued
<1> QED
  BY <1>1, ErrOfStep DEF Initiated

LEMMA ReplacedErr ==
    ASSUME Types, ErrInv, NEW n \in Nodes, NEW st, Replaced(n, st)
    PROVE  ErrNext
<1>1. stack' = [stack EXCEPT ![n] = st] /\ failed' = st.err
  BY DEF Replaced
<1>2. stack'[n] = st /\ \A m \in Nodes \ {n} : stack'[m] = stack[m]
  BY <1>1 DEF Types, StacksOK
<1> QED
  BY <1>1, <1>2, ErrOfStep

LEMMA UserErr ==
    ASSUME Types, ThreadInv, ErrInv, failed = "no", NEW c \in Cores, UserStep(c)
    PROVE  ErrNext
<1> DEFINE n == NodeOf[c]
<1>1. n \in Nodes /\ c \in CoresOf(n) /\ op \in [Cores -> Op]
  BY NodeOfCore DEF Types, ThreadsOK
<1>2. ASSUME NEW o \in Op, o.a \in Addrs, FirstLevel(n, c, o)
      PROVE  ErrNext
  <2> HIDE DEF n
  <2>1. FirstLevelData(n, c, o)
    BY <1>1, <1>2, FirstLevelFacts
  <2>2. CASE Permissible(stack[n].l1[c][o.a], o.t)
    <3>1. Accessed(n, c, o, stack[n])
      BY <2>1, <2>2 DEF FirstLevelData
    <3> QED
      BY <1>1, <3>1, ErrOfStep DEF Accessed
  <2>3. CASE ~Permissible(stack[n].l1[c][o.a], o.t)
    BY <2>1, <2>3 DEF FirstLevelData, ErrNext, ErrInv
  <2> QED
    BY <2>2, <2>3
<1>3. ASSUME NEW t \in Kinds[c], NEW a \in Addrs, Issue(c, Operation(t, a))
      PROVE  ErrNext
  <2>1. Operation(t, a) \in Op /\ Operation(t, a).a \in Addrs
    <3>1. t \in {"R", "W", "X"}
      BY CacheAssumption
    <3> QED
      BY <3>1 DEF Operation, Op
  <2>2. FirstLevel(n, c, Operation(t, a))
    BY <1>3 DEF Issue
  <2> QED
    BY <1>2, <2>1, <2>2
<1>4. ASSUME pc[c] # "idle"
      PROVE  op[c].a \in Addrs /\ op[c] \in Op
  BY <1>1, <1>4 DEF ThreadInv, OpInv
<1>5. CASE IssueUnlock(c)
  <2> DEFINE o == [t |-> "W", a |-> op[c].a, sig |-> "UNLOCK"]
  <2>1. pc[c] = "locked" /\ FirstLevel(n, c, o)
    BY <1>5 DEF IssueUnlock
  <2>2. o \in Op /\ o.a \in Addrs
    BY <1>4, <2>1 DEF Op
  <2> QED
    BY <1>2, <2>1, <2>2
<1>6. CASE NextLevel(c)
  <2>1. op[c].a \in Addrs
    BY <1>4, <1>6, Zenon DEF NextLevel
  <2>2. NextLevelData(n, c, op[c])
    BY <1>6, <2>1, NextLevelFacts
  <2> HIDE DEF n
  <2>3. \/ \E st : Filled(n, c, op[c], st)
        \/ \E st, C : Queued(n, st, C, op[c].t, op[c].a)
    BY <2>2 DEF NextLevelData
  <2> QED
    BY <1>1, <2>3, FilledErr, QueuedErr, Zenon
<1>7. CASE Refill(c)
  <2>1. op[c].a \in Addrs
    BY <1>4, <1>7 DEF Refill
  <2>2. RefillData(n, c, op[c])
    BY <1>7, <2>1, RefillDataFacts
  <2> HIDE DEF n
  <2>3. \E st : Filled(n, c, op[c], st)
    BY <2>2 DEF RefillData
  <2> QED
    BY <1>1, <2>3, FilledErr
<1>8. CASE Prefetch(c)
  BY <1>8, PrefetchParts DEF ErrNext, ErrInv
<1>9. CASE DoPrefetch(c)
  <2>1. op[c].a \in Addrs
    BY <1>4, <1>9 DEF DoPrefetch
  <2>2. DoPrefetchData(n, op[c].a)
    BY <1>9, <2>1, DoPrefetchFacts
  <2> HIDE DEF n
  <2>3. \/ \E st : Replaced(n, st)
        \/ \E st, C : Queued(n, st, C, "P", op[c].a)
    BY <2>2 DEF DoPrefetchData
  <2> QED
    BY <1>1, <2>3, ReplacedErr, QueuedErr
<1>10. CASE RefillPrefetch(c)
  <2>1. OpsUsed
    BY DEF ThreadInv, OpInv, OpsUsed
  <2>2. PICK r \in Stack(n) : EndPrefetch(n, c, r, dram)
    BY <1>10, <2>1, RefillPrefetchParts
  <2> HIDE DEF n
  <2>3. Replaced(n, r)
    BY <2>2 DEF EndPrefetch, Replaced
  <2> QED
    BY <1>1, <2>3, ReplacedErr
<1> QED
  BY <1>3, <1>5, <1>6, <1>7, <1>8, <1>9, <1>10 DEF UserStep

\* The network thread hands the lock to the first waiter, or is done for now.
WakeOutcome(n, a, st, ws) ==
    IF ws # <<>> /\ ~NeedsUpgrade(ws[1], st.llc[a])
      THEN net' = [net EXCEPT ![n] = [pc |-> "handoff", a |-> a]] /\ pc' = [pc EXCEPT ![ws[1].c] = "woken"]
      ELSE net' = [net EXCEPT ![n] = [pc |-> "idle", a |-> None]] /\ pc' = pc

LEMMA WakeOutcomeFacts ==
    ASSUME NEW n, NEW a, NEW st, NEW ws, NEW ms, WakeWaiters(n, a, st, ws, ms)
    PROVE  WakeOutcome(n, a, st, ws)
BY DEF WakeWaiters, WakeOutcome

\* A reply as the network thread handles it, and the waiters it goes through.
RepData(n) ==
    LET m == Head(toCache[n]) IN
    \E v \in Addrs \cup {None}, r \in Stack(n), k \in Stack(n) :
       /\ v # m.a /\ (m.t = "UPGRADE_REP" => v = None) /\ m.t \in Rep
       /\ Replied(n, stack[n], m, v, r) /\ k.l1 = r.l1 /\ k.llc = r.llc
       /\ k.err = "no" <=> r.err = "no" /\ waiters[n][m.a] # <<>>
       /\ waiters[n][m.a] # <<>> => k.err = r.err
       /\ Woken(n, m.a, k, waiters[n][m.a], EvictMsgs(stack[n], v))
       /\ WakeOutcome(n, m.a, k, waiters[n][m.a])

LEMMA RepDataFacts ==
    ASSUME Types, NEW n \in Nodes, HandleRep(n)
    PROVE  RepData(n)
<1> DEFINE m == Head(toCache[n])
<1>0. cfg \in Configs /\ StacksOK /\ ChannelsOK
  BY DEF Types, ThreadsOK
<1>1. toCache[n] # <<>> /\ m.t \in Rep
  BY DEF HandleRep, Rep
<1>2. m.a \in Addrs
  BY <1>0, <1>1, HeadOfChannel
<1>3. HandledRep(n, m)
  BY <1>0, HandleRepFacts
<1> HIDE DEF m
<1>4. PICK v \in Addrs \cup {None}, r \in Stack(n), k \in Stack(n), ms \in Seq(ToDir) :
       /\ v # m.a /\ (m.t = "UPGRADE_REP" => v = None)
       /\ Replied(n, stack[n], m, v, r) /\ ms = EvictMsgs(stack[n], v)
       /\ k.l1 = r.l1 /\ k.llc = r.llc
       /\ k.err = "no" <=> r.err = "no" /\ waiters[n][m.a] # <<>>
       /\ waiters[n][m.a] # <<>> => k.err = r.err
       /\ WakeWaiters(n, m.a, k, waiters[n][m.a], ms)
  BY <1>3 DEF HandledRep
<1>5. Woken(n, m.a, k, waiters[n][m.a], ms)
  BY <1>0, <1>2, <1>4, WakeFacts
<1>6. WakeOutcome(n, m.a, k, waiters[n][m.a])
  BY <1>4, WakeOutcomeFacts
<1> QED
  BY <1>1, <1>4, <1>5, <1>6 DEF RepData, m

LEMMA ResumeDataFacts ==
    ASSUME Types, NetInv, NEW n \in Nodes, ResumeWaiters(n)
    PROVE  /\ Woken(n, net[n].a, stack[n], Tail(waiters[n][net[n].a]), <<>>)
           /\ WakeOutcome(n, net[n].a, stack[n], Tail(waiters[n][net[n].a]))
<1> DEFINE a == net[n].a
           ws == Tail(waiters[n][a])
<1>1. net[n].pc = "signalled" /\ WakeWaiters(n, a, stack[n], ws, <<>>)
  BY DEF ResumeWaiters
<1>2. a \in Addrs /\ stack[n] \in Stack(n) /\ StacksOK /\ ChannelsOK
  BY <1>1 DEF Types, StacksOK, ThreadsOK, NetInv
<1>3. <<>> \in Seq(ToDir)
  OBVIOUS
<1> HIDE DEF a, ws
<1>4. Woken(n, a, stack[n], ws, <<>>)
  BY <1>1, <1>2, <1>3, WakeFacts
<1>5. WakeOutcome(n, a, stack[n], ws)
  BY <1>1, WakeOutcomeFacts
<1> QED
  BY <1>4, <1>5 DEF a, ws

LEMMA NetErr ==
    ASSUME Types, ThreadInv, ErrInv, failed = "no", NEW n \in Nodes, NetStep(n)
    PROVE  ErrNext
<1>1. CASE HandleRep(n)
  <2>1. \E a, st, ws, ms : Woken(n, a, st, ws, ms)
    BY <1>1, RepDataFacts DEF RepData
  <2> QED
    BY <2>1, ErrOfStep DEF Woken
<1>2. CASE ResumeWaiters(n)
  <2>1. \E a, st, ws, ms : Woken(n, a, st, ws, ms)
    BY <1>2, ResumeDataFacts DEF ThreadInv
  <2> QED
    BY <2>1, ErrOfStep DEF Woken
<1>3. CASE HandleReq(n)
  <2>1. Answered(n, Head(toCache[n]))
    BY <1>3, HandleReqFacts DEF Types, ThreadsOK, ErrInv
  <2> QED
    BY <2>1, ErrOfStep DEF Answered
<1> QED
  BY <1>1, <1>2, <1>3 DEF NetStep

-----------------------------------------------------------------------------
TypeInv == Types /\ LockTypes /\ (failed = "no" => ErrInv /\ ThreadInv)

LEMMA TypeInit == Init => TypeInv
<1> SUFFICES ASSUME Init PROVE TypeInv
  OBVIOUS
<1>1. StacksOK
  <2>1. NoCell \in Cell
    BY DEF NoCell, Cell, States
  <2>2. stack = [n \in Nodes |-> [l1 |-> [c \in CoresOf(n) |-> [a \in Addrs |-> NoCell]],
                                 llc |-> [a \in Addrs |-> NoCell], err |-> "no"]]
    BY DEF Init
  <2> QED
    BY <2>1, <2>2 DEF StacksOK, Stack, Errors
<1>2. ThreadsOK
  <2>1. \A cf \in Configs : cf.ops \in [Cores -> Nat]
    BY CacheAssumption
  <2> QED
    BY <2>1 DEF Init, ThreadsOK, Free, Control, Op, Waiter
<1>3. ChannelsOK
  <2>1. NoEntry \in Entry
    BY DEF NoEntry, Entry
  <2> QED
    BY <2>1 DEF Init, ChannelsOK
<1>4. LockTypes
  <2>1. \A cf \in Configs : cf.ops \in [Cores -> Nat]
    BY CacheAssumption
  <2> QED
    BY <2>1 DEF Init, LockTypes, Free
<1>5. ErrInv
  BY DEF Init, ErrInv
<1>6. LockInv /\ OpInv /\ NetInv
  BY CacheAssumption DEF Init, LockInv, OpInv, NetInv, Free, CoresOf
<1>7. WaiterInv
  BY DEF Init, WaiterInv
<1>8. failed = "no" /\ failed \in Errors
  BY DEF Init, Errors
<1> QED
  BY <1>1, <1>2, <1>3, <1>4, <1>5, <1>6, <1>7, <1>8 DEF TypeInv, Types, ThreadInv

LEMMA TypeNext ==
    ASSUME TypeInv, [Next]_vars
    PROVE  TypeInv'
<1>1. CASE UNCHANGED vars
  <2>1. UNCHANGED <<cfg, stack, lock, waiters, plist, net, pc, op, todo, toDir, toCache, dir, dram, failed>>
    BY <1>1 DEF vars, cacheVars, userVars, dirVars
  <2>2. Types'
    BY <2>1 DEF TypeInv, Types, StacksOK, ThreadsOK, ChannelsOK
  <2>3. LockTypes'
    BY <2>1, SameLockTypes DEF TypeInv
  <2>4. failed' = "no" => ErrInv' /\ ThreadInv'
    BY <2>1, SameThreads DEF TypeInv, ErrInv, ThreadsNext, userVars
  <2> QED
    BY <2>2, <2>3, <2>4 DEF TypeInv
<1> SUFFICES ASSUME Next PROVE TypeInv'
  BY <1>1
<1>2. failed = "no" /\ Types /\ LockTypes /\ ErrInv /\ ThreadInv
  BY DEF Next, TypeInv
<1>3. OpsUsed /\ NetUsed
  <2>1. OpsUsed
    BY <1>2 DEF ThreadInv, OpInv, OpsUsed
  <2>2. NetUsed
    BY <1>2 DEF ThreadInv, NetInv, NetUsed, Types, ThreadsOK
  <2> QED
    BY <2>1, <2>2
<1>4. ASSUME NEW c \in Cores, UserStep(c)
      PROVE  Types' /\ ThreadsNext /\ ErrNext
  <2>0. ErrNext
    BY <1>2, <1>4, UserErr
  <2>1. ASSUME NEW t \in Kinds[c], NEW a \in Addrs, Issue(c, Operation(t, a))
        PROVE  Types' /\ ThreadsNext
    <3>1. t \in {"R", "W", "X"}
      BY CacheAssumption
    <3> QED
      BY <1>2, <2>1, <3>1, IssueThreads
  <2>2. CASE IssueUnlock(c)
    BY <1>2, <2>0, <2>2, IssueUnlockThreads
  <2>3. CASE NextLevel(c)
    BY <1>2, <1>3, <2>0, <2>3, NextLevelThreads, NextLevelTypes
  <2>4. CASE Refill(c)
    BY <1>2, <1>3, <2>0, <2>4, RefillThreads, RefillTypes
  <2>5. CASE Prefetch(c)
    BY <1>2, <2>0, <2>5, PrefetchThreads
  <2>6. CASE DoPrefetch(c)
    BY <1>2, <1>3, <2>0, <2>6, DoPrefetchThreads, DoPrefetchTypes
  <2>7. CASE RefillPrefetch(c)
    BY <1>2, <1>3, <2>0, <2>7, RefillPrefetchThreads, RefillPrefetchTypes
  <2> QED
    BY <1>4, <2>0, <2>1, <2>2, <2>3, <2>4, <2>5, <2>6, <2>7 DEF UserStep
<1>5. ASSUME NEW n \in Nodes, NetStep(n)
      PROVE  Types' /\ ThreadsNext /\ ErrNext
  <2>0. ErrNext
    BY <1>2, <1>5, NetErr
  <2>1. CASE HandleRep(n)
    BY <1>2, <2>0, <2>1, HandleRepThreads, HandleRepTypes
  <2>2. CASE ResumeWaiters(n)
    BY <1>2, <1>3, <2>0, <2>2, ResumeThreads, ResumeTypes
  <2>3. CASE HandleReq(n)
    <3>1. Types'
      BY <1>2, <2>3, HandleReqTypes, Zenon DEF ErrInv
    <3>2. UNCHANGED <<cfg, lock, waiters, net, userVars>>
      BY <2>3, Zenon DEF HandleReq
    <3> QED
      BY <1>2, <2>0, <3>1, <3>2, SameThreads
  <2> QED
    BY <1>5, <2>0, <2>1, <2>2, <2>3 DEF NetStep
<1>6. ASSUME DirStep
      PROVE  Types' /\ ThreadsNext /\ ErrNext
  <2>1. Types'
    BY <1>2, <1>6, DirReceiveTypes, DirAskTypes, DirReplyTypes, Zenon DEF DirStep
  <2>2. UNCHANGED <<cfg, cacheVars, userVars, failed>>
    BY <1>6, Zenon DEF DirStep, DirReceive, DirAsk, DirReply
  <2>3. ThreadsNext
    BY <1>2, <2>2, SameThreads DEF cacheVars
  <2>4. ErrNext
    BY <1>2, <2>2 DEF cacheVars, ErrInv, ErrNext
  <2> QED
    BY <2>1, <2>3, <2>4
<1> QED
  BY <1>4, <1>5, <1>6 DEF Next, TypeInv, ThreadsNext, ErrNext

\* The caches, locks, waiters and channels keep their types, whatever the
\* threads and messages do; the set lock is held shared or exclusively.
THEOREM CacheTypes == Spec => []TypeOK
<1>1. TypeInv => TypeOK
  <2> SUFFICES ASSUME TypeInv PROVE TypeOK
    OBVIOUS
  <2>1. Types /\ LockTypes
    BY DEF TypeInv
  <2>2. ASSUME NEW n \in Nodes
        PROVE  stack[n].l1 \in [CoresOf(n) -> [Addrs -> Cell]] /\ stack[n].llc \in [Addrs -> Cell]
    BY <2>1 DEF Types, StacksOK, Stack
  <2>3. ASSUME NEW n \in Nodes, NEW a \in Addrs, NEW i \in 1 .. Len(waiters[n][a])
        PROVE  waiters[n][a][i] \in [c : CoresOf(n), excl : BOOLEAN]
    <3>1. waiters[n][a] \in Seq(Waiter)
      BY <2>1 DEF Types, ThreadsOK
    <3>2. i \in DOMAIN waiters[n][a] /\ waiters[n][a][i] \in Waiter
      BY <3>1
    <3>3. waiters[n][a][i].c \in CoresOf(n)
      BY <2>1, <3>2 DEF LockTypes
    <3> QED
      BY <3>2, <3>3 DEF Waiter
  <2>4. ASSUME NEW n \in Nodes
        PROVE  /\ \A i \in 1 .. Len(toDir[n]) : toDir[n][i] \in Message
               /\ \A i \in 1 .. Len(toCache[n]) : toCache[n][i] \in Message
    <3>1. toDir[n] \in Seq(ToDir) /\ toCache[n] \in Seq(ToCache)
      BY <2>1 DEF Types, ChannelsOK
    <3>2. \A i \in 1 .. Len(toDir[n]) : toDir[n][i] \in ToDir
      BY <3>1
    <3>3. \A i \in 1 .. Len(toCache[n]) : toCache[n][i] \in ToCache
      BY <3>1
    <3> QED
      BY <3>2, <3>3 DEF ToDir, ToCache
  <2>5. \A c \in Cores : todo[c] \in 0 .. cfg.ops[c]
    <3>1. ASSUME NEW c \in Cores
          PROVE  todo[c] \in Nat /\ cfg.ops[c] \in Nat /\ todo[c] <= cfg.ops[c]
      <4>1. cfg.ops \in [Cores -> Nat]
        BY <2>1, CacheAssumption DEF Types, ThreadsOK
      <4> QED
        BY <2>1, <4>1 DEF Types, ThreadsOK, LockTypes
    <3> QED
      BY <3>1
  <2>6. cfg \in Configs /\ dram \in [Addrs -> BOOLEAN]
        /\ pc \in [Cores -> {"idle", "missed", "waiting", "woken", "locked", "prefetch", "prefetching"}]
    BY <2>1 DEF Types, ThreadsOK, ChannelsOK, Control
  <2>7. \A n \in Nodes : /\ net[n] \in [pc : {"idle", "handoff", "signalled"}, a : Addrs \cup {None}]
                         /\ lock[n].sh \subseteq CoresOf(n) /\ lock[n].ex \in CoresOf(n) \cup {"free"}
                         /\ (lock[n].sh = {} \/ lock[n].ex = "free")
    BY <2>1 DEF Types, ThreadsOK, LockTypes
  <2> QED
    BY <2>2, <2>3, <2>4, <2>5, <2>6, <2>7 DEF TypeOK
<1> QED
  BY <1>1, TypeInit, TypeNext, PTL DEF Spec

-----------------------------------------------------------------------------
(* Inclusion: the L1s of a node and its LLC *)

Included(n, st) == \A x \in Addrs, d \in CoresOf(n) : Order[st.l1[d][x].s] <= Order[st.llc[x].s]
OneDirty(n, st, x) ==
    \A d, e \in CoresOf(n) : st.l1[d][x].s = "M" /\ st.l1[e][x].s = "M" => d = e
\* No L1 of the cores C, or no L1 but that of core c, has line a dirty.
Clean(C, st, a) == \A d \in C : st.l1[d][a].s # "M"
OthersClean(n, st, c, a) == Clean(CoresOf(n) \ {c}, st, a)
\* The caches of a node, but for the lines P that an upgrade has made dirty everywhere.
Sound(n, st, P) == Included(n, st) /\ \A x \in Addrs \ P : OneDirty(n, st, x)

LEMMA OrderFacts ==
    /\ \A s \in States : Order[s] \in 0 .. 3
    /\ Order["I"] = 0 /\ Order["S"] = 1 /\ Order["u"] = 1 /\ Order["E"] = 2 /\ Order["M"] = 3
    /\ \A s \in States : /\ Order[s] <= 0 => s = "I"
                         /\ Order[s] <= 1 => s \in {"I", "S", "u"}
                         /\ Order[s] <= 2 => s # "M"
<1>1. Order["I"] = 0 /\ Order["S"] = 1 /\ Order["u"] = 1 /\ Order["E"] = 2 /\ Order["M"] = 3
  BY DEF Order
<1> QED
  BY <1>1 DEF States

LEMMA SameSound ==
    ASSUME NEW n \in Nodes, NEW st \in Stack(n), NEW r, NEW P, Sound(n, st, P), SameStates(n, st, r)
    PROVE  Sound(n, r, P)
BY DEF Sound, Included, OneDirty, SameStates

LEMMA InvalidatedSound ==
    ASSUME NEW n \in Nodes, NEW st \in Stack(n), NEW r, NEW P, NEW c \in CoresOf(n), NEW a \in Addrs,
           Sound(n, st, P), Invalidated(n, st, c, a, r)
    PROVE  Sound(n, r, P) /\ \A x \in Addrs : r.llc[x].s = st.llc[x].s
<1>1. \A x \in Addrs : st.llc[x].s \in States
  BY StackFields
<1>2. Included(n, r)
  <2>1. ASSUME NEW x \in Addrs, NEW d \in CoresOf(n)
        PROVE  Order[r.l1[d][x].s] <= Order[r.llc[x].s]
    <3>1. r.l1[d][x].s = "I" \/ r.l1[d][x].s = st.l1[d][x].s
      BY DEF Invalidated
    <3>2. r.llc[x].s = st.llc[x].s
      BY DEF Invalidated
    <3> QED
      BY <1>1, <3>1, <3>2, OrderFacts DEF Sound, Included
  <2> QED
    BY <2>1 DEF Included
<1>3. ASSUME NEW x \in Addrs \ P
      PROVE  OneDirty(n, r, x)
  BY DEF Sound, OneDirty, Invalidated
<1> QED
  BY <1>2, <1>3 DEF Sound, Invalidated

LEMMA HitSound ==
    ASSUME NEW n \in Nodes, NEW st \in Stack(n), NEW r, NEW P, NEW C \in SUBSET CoresOf(n), NEW t,
           NEW a \in Addrs, Sound(n, st, P), HitServed(n, st, C, t, a, r)
    PROVE  /\ Sound(n, r, P) /\ \A x \in Addrs : r.llc[x].s = st.llc[x].s
           /\ Permissible(st.llc[a], t) => Clean(C, r, a)
<1>1. /\ \A x \in Addrs : st.llc[x].s \in States
      /\ \A d \in CoresOf(n), x \in Addrs : st.l1[d][x].s \in States
  BY StackFields
<1>2. /\ \A x \in Addrs : r.llc[x].s = st.llc[x].s
      /\ \A d \in CoresOf(n), x \in Addrs :
          r.l1[d][x].s = IF d \in C /\ x = a /\ st.l1[d][x].s # "I"
                           THEN IF IsWriter(t) THEN "I"
                                ELSE IF st.llc[a].s \in {"M", "E"} THEN "S"
                                ELSE st.l1[d][x].s
                           ELSE st.l1[d][x].s
  BY DEF HitServed
<1>3. Included(n, r)
  <2>1. ASSUME NEW x \in Addrs, NEW d \in CoresOf(n)
        PROVE  Order[r.l1[d][x].s] <= Order[r.llc[x].s]
    <3>1. Order[st.l1[d][x].s] <= Order[st.llc[x].s] /\ r.llc[x].s = st.llc[x].s
      BY <1>2 DEF Sound, Included
    <3>2. \/ r.l1[d][x].s = st.l1[d][x].s
          \/ r.l1[d][x].s = "I"
          \/ r.l1[d][x].s = "S" /\ st.llc[x].s \in {"M", "E"}
      BY <1>2
    <3> QED
      BY <1>1, <3>1, <3>2, OrderFacts
  <2> QED
    BY <2>1 DEF Included
<1>4. ASSUME NEW x \in Addrs \ P
      PROVE  OneDirty(n, r, x)
  <2>1. \A d \in CoresOf(n) : r.l1[d][x].s = "M" => st.l1[d][x].s = "M"
    BY <1>2
  <2> QED
    BY <2>1 DEF Sound, OneDirty
<1>5. ASSUME Permissible(st.llc[a], t), NEW d \in C
      PROVE  r.l1[d][a].s # "M"
  <2>1. d \in CoresOf(n) /\ Order[st.l1[d][a].s] <= Order[st.llc[a].s]
    BY DEF Sound, Included
  <2>2. CASE IsWriter(t)
    BY <1>2, <2>1, <2>2
  <2>3. CASE ~IsWriter(t) /\ st.llc[a].s \in {"M", "E"}
    BY <1>2, <2>1, <2>3
  <2>4. CASE ~IsWriter(t) /\ st.llc[a].s \notin {"M", "E"}
    <3>1. st.llc[a].s = "S"
      BY <1>5, <2>4 DEF Permissible, IsWriter
    <3> QED
      BY <1>1, <1>2, <2>1, <2>4, <3>1, OrderFacts
  <2> QED
    BY <2>2, <2>3, <2>4
<1> QED
  BY <1>2, <1>3, <1>4, <1>5 DEF Sound, Clean

LEMMA UpgradedSound ==
    ASSUME NEW n \in Nodes, NEW st \in Stack(n), NEW r, NEW P, NEW C \in SUBSET CoresOf(n), NEW t,
           NEW a \in Addrs, Sound(n, st, P), Upgraded(n, st, C, a, r)
    PROVE  /\ Sound(n, r, P)
           /\ \A x \in Addrs : st.llc[x].s \in {"S", "E", "M"} => r.llc[x].s \in {"S", "E", "M"}
           /\ \A x \in Addrs : r.llc[x].s = "I" <=> st.llc[x].s = "I"
           /\ ~Permissible(st.llc[a], t) /\ Permissible(r.llc[a], t) => Clean(C, r, a)
<1>1. /\ \A x \in Addrs : st.llc[x].s \in States
      /\ \A d \in CoresOf(n), x \in Addrs : st.l1[d][x].s \in States
  BY StackFields
<1>2. /\ r.llc[a].s = st.llc[a].s \/ (r.llc[a].s = "M" /\ st.llc[a].s # "I")
      /\ \A x \in Addrs : x # a => r.llc[x].s = st.llc[x].s
      /\ \A d \in CoresOf(n), x \in Addrs :
          r.l1[d][x].s = IF d \in C /\ x = a /\ st.llc[a].s \in {"S", "E"} THEN "I"
                         ELSE st.l1[d][x].s
  BY DEF Upgraded
<1>3. Included(n, r)
  <2>1. ASSUME NEW x \in Addrs, NEW d \in CoresOf(n)
        PROVE  Order[r.l1[d][x].s] <= Order[r.llc[x].s]
    <3>1. Order[st.l1[d][x].s] <= Order[st.llc[x].s]
      BY DEF Sound, Included
    <3>2. r.l1[d][x].s = st.l1[d][x].s \/ r.l1[d][x].s = "I"
      BY <1>2
    <3>3. r.llc[x].s = st.llc[x].s \/ r.llc[x].s = "M"
      BY <1>2
    <3> QED
      BY <1>1, <3>1, <3>2, <3>3, OrderFacts
  <2> QED
    BY <2>1 DEF Included
<1>4. ASSUME NEW x \in Addrs \ P
      PROVE  OneDirty(n, r, x)
  <2>1. \A d \in CoresOf(n) : r.l1[d][x].s = "M" => st.l1[d][x].s = "M"
    BY <1>2
  <2> QED
    BY <2>1 DEF Sound, OneDirty
<1>5. ASSUME ~Permissible(st.llc[a], t), Permissible(r.llc[a], t), NEW d \in C
      PROVE  r.l1[d][a].s # "M"
  <2>1. d \in CoresOf(n) /\ Order[st.l1[d][a].s] <= Order[st.llc[a].s]
    BY DEF Sound, Included
  <2>2. CASE st.llc[a].s \in {"S", "E"}
    BY <1>2, <2>1, <2>2
  <2>3. CASE st.llc[a].s \in {"I", "u"}
    BY <1>1, <1>2, <2>1, <2>3, OrderFacts
  <2>4. st.llc[a].s # "M"
    BY <1>5 DEF Permissible
  <2> QED
    BY <1>1, <2>2, <2>3, <2>4 DEF States
<1>6. \A x \in Addrs : /\ r.llc[x].s = "I" <=> st.llc[x].s = "I"
                       /\ st.llc[x].s \in {"S", "E", "M"} => r.llc[x].s \in {"S", "E", "M"}
  BY <1>2
<1> QED
  BY <1>3, <1>4, <1>5, <1>6 DEF Sound, Clean

LEMMA InsertedSound ==
    ASSUME NEW n \in Nodes, NEW st \in Stack(n), NEW r, NEW P, NEW a \in Addrs, NEW cell \in Cell,
           NEW v \in Addrs \cup {None}, v # a, Sound(n, st, P), InsertedLLC(n, st, a, cell, v, r),
           st.llc[a].s = "I"
    PROVE  Sound(n, r, P) /\ r.llc[a].s = cell.s /\ \A d \in CoresOf(n) : r.l1[d][a].s = "I"
<1>1. /\ \A x \in Addrs : st.llc[x].s \in States /\ cell.s \in States
      /\ \A d \in CoresOf(n), x \in Addrs : st.l1[d][x].s \in States
  BY StackFields DEF Cell
<1>2. /\ \A x \in Addrs : r.llc[x].s = IF x = a THEN cell.s ELSE IF x = v THEN "I" ELSE st.llc[x].s
      /\ \A d \in CoresOf(n), x \in Addrs : r.l1[d][x].s = IF x = v THEN "I" ELSE st.l1[d][x].s
  BY DEF InsertedLLC
<1>3. \A d \in CoresOf(n) : st.l1[d][a].s = "I"
  <2>1. ASSUME NEW d \in CoresOf(n)
        PROVE  st.l1[d][a].s = "I"
    <3>1. Order[st.l1[d][a].s] <= Order["I"]
      BY DEF Sound, Included
    <3> QED
      BY <1>1, <3>1, OrderFacts
  <2> QED
    BY <2>1
<1>4. \A d \in CoresOf(n) : r.l1[d][a].s = "I"
  BY <1>2, <1>3
<1>5. Included(n, r)
  <2>1. ASSUME NEW x \in Addrs, NEW d \in CoresOf(n)
        PROVE  Order[r.l1[d][x].s] <= Order[r.llc[x].s]
    <3>1. CASE x = a \/ x = v
      <4>1. r.l1[d][x].s = "I" /\ r.llc[x].s \in States
        BY <1>1, <1>2, <1>4, <3>1 DEF States
      <4> QED
        BY <4>1, OrderFacts
    <3>2. CASE x # a /\ x # v
      BY <1>2, <3>2 DEF Sound, Included
    <3> QED
      BY <3>1, <3>2
  <2> QED
    BY <2>1 DEF Included
<1>6. ASSUME NEW x \in Addrs \ P
      PROVE  OneDirty(n, r, x)
  <2>1. \A d \in CoresOf(n) : r.l1[d][x].s = "M" => st.l1[d][x].s = "M"
    BY <1>2
  <2> QED
    BY <2>1 DEF Sound, OneDirty
<1> QED
  BY <1>2, <1>4, <1>5, <1>6 DEF Sound

\* The L1 takes the LLC's state: it may be dirty if no other one is.
LEMMA CopiedSound ==
    ASSUME NEW n \in Nodes, NEW st \in Stack(n), NEW r, NEW P, NEW c \in CoresOf(n), NEW t,
           NEW a \in Addrs, NEW v \in Addrs \cup {None}, Sound(n, st, P),
           OthersClean(n, st, c, a), Copied(n, st, c, t, a, v, r)
    PROVE  Sound(n, r, P \ {a}) /\ \A x \in Addrs : r.llc[x].s = st.llc[x].s
<1>1. /\ \A x \in Addrs : st.llc[x].s \in States
      /\ \A d \in CoresOf(n), x \in Addrs : st.l1[d][x].s \in States
  BY StackFields
<1>2. /\ \A x \in Addrs : r.llc[x].s = st.llc[x].s
      /\ \A d \in CoresOf(n), x \in Addrs :
          r.l1[d][x].s = IF d # c THEN st.l1[d][x].s
                         ELSE IF x = a THEN st.llc[a].s
                         ELSE IF x = v THEN "I" ELSE st.l1[d][x].s
  BY DEF Copied
<1>3. Included(n, r)
  <2>1. ASSUME NEW x \in Addrs, NEW d \in CoresOf(n)
        PROVE  Order[r.l1[d][x].s] <= Order[r.llc[x].s]
    <3>1. Order[st.l1[d][x].s] <= Order[st.llc[x].s] /\ r.llc[x].s = st.llc[x].s
      BY <1>2 DEF Sound, Included
    <3>2. \/ r.l1[d][x].s = st.l1[d][x].s
          \/ r.l1[d][x].s = "I"
          \/ r.l1[d][x].s = st.llc[x].s
      BY <1>2
    <3> QED
      BY <1>1, <3>1, <3>2, OrderFacts
  <2> QED
    BY <2>1 DEF Included
<1>4. ASSUME NEW x \in Addrs \ (P \ {a})
      PROVE  OneDirty(n, r, x)
  <2>1. CASE x = a
    BY <1>2, <2>1 DEF OneDirty, OthersClean, Clean
  <2>2. CASE x # a
    <3>1. \A d \in CoresOf(n) : r.l1[d][x].s = "M" => st.l1[d][x].s = "M"
      BY <1>2, <2>2
    <3> QED
      BY <2>2, <3>1 DEF Sound, OneDirty
  <2> QED
    BY <2>1, <2>2
<1> QED
  BY <1>2, <1>3, <1>4 DEF Sound

\* The directory takes rights away.
LEMMA UpdatedSound ==
    ASSUME NEW n \in Nodes, NEW st \in Stack(n), NEW r, NEW P, NEW a \in Addrs, NEW new \in {"I", "S"},
           NEW wants, Sound(n, st, P), UpdatedLLC(n, st, a, new, wants, r)
    PROVE  Sound(n, r, P)
<1>1. /\ \A x \in Addrs : st.llc[x].s \in States
      /\ \A d \in CoresOf(n), x \in Addrs : st.l1[d][x].s \in States
  BY StackFields
<1>2. /\ \A x \in Addrs : r.llc[x].s = IF x = a /\ st.llc[a].s # "I" THEN new ELSE st.llc[x].s
      /\ \A d \in CoresOf(n), x \in Addrs :
          r.l1[d][x].s = IF x = a /\ st.l1[d][a].s # "I" THEN new ELSE st.l1[d][x].s
  BY DEF UpdatedLLC
<1>3. Included(n, r)
  <2>1. ASSUME NEW x \in Addrs, NEW d \in CoresOf(n)
        PROVE  Order[r.l1[d][x].s] <= Order[r.llc[x].s]
    <3>1. Order[st.l1[d][x].s] <= Order[st.llc[x].s]
      BY DEF Sound, Included
    <3>2. CASE x # a
      BY <1>2, <3>1, <3>2
    <3>3. CASE x = a /\ st.l1[d][a].s = "I"
      <4>1. r.l1[d][x].s = "I" /\ r.llc[x].s \in States
        BY <1>1, <1>2, <3>3 DEF States
      <4> QED
        BY <4>1, OrderFacts
    <3>4. CASE x = a /\ st.l1[d][a].s # "I"
      <4>1. st.llc[a].s # "I"
        BY <1>1, <3>1, <3>4, OrderFacts
      <4>2. r.l1[d][x].s = new /\ r.llc[x].s = new
        BY <1>2, <3>4, <4>1
      <4> QED
        BY <4>2, OrderFacts
    <3> QED
      BY <3>2, <3>3, <3>4
  <2> QED
    BY <2>1 DEF Included
<1>4. ASSUME NEW x \in Addrs \ P
      PROVE  OneDirty(n, r, x)
  <2>1. \A d \in CoresOf(n) : r.l1[d][x].s = "M" => st.l1[d][x].s = "M"
    BY <1>2
  <2> QED
    BY <2>1 DEF Sound, OneDirty
<1> QED
  BY <1>3, <1>4 DEF Sound

\* The line of which an upgrade has made every copy of the node dirty.
Exempt(n) == IF net[n].pc = "handoff" THEN {net[n].a} ELSE {}
\* The network thread goes through the waiters of a line the LLC has.
Present(n) == net[n].pc # "idle" => stack[n].llc[net[n].a].s \in {"S", "E", "M"}
\* A writer is woken when its line may be written.
Granted(n) == \A c \in CoresOf(n) : pc[c] = "woken" /\ IsWriter(op[c].t)
                                       => stack[n].llc[op[c].a].s \in {"E", "M"}
NodeInv(n) == Sound(n, stack[n], Exempt(n)) /\ Present(n) /\ Granted(n)
InclusionInv == \A n \in Nodes : NodeInv(n)
\* With direct DRAM access nothing is ever sent.
DirectInv ==
    cfg.direct => /\ \A n \in Nodes : toDir[n] = <<>> /\ toCache[n] = <<>> /\ net[n].pc = "idle"
                  /\ \A a \in Addrs : dir[a].q = <<>>

\* A node whose lines and network thread a step leaves alone.
LEMMA OtherNode ==
    ASSUME Types, ThreadInv, NEW m \in Nodes, NodeInv(m), SameStates(m, stack[m], stack'[m]),
           net'[m] = net[m], \A d \in CoresOf(m) : pc'[d] = "woken" => pc[d] = "woken" /\ op'[d] = op[d]
    PROVE  NodeInv(m)'
<1>1. stack[m] \in Stack(m) /\ \A x \in Addrs : stack'[m].llc[x].s = stack[m].llc[x].s
  BY DEF Types, StacksOK, SameStates
<1>2. Sound(m, stack'[m], Exempt(m))
  BY <1>1, SameSound DEF NodeInv
<1>3. Sound(m, stack[m], Exempt(m))'
  BY <1>2 DEF Sound, Included, OneDirty, Exempt, CoresOf
<1>4. Present(m)'
  <2>1. net[m].pc # "idle" => net[m].a \in Addrs
    BY DEF ThreadInv, NetInv, Types, ThreadsOK
  <2> QED
    BY <1>1, <2>1 DEF NodeInv, Present
<1>5. Granted(m)'
  <2>1. ASSUME NEW d \in CoresOf(m), pc'[d] = "woken", IsWriter(op'[d].t)
        PROVE  stack'[m].llc[op'[d].a].s \in {"E", "M"}
    <3>1. d \in Cores /\ pc[d] = "woken" /\ op'[d] = op[d]
      BY <2>1 DEF CoresOf
    <3>2. op[d].a \in Addrs
      BY <3>1 DEF ThreadInv, OpInv
    <3> QED
      BY <1>1, <2>1, <3>1, <3>2 DEF NodeInv, Granted
  <2> QED
    BY <2>1 DEF Granted, CoresOf, IsWriter
<1> QED
  BY <1>3, <1>4, <1>5 DEF NodeInv

LEMMA SameIsSame ==
    ASSUME Types, NEW m \in Nodes, stack'[m] = stack[m]
    PROVE  SameStates(m, stack[m], stack'[m])
BY DEF SameStates, Types, StacksOK

\* Nobody of the node is woken while another thread may take its lock.
LEMMA NoneWoken ==
    ASSUME Types, LockTypes, ThreadInv, NEW n \in Nodes, NEW c \in CoresOf(n),
           LockFree(n) \/ (lock[n].ex = c /\ pc[c] # "woken")
    PROVE  (\A d \in CoresOf(n) : pc[d] # "woken") /\ net[n].pc # "handoff" /\ Exempt(n) = {}
<1>1. ASSUME NEW d \in CoresOf(n)
      PROVE  pc[d] # "woken"
  <2>1. d # "free"
    BY CacheAssumption DEF CoresOf
  <2> QED
    BY <2>1 DEF ThreadInv, NetInv, LockFree
<1>2. ASSUME net[n].pc = "handoff"
      PROVE  FALSE
  <2> DEFINE q == waiters[n][net[n].a]
  <2>1. net[n].a \in Addrs /\ q # <<>> /\ pc[q[1].c] = "woken"
    BY <1>2 DEF ThreadInv, NetInv, Types, ThreadsOK
  <2>2. q \in Seq(Waiter)
    BY <2>1 DEF Types, ThreadsOK
  <2>3. 1 \in DOMAIN q
    BY <2>1, <2>2
  <2>4. q[1].c \in CoresOf(n)
    BY <2>1, <2>3 DEF LockTypes
  <2> QED
    BY <1>1, <2>1, <2>4
<1> QED
  BY <1>1, <1>2 DEF Exempt

\* What is left to show of the node of a step that wakes nobody.
LEMMA UserNode ==
    ASSUME NEW n \in Nodes, Sound(n, stack'[n], {}), net'[n].pc # "handoff",
           net'[n].pc # "idle" => stack'[n].llc[net'[n].a].s \in {"S", "E", "M"},
           \A d \in CoresOf(n) : pc'[d] # "woken"
    PROVE  NodeInv(n)'
<1>1. Exempt(n)' = {}
  BY DEF Exempt
<1>2. Sound(n, stack[n], Exempt(n))'
  BY <1>1 DEF Sound, Included, OneDirty, CoresOf
<1>3. Present(n)' /\ Granted(n)'
  BY DEF Present, Granted, CoresOf
<1> QED
  BY <1>2, <1>3 DEF NodeInv

\* A stack after the fill and the access of core c.
LEMMA FilledSound ==
    ASSUME Types, NEW n \in Nodes, NEW c \in CoresOf(n), NEW o, o.a \in Addrs, NEW st \in Stack(n), NEW P,
           Sound(n, st, P), OthersClean(n, st, c, o.a), Filled(n, c, o, st)
    PROVE  /\ Sound(n, stack'[n], P \ {o.a}) /\ \A x \in Addrs : stack'[n].llc[x].s = st.llc[x].s
           /\ \A m \in Nodes \ {n} : SameStates(m, stack[m], stack'[m])
           /\ failed' = "no" => st.err = "no"
<1>1. PICK v \in Addrs \cup {None}, r \in Stack(n) :
           Copied(n, st, c, o.t, o.a, v, r) /\ Accessed(n, c, o, r)
  BY DEF Filled
<1>2. Sound(n, r, P \ {o.a}) /\ \A x \in Addrs : r.llc[x].s = st.llc[x].s
  BY <1>1, CopiedSound, ZenonT(30)
<1>3. SameStates(n, r, stack'[n]) /\ \A m \in Nodes \ {n} : SameStates(m, stack[m], stack'[m])
  BY <1>1 DEF Accessed
<1>4. Sound(n, stack'[n], P \ {o.a})
  BY <1>1, <1>2, <1>3, SameSound
<1>5. \A x \in Addrs : stack'[n].llc[x].s = st.llc[x].s
  BY <1>2, <1>3 DEF SameStates
<1>6. failed' = "no" => st.err = "no"
  BY <1>1 DEF Accessed, Copied
<1> QED
  BY <1>3, <1>4, <1>5, <1>6

\* A stack whose LLC serves a request.
LEMMA ServedSound ==
    ASSUME NEW n \in Nodes, NEW st \in Stack(n), NEW C \in SUBSET CoresOf(n), NEW t, NEW a \in Addrs,
           NEW r, NEW P, Sound(n, st, P), AnyServed(n, st, C, t, a, r)
    PROVE  /\ Sound(n, r.st, P) /\ Clean(C, r.st, a)
           /\ \/ cfg.direct
              \/ \A x \in Addrs : st.llc[x].s \in {"S", "E", "M"} => r.st.llc[x].s \in {"S", "E", "M"}
<1>1. CASE ServedHit(n, st, C, t, a, r)
  <2>1. PICK k \in Stack(n) : k = r.st
    BY DEF AnyServed
  <2>2. Permissible(st.llc[a], t) /\ HitServed(n, st, C, t, a, k)
    BY <1>1, <2>1 DEF ServedHit
  <2>3. /\ Sound(n, k, P) /\ \A x \in Addrs : k.llc[x].s = st.llc[x].s
        /\ Permissible(st.llc[a], t) => Clean(C, k, a)
    BY <2>2, HitSound
  <2> QED
    BY <2>1, <2>2, <2>3
<1>2. CASE ServedUpgrade(n, st, C, t, a, r)
  <2>1. PICK k \in Stack(n) : k = r.st
    BY DEF AnyServed
  <2>2. ~Permissible(st.llc[a], t) /\ Upgraded(n, st, C, a, k) /\ Permissible(k.llc[a], t)
    BY <1>2, <2>1 DEF ServedUpgrade
  <2>3. /\ Sound(n, k, P)
        /\ \A x \in Addrs : st.llc[x].s \in {"S", "E", "M"} => k.llc[x].s \in {"S", "E", "M"}
        /\ ~Permissible(st.llc[a], t) /\ Permissible(k.llc[a], t) => Clean(C, k, a)
    BY <2>2, UpgradedSound
  <2> QED
    BY <2>1, <2>2, <2>3
<1>3. CASE ServedDirect(n, st, t, a, r)
  <2>1. cfg.direct /\ st.llc[a].s = "I"
    BY <1>3 DEF ServedDirect
  <2>2. PICK v \in Addrs \cup {None}, cell \in Cell : v # a /\ InsertedLLC(n, st, a, cell, v, r.st)
    BY <1>3 DEF ServedDirect
  <2>3. Sound(n, r.st, P) /\ \A d \in CoresOf(n) : r.st.l1[d][a].s = "I"
    BY <2>1, <2>2, InsertedSound
  <2> QED
    BY <2>1, <2>3 DEF Clean
<1> QED
  BY <1>1, <1>2, <1>3 DEF AnyServed

\* A stack whose request is queued for the directory.
LEMMA QueuedSound ==
    ASSUME Types, NEW n \in Nodes, NEW st \in Stack(n), NEW C \in SUBSET CoresOf(n), NEW t, NEW a \in Addrs,
           NEW P, Sound(n, st, P), Queued(n, st, C, t, a)
    PROVE  /\ Sound(n, stack'[n], P) /\ \A m \in Nodes \ {n} : stack'[m] = stack[m]
           /\ \A x \in Addrs : st.llc[x].s \in {"S", "E", "M"} /\ waiters[n][x] # <<>>
                 => stack'[n].llc[x].s \in {"S", "E", "M"}
<1>1. PICK k \in Stack(n) : Upgraded(n, st, C, a, k) /\ Initiated(n, t, a, k)
  BY DEF Queued
<1>2. /\ Sound(n, k, P)
      /\ \A x \in Addrs : st.llc[x].s \in {"S", "E", "M"} => k.llc[x].s \in {"S", "E", "M"}
  BY <1>1, UpgradedSound
<1>3. /\ \A m \in Nodes \ {n} : stack'[m] = stack[m]
      /\ stack'[n].l1 = k.l1
      /\ stack'[n].llc[a].s = IF Sends(n, t, a, k) THEN "u" ELSE k.llc[a].s
      /\ \A x \in Addrs \ {a} : stack'[n].llc[x].s = k.llc[x].s
  BY <1>1 DEF Initiated
<1>4. Sends(n, t, a, k) => k.llc[a].s = "S" /\ waiters[n][a] = <<>>
  BY DEF Sends, FirstWaiter
<1>5. Included(n, stack'[n])
  <2>1. ASSUME NEW x \in Addrs, NEW d \in CoresOf(n)
        PROVE  Order[stack'[n].l1[d][x].s] <= Order[stack'[n].llc[x].s]
    <3>1. Order[k.l1[d][x].s] <= Order[k.llc[x].s] /\ stack'[n].l1[d][x].s = k.l1[d][x].s
      BY <1>2, <1>3 DEF Sound, Included
    <3>2. \/ stack'[n].llc[x].s = k.llc[x].s
          \/ stack'[n].llc[x].s = "u" /\ k.llc[x].s = "S"
      BY <1>3, <1>4
    <3> QED
      BY <3>1, <3>2, OrderFacts
  <2> QED
    BY <2>1 DEF Included
<1>6. ASSUME NEW x \in Addrs \ P
      PROVE  OneDirty(n, stack'[n], x)
  BY <1>2, <1>3 DEF Sound, OneDirty
<1>7. ASSUME NEW x \in Addrs, st.llc[x].s \in {"S", "E", "M"}, waiters[n][x] # <<>>
      PROVE  stack'[n].llc[x].s \in {"S", "E", "M"}
  <2>1. k.llc[x].s \in {"S", "E", "M"}
    BY <1>2, <1>7
  <2>2. x # a \/ ~Sends(n, t, a, k)
    BY <1>4, <1>7
  <2> QED
    BY <1>3, <2>1, <2>2
<1> QED
  BY <1>3, <1>5, <1>6, <1>7 DEF Sound

\* No thread but those that were woken already is woken.
NobodyWoken(c) == \A d \in Cores : pc'[d] = "woken" => d # c /\ pc[d] = "woken" /\ op'[d] = op[d]
OthersSame(n) == \A m \in Nodes \ {n} : SameStates(m, stack[m], stack'[m]) /\ net'[m] = net[m]

\* The inclusion invariant after a step that touches the lines of node n only.
LEMMA InclusionFromNode ==
    ASSUME Types, ThreadInv, InclusionInv, NEW n \in Nodes, OthersSame(n), NodeInv(n)',
           \A d \in Cores \ CoresOf(n) : pc'[d] = "woken" => pc[d] = "woken" /\ op'[d] = op[d]
    PROVE  InclusionInv'
<1>1. ASSUME NEW m \in Nodes \ {n}
      PROVE  NodeInv(m)'
  <2>1. NodeInv(m) /\ SameStates(m, stack[m], stack'[m]) /\ net'[m] = net[m]
    BY DEF InclusionInv, OthersSame
  <2>2. \A d \in CoresOf(m) : pc'[d] = "woken" => pc[d] = "woken" /\ op'[d] = op[d]
    BY DEF CoresOf
  <2> QED
    BY <2>1, <2>2, OtherNode
<1>2. \A m \in Nodes : NodeInv(m)'
  BY <1>1
<1> QED
  BY <1>2 DEF InclusionInv

LEMMA InclusionFromSame ==
    ASSUME Types, ThreadInv, InclusionInv, NEW c, NobodyWoken(c), net' = net,
           \A m \in Nodes : SameStates(m, stack[m], stack'[m])
    PROVE  InclusionInv'
<1>1. ASSUME NEW m \in Nodes
      PROVE  NodeInv(m)'
  <2>1. NodeInv(m) /\ SameStates(m, stack[m], stack'[m]) /\ net'[m] = net[m]
    BY DEF InclusionInv
  <2>2. \A d \in CoresOf(m) : pc'[d] = "woken" => pc[d] = "woken" /\ op'[d] = op[d]
    BY DEF CoresOf, NobodyWoken
  <2> QED
    BY <2>1, <2>2, OtherNode
<1> QED
  BY <1>1 DEF InclusionInv

LEMMA UserWakesNobody ==
    ASSUME Types, NEW c \in Cores, UserStep(c)
    PROVE  NobodyWoken(c)
<1>1. /\ pc \in [Cores -> Control] /\ op \in [Cores -> Op]
  BY DEF Types, ThreadsOK
<1>2. ASSUME NEW p, pc' = [pc EXCEPT ![c] = p], p # "woken", NEW o, op' = op \/ op' = [op EXCEPT ![c] = o]
      PROVE  NobodyWoken(c)
  BY <1>1, <1>2 DEF NobodyWoken
<1>3. ASSUME NEW n, NEW o, NEW st, Access(n, c, o, st), NEW q, op' = op \/ op' = [op EXCEPT ![c] = q]
      PROVE  NobodyWoken(c)
  <2> DEFINE p == IF o.sig = "LOCK" THEN "locked" ELSE IF cfg.pf THEN "prefetch" ELSE "idle"
  <2>1. pc' = [pc EXCEPT ![c] = p]
    BY <1>3, Zenon DEF Access
  <2>2. p # "woken"
    OBVIOUS
  <2> HIDE DEF p
  <2> QED
    BY <1>2, <1>3, <2>1, <2>2
<1>4. ASSUME NEW n, NEW o, FirstLevel(n, c, o)
      PROVE  NobodyWoken(c)
  <2>1. op' = [op EXCEPT ![c] = o]
    BY <1>4 DEF FirstLevel
  <2>2. CASE Permissible(stack[n].l1[c][o.a], o.t)
    <3>1. Access(n, c, o, stack[n])
      BY <1>4, <2>2 DEF FirstLevel
    <3> QED
      BY <1>3, <2>1, <3>1
  <2>3. CASE ~Permissible(stack[n].l1[c][o.a], o.t)
    <3>1. pc' = [pc EXCEPT ![c] = "missed"]
      BY <1>4, <2>3 DEF FirstLevel
    <3> QED
      BY <1>2, <2>1, <3>1
  <2> QED
    BY <2>2, <2>3
<1>5. ASSUME NEW n, NEW t, NEW a, NEW st, InitiateDirectoryAccess(n, c, t, a, st), op' = op
      PROVE  NobodyWoken(c)
  <2>1. pc' = [pc EXCEPT ![c] = "waiting"]
    BY <1>5 DEF InitiateDirectoryAccess
  <2> QED
    BY <1>2, <1>5, <2>1
<1>6. ASSUME NEW n, NEW o, NEW st, NEW d, FillAndAccess(n, c, o, st, d), op' = op
      PROVE  NobodyWoken(c)
  <2>1. \E r : Access(n, c, o, r)
    BY <1>6 DEF FillAndAccess
  <2> QED
    BY <1>3, <1>6, <2>1
<1>7. ASSUME NEW n, NEW st, NEW d, EndPrefetch(n, c, st, d), op' = op
      PROVE  NobodyWoken(c)
  <2>1. pc' = [pc EXCEPT ![c] = "idle"]
    BY <1>7 DEF EndPrefetch
  <2> QED
    BY <1>2, <1>7, <2>1
<1>8. ASSUME NEW t, NEW a, Issue(c, Operation(t, a))
      PROVE  NobodyWoken(c)
  <2>1. \E n, o : FirstLevel(n, c, o)
    BY <1>8 DEF Issue
  <2> QED
    BY <1>4, <2>1
<1>9. CASE IssueUnlock(c)
  <2>1. \E n, o : FirstLevel(n, c, o)
    BY <1>9 DEF IssueUnlock
  <2> QED
    BY <1>4, <2>1
<1>10. CASE NextLevel(c)
  <2>1. op' = op /\ (\/ \E n, o, st, d : FillAndAccess(n, c, o, st, d)
                     \/ \E n, t, a, st : InitiateDirectoryAccess(n, c, t, a, st))
    BY <1>10, Zenon DEF NextLevel
  <2> QED
    BY <1>5, <1>6, <2>1, Zenon
<1>11. CASE Refill(c)
  <2>1. op' = op /\ \E n, o, st, d : FillAndAccess(n, c, o, st, d)
    BY <1>11 DEF Refill
  <2> QED
    BY <1>6, <2>1
<1>12. CASE Prefetch(c)
  <2>1. \E p, o : pc' = [pc EXCEPT ![c] = p] /\ p # "woken" /\ (op' = op \/ op' = [op EXCEPT ![c] = o])
    BY <1>12, PrefetchParts
  <2> QED
    BY <1>2, <2>1
<1>13. CASE DoPrefetch(c)
  <2>1. op' = op /\ (\/ \E n, st, d : EndPrefetch(n, c, st, d)
                     \/ \E n, t, a, st : InitiateDirectoryAccess(n, c, t, a, st))
    BY <1>13 DEF DoPrefetch
  <2> QED
    BY <1>5, <1>7, <2>1
<1>14. CASE RefillPrefetch(c)
  <2>1. op' = op /\ \E n, st, d : EndPrefetch(n, c, st, d)
    BY <1>14 DEF RefillPrefetch
  <2> QED
    BY <1>7, <2>1
<1> QED
  BY <1>8, <1>9, <1>10, <1>11, <1>12, <1>13, <1>14 DEF UserStep

LEMMA FirstLevelInclusion ==
    ASSUME Types, ThreadInv, InclusionInv, NEW n \in Nodes, NEW c \in CoresOf(n), NEW o \in Op, o.a \in Addrs,
           FirstLevel(n, c, o), NobodyWoken(c)
    PROVE  InclusionInv'
<1>1. FirstLevelData(n, c, o) /\ net' = net
  BY FirstLevelFacts DEF FirstLevel
<1>2. ASSUME NEW m \in Nodes
      PROVE  SameStates(m, stack[m], stack'[m])
  <2>1. CASE Permissible(stack[n].l1[c][o.a], o.t)
    <3>1. Accessed(n, c, o, stack[n])
      BY <1>1, <2>1 DEF FirstLevelData
    <3> QED
      BY <3>1 DEF Accessed
  <2>2. CASE ~Permissible(stack[n].l1[c][o.a], o.t)
    BY <1>1, <2>2, SameIsSame DEF FirstLevelData
  <2> QED
    BY <2>1, <2>2
<1> QED
  BY <1>1, <1>2, InclusionFromSame

\* What the network thread of a node works on while nobody is woken.
LEMMA NetOfUser ==
    ASSUME Types, ThreadInv, NEW n \in Nodes, NodeInv(n), net[n].pc # "idle"
    PROVE  net[n].a \in Addrs /\ waiters[n][net[n].a] # <<>> /\ stack[n].llc[net[n].a].s \in {"S", "E", "M"}
<1>1. net[n].a \in Addrs /\ waiters[n][net[n].a] # <<>>
  BY DEF ThreadInv, NetInv, Types, ThreadsOK
<1> QED
  BY <1>1 DEF NodeInv, Present

LEMMA NextLevelInclusion ==
    ASSUME Types, LockTypes, ThreadInv, InclusionInv, DirectInv, NEW c \in Cores, NextLevel(c), NobodyWoken(c)
    PROVE  InclusionInv'
<1> DEFINE n == NodeOf[c]
           o == op[c]
           C == CoresOf(n) \ {c}
<1>1. n \in Nodes /\ c \in CoresOf(n) /\ o \in Op /\ stack[n] \in Stack(n)
  BY NodeOfCore, Zenon DEF Types, ThreadsOK, StacksOK
<1>2. pc[c] = "missed" /\ (LockFree(n) \/ lock[n].ex = c) /\ UNCHANGED <<op, net>>
  BY Zenon DEF NextLevel
<1>3. o.a \in Addrs
  BY <1>2 DEF ThreadInv, OpInv
<1>4. NextLevelData(n, c, o)
  BY <1>3, NextLevelFacts
<1> HIDE DEF n, o
<1>5. NodeInv(n)
  BY <1>1 DEF InclusionInv
<1>6. (\A d \in CoresOf(n) : pc[d] # "woken") /\ net[n].pc # "handoff" /\ Exempt(n) = {}
  BY <1>1, <1>2, NoneWoken
<1>7. Sound(n, stack[n], {})
  BY <1>5, <1>6 DEF NodeInv
<1>8. PICK st \in Stack(n) :
        /\ Invalidated(n, stack[n], c, o.a, st)
        /\ \/ \E r : AnyServed(n, st, C, o.t, o.a, r) /\ Filled(n, c, o, r.st)
           \/ Queued(n, st, C, o.t, o.a)
  BY <1>4 DEF NextLevelData
<1>9. Sound(n, st, {}) /\ \A x \in Addrs : st.llc[x].s = stack[n].llc[x].s
  BY <1>1, <1>3, <1>7, <1>8, InvalidatedSound
<1>10. C \in SUBSET CoresOf(n)
  OBVIOUS
<1>11. \A d \in CoresOf(n) : pc'[d] # "woken"
  BY <1>6 DEF NobodyWoken, CoresOf
<1>12. ASSUME net[n].pc # "idle"
       PROVE  net[n].a \in Addrs /\ waiters[n][net[n].a] # <<>> /\ st.llc[net[n].a].s \in {"S", "E", "M"}
  BY <1>1, <1>5, <1>9, <1>12, NetOfUser
<1>13. \A d \in Cores \ CoresOf(n) : pc'[d] = "woken" => pc[d] = "woken" /\ op'[d] = op[d]
  BY DEF NobodyWoken
<1>14. ASSUME NEW r, AnyServed(n, st, C, o.t, o.a, r), Filled(n, c, o, r.st)
       PROVE  InclusionInv'
  <2>1. PICK k \in Stack(n) : k = r.st
    BY <1>14 DEF AnyServed
  <2>2. /\ Sound(n, r.st, {}) /\ Clean(C, r.st, o.a)
        /\ \/ cfg.direct
           \/ \A x \in Addrs : st.llc[x].s \in {"S", "E", "M"} => r.st.llc[x].s \in {"S", "E", "M"}
    BY <1>1, <1>3, <1>9, <1>10, <1>14, ServedSound
  <2>3. Sound(n, k, {}) /\ OthersClean(n, k, c, o.a) /\ Filled(n, c, o, k)
    BY <1>14, <2>1, <2>2 DEF OthersClean
  <2>4. /\ Sound(n, stack'[n], {} \ {o.a}) /\ \A x \in Addrs : stack'[n].llc[x].s = k.llc[x].s
        /\ \A m \in Nodes \ {n} : SameStates(m, stack[m], stack'[m])
    BY <1>1, <1>3, <2>3, FilledSound
  <2>5. Sound(n, stack'[n], {})
    <3>1. {} \ {o.a} = {}
      OBVIOUS
    <3> QED
      BY <2>4, <3>1
  <2>6. net'[n].pc # "idle" => stack'[n].llc[net'[n].a].s \in {"S", "E", "M"}
    <3>1. CASE cfg.direct
      BY <1>1, <1>2, <3>1 DEF DirectInv
    <3>2. CASE ~cfg.direct
      BY <1>2, <1>12, <2>1, <2>2, <2>4, <3>2
    <3> QED
      BY <3>1, <3>2
  <2>7. NodeInv(n)'
    BY <1>1, <1>2, <1>6, <1>11, <2>5, <2>6, UserNode
  <2>8. OthersSame(n)
    BY <1>2, <2>4 DEF OthersSame
  <2> QED
    BY <1>1, <1>13, <2>7, <2>8, InclusionFromNode
<1>15. ASSUME Queued(n, st, C, o.t, o.a)
       PROVE  InclusionInv'
  <2>1. /\ Sound(n, stack'[n], {}) /\ \A m \in Nodes \ {n} : stack'[m] = stack[m]
        /\ \A x \in Addrs : st.llc[x].s \in {"S", "E", "M"} /\ waiters[n][x] # <<>>
              => stack'[n].llc[x].s \in {"S", "E", "M"}
    BY <1>1, <1>3, <1>9, <1>10, <1>15, QueuedSound
  <2>2. net'[n].pc # "idle" => stack'[n].llc[net'[n].a].s \in {"S", "E", "M"}
    BY <1>2, <1>12, <2>1
  <2>3. NodeInv(n)'
    BY <1>1, <1>2, <1>6, <1>11, <2>1, <2>2, UserNode
  <2>4. OthersSame(n)
    BY <1>2, <2>1, SameIsSame DEF OthersSame
  <2> QED
    BY <1>1, <1>13, <2>3, <2>4, InclusionFromNode
<1> QED
  BY <1>8, <1>14, <1>15

\* A woken thread of a node: the network thread waits for it.
LEMMA WokenFacts ==
    ASSUME Types, LockTypes, ThreadInv, NEW n \in Nodes, NEW c \in CoresOf(n), pc[c] = "woken"
    PROVE  /\ lock[n].ex = c /\ net[n].pc = "handoff" /\ net[n].a \in Addrs /\ op[c].a = net[n].a
           /\ waiters[n][net[n].a] # <<>> /\ waiters[n][net[n].a][1].c = c
           /\ \A d \in CoresOf(n) : pc[d] = "woken" => d = c
<1>1. lock[n].ex = c /\ net[n].pc = "handoff" /\ waiters[n][net[n].a][1].c = c
  BY DEF ThreadInv, NetInv
<1>2. net[n].a \in Addrs /\ waiters[n][net[n].a] # <<>>
  BY <1>1 DEF ThreadInv, NetInv, Types, ThreadsOK
<1>3. \A d \in CoresOf(n) : pc[d] = "woken" => d = c
  BY <1>1 DEF ThreadInv, NetInv
<1>4. op[c].a = net[n].a
  <2> DEFINE a == net[n].a
             q == waiters[n][a]
  <2>1. q \in Seq(Waiter) /\ q # <<>>
    BY <1>2 DEF Types, ThreadsOK
  <2>2. 1 \in DOMAIN q
    BY <2>1
  <2>3. Live(n, a, 1)
    BY <1>1 DEF Live
  <2>4. op[q[1].c].a = a
    BY <1>2, <2>2, <2>3 DEF ThreadInv, WaiterInv
  <2> QED
    BY <1>1, <2>4
<1> QED
  BY <1>1, <1>2, <1>3, <1>4

LEMMA RefillInclusion ==
    ASSUME Types, LockTypes, ThreadInv, InclusionInv, NEW c \in Cores, Refill(c), NobodyWoken(c), failed' = "no"
    PROVE  InclusionInv'
<1> DEFINE n == NodeOf[c]
           o == op[c]
           C == CoresOf(n) \ {c}
<1>1. n \in Nodes /\ c \in CoresOf(n) /\ o \in Op /\ stack[n] \in Stack(n)
  BY NodeOfCore DEF Types, ThreadsOK, StacksOK
<1>2. pc[c] = "woken" /\ net' = [net EXCEPT ![n].pc = "signalled"]
  BY RefillParts
<1>3. o.a \in Addrs
  BY <1>2 DEF ThreadInv, OpInv
<1>4. RefillData(n, c, o)
  BY <1>3, RefillDataFacts
<1>5. op[c] = o
  OBVIOUS
<1> HIDE DEF n, o
<1>6. NodeInv(n)
  BY <1>1 DEF InclusionInv
<1>7. net[n].pc = "handoff" /\ o.a = net[n].a /\ \A d \in CoresOf(n) : pc[d] = "woken" => d = c
  BY <1>1, <1>2, <1>5, WokenFacts
<1>8. Sound(n, stack[n], {o.a}) /\ stack[n].llc[o.a].s \in {"S", "E", "M"}
  BY <1>6, <1>7 DEF NodeInv, Exempt, Present
<1>9. PICK k \in Stack(n) : RefillStack(n, c, o, k) /\ Filled(n, c, o, k)
  BY <1>4 DEF RefillData
<1>10. C \in SUBSET CoresOf(n)
  OBVIOUS
<1>11. k.err = "no"
  BY <1>9 DEF Filled, Accessed, Copied
<1>12. PICK j \in Stack(n) :
         /\ \/ Permissible(stack[n].llc[o.a], o.t) /\ HitServed(n, stack[n], C, o.t, o.a, j)
            \/ ~Permissible(stack[n].llc[o.a], o.t) /\ Upgraded(n, stack[n], C, o.a, j)
         /\ k.l1 = j.l1 /\ k.llc = j.llc /\ Permissible(j.llc[o.a], o.t)
  BY <1>9, <1>11 DEF RefillStack
<1>13. Sound(n, j, {o.a}) /\ Clean(C, j, o.a) /\ j.llc[o.a].s \in {"S", "E", "M"}
  <2> DEFINE P == {o.a}
             s == stack[n]
             a == o.a
             t == o.t
  <2>0. Sound(n, s, P) /\ s \in Stack(n) /\ a \in Addrs /\ s.llc[a].s \in {"S", "E", "M"}
    BY <1>1, <1>3, <1>8
  <2>1. CASE Permissible(s.llc[a], t) /\ HitServed(n, s, C, t, a, j)
    <3> HIDE DEF P, s, a, t, C
    <3>1. Sound(n, j, P) /\ Clean(C, j, a) /\ j.llc[a].s = s.llc[a].s
      BY <1>1, <1>10, <2>0, <2>1, HitSound
    <3> QED
      BY <2>0, <3>1 DEF P, a
  <2>2. CASE ~Permissible(s.llc[a], t) /\ Upgraded(n, s, C, a, j)
    <3>0. Permissible(j.llc[a], t)
      BY <1>12
    <3> HIDE DEF P, s, a, t, C
    <3>1. Sound(n, j, P) /\ Clean(C, j, a) /\ j.llc[a].s \in {"S", "E", "M"}
      BY <1>1, <1>10, <2>0, <2>2, <3>0, UpgradedSound
    <3> QED
      BY <3>1 DEF P, a
  <2> QED
    BY <1>12, <2>1, <2>2
<1>14. Sound(n, k, {o.a}) /\ OthersClean(n, k, c, o.a) /\ k.llc[o.a].s \in {"S", "E", "M"}
  BY <1>12, <1>13 DEF Sound, Included, OneDirty, OthersClean, Clean
<1>15. /\ Sound(n, stack'[n], {o.a} \ {o.a}) /\ \A x \in Addrs : stack'[n].llc[x].s = k.llc[x].s
       /\ \A m \in Nodes \ {n} : SameStates(m, stack[m], stack'[m])
  BY <1>1, <1>3, <1>9, <1>14, FilledSound
<1>16. Sound(n, stack'[n], {})
  <2>1. {o.a} \ {o.a} = {}
    OBVIOUS
  <2> QED
    BY <1>15, <2>1
<1>17. /\ net'[n].pc = "signalled" /\ net'[n].a = net[n].a
       /\ \A m \in Nodes \ {n} : net'[m] = net[m]
  BY <1>1, <1>2 DEF Types, ThreadsOK
<1>18. \A d \in CoresOf(n) : pc'[d] # "woken"
  BY <1>7 DEF NobodyWoken, CoresOf
<1>19. NodeInv(n)'
  BY <1>1, <1>3, <1>7, <1>14, <1>15, <1>16, <1>17, <1>18, UserNode
<1>20. OthersSame(n)
  BY <1>15, <1>17 DEF OthersSame
<1>21. \A d \in Cores \ CoresOf(n) : pc'[d] = "woken" => pc[d] = "woken" /\ op'[d] = op[d]
  BY DEF NobodyWoken
<1> QED
  BY <1>1, <1>19, <1>20, <1>21, InclusionFromNode

LEMMA DoPrefetchInclusion ==
    ASSUME Types, LockTypes, ThreadInv, InclusionInv, DirectInv, NEW c \in Cores, DoPrefetch(c), NobodyWoken(c)
    PROVE  InclusionInv'
<1> DEFINE n == NodeOf[c]
           a == op[c].a
           C == CoresOf(n)
<1>1. n \in Nodes /\ c \in CoresOf(n) /\ stack[n] \in Stack(n)
  BY NodeOfCore DEF Types, ThreadsOK, StacksOK
<1>2. pc[c] = "prefetching" /\ LockFree(n) /\ net' = net
  BY DoPrefetchParts
<1>3. a \in Addrs
  BY <1>2 DEF ThreadInv, OpInv
<1>4. DoPrefetchData(n, a)
  BY <1>3, DoPrefetchFacts
<1> HIDE DEF n, a
<1>5. NodeInv(n)
  BY <1>1 DEF InclusionInv
<1>6. (\A d \in CoresOf(n) : pc[d] # "woken") /\ net[n].pc # "handoff" /\ Exempt(n) = {}
  BY <1>1, <1>2, NoneWoken
<1>7. Sound(n, stack[n], {})
  BY <1>5, <1>6 DEF NodeInv
<1>8. C \in SUBSET CoresOf(n)
  OBVIOUS
<1>9. \A d \in CoresOf(n) : pc'[d] # "woken"
  BY <1>6 DEF NobodyWoken, CoresOf
<1>10. ASSUME net[n].pc # "idle"
       PROVE  net[n].a \in Addrs /\ waiters[n][net[n].a] # <<>> /\ stack[n].llc[net[n].a].s \in {"S", "E", "M"}
  BY <1>1, <1>5, <1>10, NetOfUser
<1>11. \A d \in Cores \ CoresOf(n) : pc'[d] = "woken" => pc[d] = "woken" /\ op'[d] = op[d]
  BY DEF NobodyWoken
<1>12. ASSUME NEW r, AnyServed(n, stack[n], C, "P", a, r), Replaced(n, r.st)
       PROVE  InclusionInv'
  <2>1. /\ Sound(n, r.st, {})
        /\ \/ cfg.direct
           \/ \A x \in Addrs : stack[n].llc[x].s \in {"S", "E", "M"} => r.st.llc[x].s \in {"S", "E", "M"}
    BY <1>1, <1>3, <1>7, <1>8, <1>12, ServedSound
  <2>2. stack'[n] = r.st /\ \A m \in Nodes \ {n} : stack'[m] = stack[m]
    BY <1>1, <1>12 DEF Replaced, Types, StacksOK
  <2>3. net'[n].pc # "idle" => stack'[n].llc[net'[n].a].s \in {"S", "E", "M"}
    <3>1. CASE cfg.direct
      BY <1>1, <1>2, <3>1 DEF DirectInv
    <3>2. CASE ~cfg.direct
      BY <1>2, <1>10, <2>1, <2>2, <3>2
    <3> QED
      BY <3>1, <3>2
  <2>4. NodeInv(n)'
    BY <1>1, <1>2, <1>6, <1>9, <2>1, <2>2, <2>3, UserNode
  <2>5. OthersSame(n)
    BY <1>2, <2>2, SameIsSame DEF OthersSame
  <2> QED
    BY <1>1, <1>11, <2>4, <2>5, InclusionFromNode
<1>13. ASSUME Queued(n, stack[n], C, "P", a)
       PROVE  InclusionInv'
  <2>1. /\ Sound(n, stack'[n], {}) /\ \A m \in Nodes \ {n} : stack'[m] = stack[m]
        /\ \A x \in Addrs : stack[n].llc[x].s \in {"S", "E", "M"} /\ waiters[n][x] # <<>>
              => stack'[n].llc[x].s \in {"S", "E", "M"}
    BY <1>1, <1>3, <1>7, <1>8, <1>13, QueuedSound
  <2>2. net'[n].pc # "idle" => stack'[n].llc[net'[n].a].s \in {"S", "E", "M"}
    BY <1>2, <1>10, <2>1
  <2>3. NodeInv(n)'
    BY <1>1, <1>2, <1>6, <1>9, <2>1, <2>2, UserNode
  <2>4. OthersSame(n)
    BY <1>2, <2>1, SameIsSame DEF OthersSame
  <2> QED
    BY <1>1, <1>11, <2>3, <2>4, InclusionFromNode
<1> QED
  BY <1>4, <1>12, <1>13 DEF DoPrefetchData

LEMMA RefillPrefetchInclusion ==
    ASSUME Types, LockTypes, ThreadInv, InclusionInv, NEW c \in Cores, RefillPrefetch(c), NobodyWoken(c),
           failed' = "no"
    PROVE  InclusionInv'
<1> DEFINE n == NodeOf[c]
           a == op[c].a
           C == CoresOf(n)
<1>1. n \in Nodes /\ c \in CoresOf(n) /\ stack[n] \in Stack(n)
  BY NodeOfCore DEF Types, ThreadsOK, StacksOK
<1>2. OpsUsed
  BY DEF ThreadInv, OpInv, OpsUsed
<1>3. /\ pc[c] = "woken" /\ net' = [net EXCEPT ![n].pc = "signalled"]
      /\ \E r \in Stack(n) : EndPrefetch(n, c, r, dram) /\ PrefetchRefilled(c, r)
  BY <1>2, RefillPrefetchParts
<1>4. a \in Addrs
  BY <1>3 DEF ThreadInv, OpInv
<1>5. PICK r \in Stack(n) : EndPrefetch(n, c, r, dram) /\ PrefetchRefilled(c, r)
  BY <1>3
<1>6. PICK k \in Stack(n) :
         /\ k.l1 = stack[n].l1 /\ k.llc = stack[n].llc
         /\ k.err = "no" <=> stack[n].err = "no" /\ Permissible(stack[n].llc[a], "P")
         /\ HitServed(n, k, C, "P", a, r)
  BY <1>5 DEF PrefetchRefilled
<1>7. op[c].a = a
  OBVIOUS
<1> HIDE DEF n, a
<1>8. NodeInv(n)
  BY <1>1 DEF InclusionInv
<1>9. net[n].pc = "handoff" /\ a = net[n].a /\ \A d \in CoresOf(n) : pc[d] = "woken" => d = c
  BY <1>1, <1>3, <1>7, WokenFacts
<1>10. Sound(n, k, {a}) /\ k.llc[a].s \in {"S", "E", "M"}
  BY <1>6, <1>8, <1>9 DEF NodeInv, Exempt, Present, Sound, Included, OneDirty
<1>11. C \in SUBSET CoresOf(n)
  OBVIOUS
<1>12. Permissible(k.llc[a], "P")
  BY <1>10 DEF Permissible
<1>13. Sound(n, r, {a}) /\ Clean(C, r, a) /\ r.llc[a].s \in {"S", "E", "M"}
  <2> DEFINE P == {a}
  <2>1. Sound(n, k, P) /\ HitServed(n, k, C, "P", a, r)
    BY <1>6, <1>10
  <2> HIDE DEF P, C
  <2>2. Sound(n, r, P) /\ Clean(C, r, a) /\ r.llc[a].s = k.llc[a].s
    BY <1>1, <1>4, <1>11, <1>12, <2>1, HitSound
  <2> QED
    BY <1>10, <2>2 DEF P
<1>14. Sound(n, r, {})
  <2>1. OneDirty(n, r, a)
    BY <1>13 DEF OneDirty, Clean
  <2> QED
    BY <1>13, <2>1 DEF Sound
<1>15. stack'[n] = r /\ \A m \in Nodes \ {n} : stack'[m] = stack[m]
  BY <1>1, <1>5 DEF EndPrefetch, Types, StacksOK
<1>16. /\ net'[n].pc = "signalled" /\ net'[n].a = net[n].a
       /\ \A m \in Nodes \ {n} : net'[m] = net[m]
  BY <1>1, <1>3 DEF Types, ThreadsOK
<1>17. \A d \in CoresOf(n) : pc'[d] # "woken"
  BY <1>9 DEF NobodyWoken, CoresOf
<1>18. NodeInv(n)'
  BY <1>1, <1>9, <1>13, <1>14, <1>15, <1>16, <1>17, UserNode
<1>19. OthersSame(n)
  BY <1>15, <1>16, SameIsSame DEF OthersSame
<1>20. \A d \in Cores \ CoresOf(n) : pc'[d] = "woken" => pc[d] = "woken" /\ op'[d] = op[d]
  BY DEF NobodyWoken
<1> QED
  BY <1>1, <1>18, <1>19, <1>20, InclusionFromNode

\* Nobody of a node is woken while its lock is free.
LEMMA FreeNobody ==
    ASSUME ThreadInv, NEW n \in Nodes, LockFree(n), NEW d \in CoresOf(n)
    PROVE  pc[d] # "woken"
<1>1. d # "free"
  BY CacheAssumption DEF CoresOf
<1> QED
  BY <1>1 DEF ThreadInv, NetInv, LockFree

\* The node after the network thread has gone on to the waiters ws of line a.
LEMMA WakeNode ==
    ASSUME Types, LockTypes, ThreadInv, NEW n \in Nodes, NEW a \in Addrs, NEW st \in Stack(n), NEW ws, NEW ms,
           Woken(n, a, st, ws, ms), WakeOutcome(n, a, st, ws), op' = op, LockFree(n),
           \/ net[n].pc = "idle" /\ ws = waiters[n][a]
           \/ net[n].pc = "signalled" /\ net[n].a = a /\ ws = Tail(waiters[n][a]),
           Sound(n, st, {a}), st.llc[a].s \in {"S", "E", "M"},
           ws = <<>> \/ NeedsUpgrade(ws[1], st.llc[a]) => OneDirty(n, st, a)
    PROVE  /\ NodeInv(n)' /\ OthersSame(n)
           /\ \A d \in Cores \ CoresOf(n) : pc'[d] = "woken" => pc[d] = "woken" /\ op'[d] = op[d]
<1> DEFINE wake == ws # <<>> /\ ~NeedsUpgrade(ws[1], st.llc[a])
<1>1. /\ stack'[n] \in Stack(n) /\ \A m \in Nodes \ {n} : stack'[m] = stack[m]
      /\ stack'[n].l1 = st.l1
      /\ stack'[n].llc[a].s = IF ws # <<>> /\ NeedsUpgrade(ws[1], st.llc[a]) THEN "u" ELSE st.llc[a].s
      /\ \A x \in Addrs \ {a} : stack'[n].llc[x].s = st.llc[x].s
  BY DEF Woken, StacksOK
<1>2. /\ net \in [Nodes -> [pc : {"idle", "handoff", "signalled"}, a : Addrs \cup {None}]]
      /\ pc \in [Cores -> Control]
  BY DEF Types, ThreadsOK
<1>3. ASSUME wake
      PROVE  /\ ws[1].c \in CoresOf(n) /\ op[ws[1].c].a = a
             /\ IsWriter(op[ws[1].c].t) => st.llc[a].s # "S"
  <2>1. /\ ws \in Seq(Waiter)
        /\ \E k \in {0, 1} : \A i \in DOMAIN ws :
              /\ i + k \in DOMAIN waiters[n][a] /\ ws[i] = waiters[n][a][i + k]
              /\ Live(n, a, i + k)
    BY WakeQueue DEF Types, ThreadInv
  <2>2. 1 \in DOMAIN ws
    BY <1>3, <2>1
  <2>3. PICK j \in DOMAIN waiters[n][a] : ws[1] = waiters[n][a][j] /\ Live(n, a, j)
    BY <2>1, <2>2
  <2>4. /\ op[waiters[n][a][j].c].a = a
        /\ waiters[n][a][j].excl <=> IsWriter(op[waiters[n][a][j].c].t)
    BY <2>3 DEF ThreadInv, WaiterInv
  <2>5. waiters[n][a][j].c \in CoresOf(n)
    BY <2>3 DEF LockTypes
  <2>6. ~(ws[1].excl /\ st.llc[a].s = "S")
    BY <1>3 DEF NeedsUpgrade
  <2> QED
    BY <2>3, <2>4, <2>5, <2>6
<1>4. OthersSame(n)
  <2>1. \A m \in Nodes \ {n} : net'[m] = net[m]
    BY <1>2 DEF WakeOutcome
  <2> QED
    BY <1>1, <2>1, SameIsSame DEF OthersSame
<1>5. CASE wake
  <2> DEFINE c == ws[1].c
  <2>1. net'[n] = [pc |-> "handoff", a |-> a] /\ pc' = [pc EXCEPT ![c] = "woken"]
    BY <1>2, <1>5 DEF WakeOutcome
  <2>2. c \in CoresOf(n) /\ c \in Cores /\ op[c].a = a /\ (IsWriter(op[c].t) => st.llc[a].s # "S")
    BY <1>3, <1>5 DEF CoresOf
  <2> HIDE DEF c
  <2>3. \A x \in Addrs : stack'[n].llc[x].s = st.llc[x].s
    BY <1>1, <1>5
  <2>4. SameStates(n, st, stack'[n])
    BY <1>1, <2>3 DEF SameStates
  <2>5. Sound(n, stack'[n], {a})
    BY <2>4, SameSound
  <2>6. Exempt(n)' = {a}
    BY <2>1 DEF Exempt
  <2>7. Sound(n, stack[n], Exempt(n))'
    BY <2>5, <2>6 DEF Sound, Included, OneDirty, CoresOf
  <2>8. Present(n)'
    BY <2>1, <2>3 DEF Present
  <2>9. ASSUME NEW d \in CoresOf(n), pc'[d] = "woken", IsWriter(op'[d].t)
        PROVE  stack'[n].llc[op'[d].a].s \in {"E", "M"}
    <3>1. d = c
      <4>1. d \in Cores /\ pc[d] # "woken"
        BY FreeNobody DEF CoresOf
      <4> QED
        BY <1>2, <2>1, <2>9, <4>1
    <3> QED
      BY <2>2, <2>3, <2>9, <3>1
  <2>10. Granted(n)'
    BY <2>9 DEF Granted, CoresOf, IsWriter
  <2>11. \A d \in Cores \ CoresOf(n) : pc'[d] = "woken" => pc[d] = "woken" /\ op'[d] = op[d]
    BY <1>2, <2>1, <2>2
  <2> QED
    BY <1>4, <2>7, <2>8, <2>10, <2>11 DEF NodeInv
<1>6. CASE ~wake
  <2>1. net'[n].pc = "idle" /\ pc' = pc
    BY <1>2, <1>6 DEF WakeOutcome
  <2>2. OneDirty(n, st, a)
    BY <1>6
  <2>3. Included(n, stack'[n])
    <3>1. ASSUME NEW x \in Addrs, NEW d \in CoresOf(n)
          PROVE  Order[stack'[n].l1[d][x].s] <= Order[stack'[n].llc[x].s]
      <4>1. Order[st.l1[d][x].s] <= Order[st.llc[x].s] /\ stack'[n].l1[d][x].s = st.l1[d][x].s
        BY <1>1 DEF Sound, Included
      <4>2. \/ stack'[n].llc[x].s = st.llc[x].s
            \/ stack'[n].llc[x].s = "u" /\ st.llc[x].s = "S"
        BY <1>1 DEF NeedsUpgrade
      <4> QED
        BY <4>1, <4>2, OrderFacts
    <3> QED
      BY <3>1 DEF Included
  <2>4. ASSUME NEW x \in Addrs
        PROVE  OneDirty(n, stack'[n], x)
    BY <1>1, <2>2 DEF Sound, OneDirty
  <2>5. Sound(n, stack'[n], {})
    BY <2>3, <2>4 DEF Sound
  <2>6. \A d \in CoresOf(n) : pc'[d] # "woken"
    BY <2>1, FreeNobody
  <2>7. NodeInv(n)'
    BY <2>1, <2>5, <2>6, UserNode
  <2>8. \A d \in Cores \ CoresOf(n) : pc'[d] = "woken" => pc[d] = "woken" /\ op'[d] = op[d]
    BY <2>1
  <2> QED
    BY <1>4, <2>7, <2>8
<1> QED
  BY <1>5, <1>6

\* A reply leaves the caches of the node sound, but for the line of an upgrade.
LEMMA RepliedSound ==
    ASSUME NEW n \in Nodes, NEW st \in Stack(n), NEW m, m.t \in Rep, m.a \in Addrs,
           NEW v \in Addrs \cup {None}, v # m.a, NEW r,
           Sound(n, st, {}), Replied(n, st, m, v, r), r.err = "no"
    PROVE  /\ Sound(n, r, {m.a}) /\ r.llc[m.a].s \in {"S", "E", "M"}
           /\ r.llc[m.a].s = "S" => OneDirty(n, r, m.a)
<1>1. CASE m.t \in {"EX_REP", "SH_REP"}
  <2>1. PICK cell \in Cell : /\ cell.s = (IF m.t = "EX_REP" THEN "E" ELSE "S")
                             /\ InsertedLLC(n, st, m.a, cell, v, r)
    BY <1>1 DEF Replied
  <2>2. st.llc[m.a].s = "I"
    BY <2>1 DEF InsertedLLC
  <2>3. Sound(n, r, {}) /\ r.llc[m.a].s = cell.s
    <3> DEFINE a == m.a
               P == {}
    <3>1. InsertedLLC(n, st, a, cell, v, r) /\ st.llc[a].s = "I" /\ v # a /\ a \in Addrs /\ Sound(n, st, P)
      BY <2>1, <2>2
    <3> HIDE DEF a, P
    <3>2. Sound(n, r, P) /\ r.llc[a].s = cell.s
      BY <3>1, InsertedSound
    <3> QED
      BY <3>2 DEF a, P
  <2> QED
    BY <1>1, <2>1, <2>3 DEF Sound
<1>2. CASE m.t = "UPGRADE_REP"
  <2>1. /\ \A x \in Addrs : r.llc[x].s = IF x = m.a /\ st.llc[m.a].s # "I" THEN "M" ELSE st.llc[x].s
        /\ \A d \in CoresOf(n), x \in Addrs :
              r.l1[d][x].s = IF x = m.a /\ st.l1[d][m.a].s # "I" THEN "M" ELSE st.l1[d][x].s
        /\ st.llc[m.a].s = "u" /\ r \in Stack(n)
    BY <1>2 DEF Replied
  <2>2. r.llc[m.a].s = "M"
    BY <2>1
  <2>3. Included(n, r)
    <3>1. ASSUME NEW x \in Addrs, NEW d \in CoresOf(n)
          PROVE  Order[r.l1[d][x].s] <= Order[r.llc[x].s]
      <4>1. CASE x = m.a
        <5>1. r.l1[d][x].s \in States
          BY <2>1, StackFields
        <5> QED
          BY <2>2, <4>1, <5>1, OrderFacts
      <4>2. CASE x # m.a
        BY <2>1, <4>2 DEF Sound, Included
      <4> QED
        BY <4>1, <4>2
    <3> QED
      BY <3>1 DEF Included
  <2>4. ASSUME NEW x \in Addrs \ {m.a}
        PROVE  OneDirty(n, r, x)
    BY <2>1 DEF Sound, OneDirty
  <2> QED
    BY <2>2, <2>3, <2>4 DEF Sound
<1> QED
  BY <1>1, <1>2 DEF Rep

LEMMA HandleRepInclusion ==
    ASSUME Types, LockTypes, ThreadInv, InclusionInv, NEW n \in Nodes, HandleRep(n), failed' = "no"
    PROVE  InclusionInv'
<1> DEFINE m == Head(toCache[n])
           a == m.a
           ws == waiters[n][a]
<1>1. net[n].pc = "idle" /\ toCache[n] # <<>> /\ LockFree(n) /\ op' = op
  BY DEF HandleRep
<1>2. a \in Addrs
  BY <1>1, HeadOfChannel DEF Types
<1>3. RepData(n)
  BY RepDataFacts
<1>4. PICK v \in Addrs \cup {None}, r \in Stack(n), k \in Stack(n) :
         /\ v # m.a /\ m.t \in Rep
         /\ Replied(n, stack[n], m, v, r) /\ k.l1 = r.l1 /\ k.llc = r.llc
         /\ k.err = "no" <=> r.err = "no" /\ ws # <<>>
         /\ Woken(n, a, k, ws, EvictMsgs(stack[n], v)) /\ WakeOutcome(n, a, k, ws)
  BY <1>3 DEF RepData
<1> HIDE DEF m
<1>5. NodeInv(n) /\ stack[n] \in Stack(n)
  BY DEF InclusionInv, Types, StacksOK
<1>6. Sound(n, stack[n], {})
  BY <1>1, <1>5 DEF NodeInv, Exempt
<1>7. k.err = "no" /\ r.err = "no" /\ ws # <<>>
  BY <1>4 DEF Woken
<1>8. /\ Sound(n, r, {a}) /\ r.llc[a].s \in {"S", "E", "M"}
      /\ r.llc[a].s = "S" => OneDirty(n, r, a)
  BY <1>2, <1>4, <1>5, <1>6, <1>7, RepliedSound
<1>9. /\ Sound(n, k, {a}) /\ k.llc[a].s \in {"S", "E", "M"}
      /\ k.llc[a].s = "S" => OneDirty(n, k, a)
  BY <1>4, <1>8 DEF Sound, Included, OneDirty
<1>10. ws = waiters[n][a]
  OBVIOUS
<1> HIDE DEF a, ws
<1>11. ws = <<>> \/ NeedsUpgrade(ws[1], k.llc[a]) => OneDirty(n, k, a)
  BY <1>7, <1>9 DEF NeedsUpgrade
<1>12. /\ NodeInv(n)' /\ OthersSame(n)
       /\ \A d \in Cores \ CoresOf(n) : pc'[d] = "woken" => pc[d] = "woken" /\ op'[d] = op[d]
  BY <1>1, <1>2, <1>4, <1>9, <1>10, <1>11, WakeNode
<1> QED
  BY <1>12, InclusionFromNode

LEMMA ResumeInclusion ==
    ASSUME Types, LockTypes, ThreadInv, InclusionInv, NEW n \in Nodes, ResumeWaiters(n)
    PROVE  InclusionInv'
<1> DEFINE a == net[n].a
           ws == Tail(waiters[n][a])
           st == stack[n]
<1>1. net[n].pc = "signalled" /\ LockFree(n) /\ op' = op
  BY DEF ResumeWaiters
<1>2. NodeInv(n) /\ stack[n] \in Stack(n)
  BY DEF InclusionInv, Types, StacksOK
<1>3. a \in Addrs /\ st.llc[a].s \in {"S", "E", "M"}
  BY <1>1, <1>2, NetOfUser
<1>4. Sound(n, stack[n], {})
  BY <1>1, <1>2 DEF NodeInv, Exempt
<1>5. Sound(n, st, {a}) /\ OneDirty(n, st, a) /\ st \in Stack(n)
  BY <1>2, <1>3, <1>4 DEF Sound
<1>6. Woken(n, a, st, ws, <<>>) /\ WakeOutcome(n, a, st, ws)
  BY ResumeDataFacts DEF ThreadInv
<1>7. net[n].a = a /\ ws = Tail(waiters[n][a])
  OBVIOUS
<1> HIDE DEF a, ws, st
<1>8. /\ NodeInv(n)' /\ OthersSame(n)
      /\ \A d \in Cores \ CoresOf(n) : pc'[d] = "woken" => pc[d] = "woken" /\ op'[d] = op[d]
  BY <1>1, <1>3, <1>5, <1>6, <1>7, WakeNode
<1> QED
  BY <1>8, InclusionFromNode

LEMMA HandleReqInclusion ==
    ASSUME Types, LockTypes, ThreadInv, ErrInv, InclusionInv, failed = "no", NEW n \in Nodes, HandleReq(n)
    PROVE  InclusionInv'
<1> DEFINE m == Head(toCache[n])
<1>1. /\ net[n].pc = "idle" /\ toCache[n] # <<>> /\ LockFree(n)
      /\ UNCHANGED <<net, pc, op>>
  BY Zenon DEF HandleReq, userVars
<1>2. m.a \in Addrs
  BY <1>1, HeadOfChannel DEF Types
<1>3. Answered(n, m)
  BY HandleReqFacts DEF Types, ThreadsOK, ErrInv
<1> HIDE DEF m
<1>4. NodeInv(n) /\ stack[n] \in Stack(n)
  BY DEF InclusionInv, Types, StacksOK
<1>5. Sound(n, stack[n], {})
  BY <1>1, <1>4 DEF NodeInv, Exempt
<1>6. Sound(n, stack'[n], {})
  <2>1. \/ stack'[n] = stack[n]
        \/ UpdatedLLC(n, stack[n], m.a, IF m.t = "WB_REQ" THEN "S" ELSE "I", m.t # "INV_REQ", stack'[n])
    BY <1>3 DEF Answered
  <2> DEFINE new == IF m.t = "WB_REQ" THEN "S" ELSE "I"
             wants == m.t # "INV_REQ"
             r == stack'[n]
  <2>2. new \in {"I", "S"} /\ (r = stack[n] \/ UpdatedLLC(n, stack[n], m.a, new, wants, r))
    BY <2>1
  <2> HIDE DEF new, wants, r
  <2>3. Sound(n, r, {})
    BY <1>2, <1>4, <1>5, <2>2, UpdatedSound
  <2> QED
    BY <2>3 DEF r
<1>7. NodeInv(n)'
  <2>1. \A d \in CoresOf(n) : pc'[d] # "woken"
    BY <1>1, FreeNobody
  <2> QED
    BY <1>1, <1>6, <2>1, UserNode
<1>8. OthersSame(n)
  BY <1>1, <1>3, SameIsSame DEF OthersSame, Answered
<1> QED
  BY <1>1, <1>7, <1>8, InclusionFromNode

LEMMA SameInclusion ==
    ASSUME Types, ThreadInv, InclusionInv, UNCHANGED <<stack, net, pc, op>>
    PROVE  InclusionInv'
<1> DEFINE f == "free"
<1>1. NobodyWoken(f)
  BY CacheAssumption DEF NobodyWoken
<1>2. \A m \in Nodes : SameStates(m, stack[m], stack'[m])
  BY SameIsSame
<1> HIDE DEF f
<1> QED
  BY <1>1, <1>2, InclusionFromSame

LEMMA EmptyDomain ==
    ASSUME NEW S, NEW q \in Seq(S), NEW e, e = <<>>, DOMAIN q = DOMAIN e
    PROVE  q = <<>>
<1>1. DOMAIN e = {}
  OBVIOUS
<1>2. Len(q) \in Nat /\ DOMAIN q = 1 .. Len(q)
  OBVIOUS
<1>3. Len(q) = 0
  <2>1. Len(q) # 0 => 1 \in DOMAIN q
    BY <1>2
  <2> QED
    BY <1>1, <2>1
<1> QED
  BY <1>3

\* With direct DRAM access the channels stay empty.
LEMMA AccessedQuiet ==
    ASSUME Types, DirectInv, cfg.direct, NEW n \in Nodes, NEW c, NEW o, NEW st, Accessed(n, c, o, st),
           UNCHANGED <<cfg, net, dir>>
    PROVE  DirectInv'
<1>1. ASSUME NEW m \in Nodes
      PROVE  toDir'[m] = <<>> /\ toCache'[m] = <<>>
  <2>1. /\ toDir[m] = <<>> /\ toCache[m] = <<>>
        /\ toDir'[m] \in Seq(ToDir) /\ toCache'[m] \in Seq(ToCache)
    BY DEF DirectInv, Accessed
  <2>2. DOMAIN toDir'[m] = DOMAIN toDir[m] /\ DOMAIN toCache'[m] = DOMAIN toCache[m]
    BY DEF Accessed, SameKinds
  <2> QED
    BY <2>1, <2>2, EmptyDomain
<1> QED
  BY <1>1 DEF DirectInv

LEMMA UserDirect ==
    ASSUME Types, LockTypes, ThreadInv, DirectInv, NEW c \in Cores, UserStep(c)
    PROVE  DirectInv'
<1>0. cfg' = cfg
  BY Zenon DEF UserStep, Issue, IssueUnlock, FirstLevel, NextLevel, Refill, Prefetch, DoPrefetch, RefillPrefetch
<1> SUFFICES ASSUME cfg.direct PROVE DirectInv'
  BY <1>0 DEF DirectInv
<1> DEFINE n == NodeOf[c]
<1>1. n \in Nodes /\ c \in CoresOf(n) /\ op \in [Cores -> Op]
  BY NodeOfCore DEF Types, ThreadsOK
<1>2. pc[c] # "woken"
  BY <1>1 DEF ThreadInv, NetInv, DirectInv
<1>3. ASSUME NEW o \in Op, o.a \in Addrs, FirstLevel(n, c, o)
      PROVE  DirectInv'
  <2> HIDE DEF n
  <2>1. FirstLevelData(n, c, o) /\ UNCHANGED <<cfg, net, dir>>
    BY <1>1, <1>3, FirstLevelFacts DEF FirstLevel
  <2>2. CASE Permissible(stack[n].l1[c][o.a], o.t)
    <3>1. Accessed(n, c, o, stack[n])
      BY <2>1, <2>2 DEF FirstLevelData
    <3> QED
      BY <1>1, <2>1, <3>1, AccessedQuiet
  <2>3. CASE ~Permissible(stack[n].l1[c][o.a], o.t)
    BY <2>1, <2>3 DEF FirstLevelData, DirectInv
  <2> QED
    BY <2>2, <2>3
<1>4. ASSUME NEW t \in Kinds[c], NEW a \in Addrs, Issue(c, Operation(t, a))
      PROVE  DirectInv'
  <2>1. Operation(t, a) \in Op /\ Operation(t, a).a \in Addrs
    <3>1. t \in {"R", "W", "X"}
      BY CacheAssumption
    <3> QED
      BY <3>1 DEF Operation, Op
  <2>2. FirstLevel(n, c, Operation(t, a))
    BY <1>4 DEF Issue
  <2> QED
    BY <1>3, <2>1, <2>2
<1>5. ASSUME pc[c] # "idle"
      PROVE  op[c].a \in Addrs /\ op[c] \in Op
  BY <1>1, <1>5 DEF ThreadInv, OpInv
<1>6. CASE IssueUnlock(c)
  <2> DEFINE o == [t |-> "W", a |-> op[c].a, sig |-> "UNLOCK"]
  <2>1. pc[c] = "locked" /\ FirstLevel(n, c, o)
    BY <1>6 DEF IssueUnlock
  <2>2. o \in Op /\ o.a \in Addrs
    BY <1>5, <2>1 DEF Op
  <2> QED
    BY <1>3, <2>1, <2>2
<1>7. CASE NextLevel(c)
  <2>1. op[c].a \in Addrs /\ UNCHANGED <<cfg, net, dir>>
    BY <1>5, <1>7, Zenon DEF NextLevel
  <2>2. NextLevelData(n, c, op[c])
    BY <1>7, <2>1, NextLevelFacts
  <2> HIDE DEF n
  <2>3. \E st : Accessed(n, c, op[c], st)
    BY <2>2 DEF NextLevelData, Queued, Filled
  <2> QED
    BY <1>1, <2>1, <2>3, AccessedQuiet, Zenon
<1>8. CASE Refill(c)
  BY <1>2, <1>8 DEF Refill
<1>9. CASE Prefetch(c)
  BY <1>9, PrefetchParts DEF DirectInv, dirVars
<1>10. CASE DoPrefetch(c)
  <2>1. op[c].a \in Addrs /\ UNCHANGED <<cfg, net, dir>>
    BY <1>5, <1>10 DEF DoPrefetch
  <2>2. DoPrefetchData(n, op[c].a)
    BY <1>10, <2>1, DoPrefetchFacts
  <2> HIDE DEF n
  <2>3. UNCHANGED <<toDir, toCache>>
    BY <2>2 DEF DoPrefetchData, Queued
  <2> QED
    BY <2>1, <2>3 DEF DirectInv
<1>11. CASE RefillPrefetch(c)
  BY <1>2, <1>11 DEF RefillPrefetch
<1> QED
  BY <1>4, <1>6, <1>7, <1>8, <1>9, <1>10, <1>11, Zenon DEF UserStep

LEMMA NetDirect ==
    ASSUME DirectInv, NEW n \in Nodes, NetStep(n)
    PROVE  DirectInv'
<1>1. cfg' = cfg
  BY Zenon DEF NetStep, HandleRep, ResumeWaiters, HandleReq
<1>2. net[n].pc = "signalled" \/ toCache[n] # <<>>
  BY Zenon DEF NetStep, HandleRep, ResumeWaiters, HandleReq
<1> QED
  BY <1>1, <1>2, Zenon DEF DirectInv

LEMMA DirDirect ==
    ASSUME DirectInv, DirStep
    PROVE  DirectInv'
<1>1. cfg' = cfg
  BY Zenon DEF DirStep, DirReceive, DirAsk, DirReply
<1>2. (\E n \in Nodes : toDir[n] # <<>>) \/ (\E a \in Addrs : dir[a].q # <<>>)
  BY Zenon DEF DirStep, DirReceive, DirAsk, DirReply
<1> QED
  BY <1>1, <1>2, Zenon DEF DirectInv

-----------------------------------------------------------------------------
CacheInv == TypeInv /\ (failed = "no" => InclusionInv /\ DirectInv)

LEMMA CacheInit == Init => CacheInv
<1> SUFFICES ASSUME Init PROVE CacheInv
  OBVIOUS
<1>1. TypeInv
  BY TypeInit
<1>2. DirectInv
  BY DEF Init, DirectInv, NoEntry
<1>3. ASSUME NEW n \in Nodes
      PROVE  NodeInv(n)
  <2>1. /\ net[n].pc = "idle" /\ \A c \in Cores : pc[c] = "idle"
        /\ \A x \in Addrs : stack[n].llc[x].s = "I"
        /\ \A d \in CoresOf(n), x \in Addrs : stack[n].l1[d][x].s = "I"
    BY DEF Init, NoCell
  <2>2. Exempt(n) = {} /\ Present(n) /\ Granted(n)
    BY <2>1 DEF Exempt, Present, Granted, CoresOf
  <2>3. Included(n, stack[n])
    BY <2>1, OrderFacts DEF Included
  <2>4. \A x \in Addrs : OneDirty(n, stack[n], x)
    BY <2>1 DEF OneDirty
  <2> QED
    BY <2>2, <2>3, <2>4 DEF NodeInv, Sound
<1> QED
  BY <1>1, <1>2, <1>3 DEF CacheInv, InclusionInv

LEMMA CacheNext ==
    ASSUME CacheInv, [Next]_vars
    PROVE  CacheInv'
<1>1. TypeInv'
  BY TypeNext DEF CacheInv
<1>2. CASE UNCHANGED vars
  <2>1. UNCHANGED <<cfg, stack, net, pc, op, toDir, toCache, dir, failed>>
    BY <1>2 DEF vars, cacheVars, userVars, dirVars
  <2>2. failed' = "no" => InclusionInv' /\ DirectInv'
    BY <2>1, SameInclusion DEF CacheInv, TypeInv, DirectInv
  <2> QED
    BY <1>1, <2>2 DEF CacheInv
<1> SUFFICES ASSUME Next, failed' = "no" PROVE InclusionInv' /\ DirectInv'
  BY <1>1, <1>2 DEF CacheInv
<1>3. failed = "no" /\ Types /\ LockTypes /\ ErrInv /\ ThreadInv /\ InclusionInv /\ DirectInv
  BY DEF Next, CacheInv, TypeInv
<1>4. ASSUME NEW c \in Cores, UserStep(c)
      PROVE  InclusionInv' /\ DirectInv'
  <2>0. NobodyWoken(c) /\ DirectInv'
    BY <1>3, <1>4, UserWakesNobody, UserDirect
  <2> DEFINE n == NodeOf[c]
  <2>1. n \in Nodes /\ c \in CoresOf(n) /\ op \in [Cores -> Op]
    BY <1>3, NodeOfCore DEF Types, ThreadsOK
  <2>2. ASSUME NEW t \in Kinds[c], NEW a \in Addrs, Issue(c, Operation(t, a))
        PROVE  InclusionInv'
    <3>1. Operation(t, a) \in Op /\ Operation(t, a).a \in Addrs
      <4>1. t \in {"R", "W", "X"}
        BY CacheAssumption
      <4> QED
        BY <4>1 DEF Operation, Op
    <3>2. FirstLevel(n, c, Operation(t, a))
      BY <2>2 DEF Issue
    <3> HIDE DEF n
    <3> QED
      BY <1>3, <2>0, <2>1, <3>1, <3>2, FirstLevelInclusion
  <2>3. CASE IssueUnlock(c)
    <3> DEFINE o == [t |-> "W", a |-> op[c].a, sig |-> "UNLOCK"]
    <3>1. pc[c] = "locked" /\ FirstLevel(n, c, o)
      BY <2>3 DEF IssueUnlock
    <3>2. o \in Op /\ o.a \in Addrs
      BY <1>3, <3>1, <2>1 DEF Op, ThreadInv, OpInv
    <3> HIDE DEF n, o
    <3> QED
      BY <1>3, <2>0, <2>1, <3>1, <3>2, FirstLevelInclusion
  <2>4. CASE NextLevel(c)
    BY <1>3, <2>0, <2>4, NextLevelInclusion
  <2>5. CASE Refill(c)
    BY <1>3, <2>0, <2>5, RefillInclusion
  <2>6. CASE Prefetch(c)
    <3>1. UNCHANGED <<stack, net>>
      BY <1>3, <2>6, PrefetchParts
    <3>2. \A m \in Nodes : SameStates(m, stack[m], stack'[m])
      BY <1>3, <3>1, SameIsSame
    <3> QED
      BY <1>3, <2>0, <3>1, <3>2, InclusionFromSame
  <2>7. CASE DoPrefetch(c)
    BY <1>3, <2>0, <2>7, DoPrefetchInclusion
  <2>8. CASE RefillPrefetch(c)
    BY <1>3, <2>0, <2>8, RefillPrefetchInclusion
  <2> QED
    BY <1>4, <2>0, <2>2, <2>3, <2>4, <2>5, <2>6, <2>7, <2>8 DEF UserStep
<1>5. ASSUME NEW n \in Nodes, NetStep(n)
      PROVE  InclusionInv' /\ DirectInv'
  <2>1. DirectInv'
    BY <1>3, <1>5, NetDirect
  <2> QED
    BY <1>3, <1>5, <2>1, HandleRepInclusion, ResumeInclusion, HandleReqInclusion DEF NetStep
<1>6. CASE DirStep
  <2>1. UNCHANGED <<stack, net, pc, op>>
    BY <1>6, Zenon DEF DirStep, DirReceive, DirAsk, DirReply, cacheVars, userVars
  <2> QED
    BY <1>3, <1>6, <2>1, SameInclusion, DirDirect, Zenon
<1> QED
  BY <1>4, <1>5, <1>6 DEF Next

\* "All caches are inclusive": whatever the user threads, evictions,
\* prefetches, upgrades and directory requests do, an L1 never has a line its
\* LLC lacks nor more rights to it than the LLC, and outside the hand-over of
\* an upgrade at most one L1 of a node has it dirty.
THEOREM CacheInclusive == Spec => []Inclusive
<1>1. CacheInv => Inclusive
  <2> SUFFICES ASSUME CacheInv, failed = "no", NEW n \in Nodes, NEW a \in Addrs
               PROVE  /\ \A c \in CoresOf(n) : Order[stack[n].l1[c][a].s] <= Order[stack[n].llc[a].s]
                      /\ \/ net[n] = [pc |-> "handoff", a |-> a]
                         \/ Cardinality({c \in CoresOf(n) : stack[n].l1[c][a].s = "M"}) <= 1
    BY DEF Inclusive
  <2>1. Sound(n, stack[n], Exempt(n)) /\ Types
    BY DEF CacheInv, TypeInv, InclusionInv, NodeInv
  <2>2. \A c \in CoresOf(n) : Order[stack[n].l1[c][a].s] <= Order[stack[n].llc[a].s]
    BY <2>1 DEF Sound, Included
  <2>3. CASE net[n].pc = "handoff" /\ net[n].a = a
    <3>1. net[n] \in [pc : {"idle", "handoff", "signalled"}, a : Addrs \cup {None}]
      BY <2>1 DEF Types, ThreadsOK
    <3>2. net[n] = [pc |-> "handoff", a |-> a]
      BY <2>3, <3>1
    <3> QED
      BY <2>2, <3>2
  <2>4. CASE ~(net[n].pc = "handoff" /\ net[n].a = a)
    <3> DEFINE D == {c \in CoresOf(n) : stack[n].l1[c][a].s = "M"}
    <3>1. OneDirty(n, stack[n], a)
      BY <2>1, <2>4 DEF Sound, Exempt
    <3>2. D = {} \/ \E d \in D : D = {d}
      BY <3>1 DEF OneDirty
    <3> HIDE DEF D
    <3>3. Cardinality(D) <= 1
      BY <3>2, FS_EmptySet, FS_Singleton
    <3> QED
      BY <2>2, <3>3 DEF D
  <2> QED
    BY <2>3, <2>4
<1> QED
  BY <1>1, CacheInit, CacheNext, PTL DEF Spec

\* The hand-over of the set lock: a thread the network thread wakes owns the
\* exclusive lock, is the first waiter of the line the network thread works
\* on, and finds in the LLC the rights its request needs.
THEOREM CacheLockPassed == Spec => []LockPassed
<1>1. CacheInv => LockPassed
  <2> SUFFICES ASSUME CacheInv, NEW c \in Cores, failed = "no", pc[c] = "woken"
               PROVE  LET n == NodeOf[c] IN
                      /\ lock[n].ex = c /\ net[n].pc = "handoff"
                      /\ waiters[n][net[n].a][1].c = c /\ op[c].a = net[n].a
                      /\ stack[n].llc[op[c].a].s \in
                            IF op[c].t \in {"R", "P"} THEN {"S", "E", "M"} ELSE {"E", "M"}
    BY DEF LockPassed
  <2> DEFINE n == NodeOf[c]
  <2>1. Types /\ LockTypes /\ ThreadInv /\ InclusionInv /\ n \in Nodes /\ c \in CoresOf(n)
    BY NodeOfCore DEF CacheInv, TypeInv
  <2>2. /\ lock[n].ex = c /\ net[n].pc = "handoff" /\ op[c].a = net[n].a
        /\ waiters[n][net[n].a][1].c = c
    BY <2>1, WokenFacts
  <2>3. NodeInv(n)
    BY <2>1 DEF InclusionInv
  <2>4. stack[n].llc[op[c].a].s \in {"S", "E", "M"}
    BY <2>2, <2>3 DEF NodeInv, Present
  <2>5. op[c].t \notin {"R", "P"} => stack[n].llc[op[c].a].s \in {"E", "M"}
    BY <2>1, <2>3 DEF NodeInv, Granted, IsWriter
  <2> QED
    BY <2>2, <2>4, <2>5
<1> QED
  BY <1>1, CacheInit, CacheNext, PTL DEF Spec

-----------------------------------------------------------------------------
(* Data: where the value written last is *)

\* Line x in the caches of node n: a dirty L1 copy has the value written last,
\* and so has the LLC's copy unless an L1 is dirty above it.
Good(n, st, x) ==
    /\ ~cfg.wt => \A d \in CoresOf(n) : st.l1[d][x].s = "M" => st.l1[d][x].f
    /\ st.llc[x].s # "I" /\ (cfg.wt \/ Clean(CoresOf(n), st, x)) => st.llc[x].f
\* Every L1 copy of line x has it.
Sharp(n, st, x) == ~cfg.wt => \A d \in CoresOf(n) : st.l1[d][x].s # "I" => st.l1[d][x].f
\* An upgrade reply makes all L1 copies dirty, so they are all sharp before it
\* comes: while the line is upgrading, and while the network thread goes
\* through the waiters of a SHARED line, w, among which it may find a writer.
LineData(n, st, w, x) ==
    /\ Good(n, st, x)
    /\ st.llc[x].s = "u" \/ (st.llc[x].s = "S" /\ x = w) => Sharp(n, st, x)
NodeData(n, st, w) == \A x \in Addrs : LineData(n, st, w, x)

\* What updateCacheBlock on the L1s of C does to the data.
PrevData(n, st, C, a, r) ==
    /\ \A x \in Addrs : x # a => r.llc[x] = st.llc[x] /\ \A d \in CoresOf(n) : r.l1[d][x] = st.l1[d][x]
    /\ \A d \in CoresOf(n) : r.l1[d][a].s # "I" => r.l1[d][a].f = st.l1[d][a].f
    /\ cfg.wt \/ Clean(C, st, a) => r.llc[a].f = st.llc[a].f
    /\ ~cfg.wt /\ ~Clean(C, st, a) => \E d \in C : st.l1[d][a].s = "M" /\ r.llc[a].f = st.l1[d][a].f

LEMMA PrevDataFacts ==
    ASSUME NEW n \in Nodes, NEW st \in Stack(n), NEW C \in SUBSET CoresOf(n),
           NEW a \in Addrs, NEW new \in {"I", "S", "M"}, NEW evicting \in BOOLEAN
    PROVE  PrevData(n, st, C, a, UpdatePrev(st, C, a, new, evicting))
<1> DEFINE dirty == {c \in C : st.l1[c][a].s = "M"}
           back == dirty # {} /\ ~cfg.wt
           some == CHOOSE c \in dirty : TRUE
           newCell(cell) == IF new = "I" THEN NoCell ELSE [cell EXCEPT !.s = new]
           l1 == [c \in DOMAIN st.l1 |-> IF c \in C /\ Valid(st.l1[c][a])
                                           THEN [st.l1[c] EXCEPT ![a] = newCell(@)]
                                           ELSE st.l1[c]]
           data == IF back THEN st.l1[some][a].f ELSE st.llc[a].f
           llc == [st.llc EXCEPT ![a].f = data]
           upd == [st EXCEPT !.l1 = l1, !.llc[a].f = IF back THEN st.l1[some][a].f ELSE @]
           ok == back /\ ~evicting => st.llc[a].s = "M"
           r == UpdatePrev(st, C, a, new, evicting)
<1>0. r = Check(upd, ok, "writeback to non-M line")
  BY DEF UpdatePrev
<1>1. \A cell \in Cell : /\ newCell(cell) \in Cell
                         /\ newCell(cell).s # "I" => newCell(cell).f = cell.f
  BY DEF Cell, States, NoCell
<1>2. /\ \A d \in CoresOf(n), x \in Addrs : x # a => l1[d][x] = st.l1[d][x]
      /\ \A d \in CoresOf(n) : l1[d][a].s # "I" => l1[d][a].f = st.l1[d][a].f
  <2> HIDE DEF newCell
  <2> QED
    BY <1>1, StackFields DEF Valid
<1>3. /\ ~back => data = st.llc[a].f
      /\ back => some \in C /\ st.l1[some][a].s = "M" /\ data = st.l1[some][a].f
  OBVIOUS
<1>4. back <=> ~cfg.wt /\ ~Clean(C, st, a)
  BY DEF Clean
<1>5. llc[a].f = data /\ \A x \in Addrs : x # a => llc[x] = st.llc[x]
  <2> HIDE DEF data
  <2> QED
    BY StackFields DEF Cell
<1>6. upd.l1 = l1 /\ upd.llc = llc
  <2>1. upd = [st EXCEPT !.l1 = l1, !.llc = llc]
    OBVIOUS
  <2> HIDE DEF l1, llc, upd
  <2> QED
    BY <2>1 DEF Stack
<1>7. r.l1 = upd.l1 /\ r.llc = upd.llc
  <2>1. upd = [st EXCEPT !.l1 = l1, !.llc = llc]
    OBVIOUS
  <2> HIDE DEF l1, llc, upd, ok, r
  <2> QED
    BY <1>0, <2>1 DEF Check, Stack
<1> HIDE DEF l1, llc, upd, ok, r, data, back, some
<1>8. PrevData(n, st, C, a, r)
  BY <1>2, <1>3, <1>4, <1>5, <1>6, <1>7 DEF PrevData
<1> QED
  BY <1>8 DEF r

\* The data of line x is as good in stack r as it was in st.
Keeps(n, st, r, x) == /\ Good(n, st, x) => Good(n, r, x)
                      /\ Sharp(n, st, x) => Sharp(n, r, x)

LEMMA KeepsLine ==
    ASSUME NEW n, NEW st, NEW r, NEW w, NEW x, Keeps(n, st, r, x), LineData(n, st, w, x),
           r.llc[x].s = st.llc[x].s \/ r.llc[x].s \notin {"S", "u"}
    PROVE  LineData(n, r, w, x)
BY DEF Keeps, LineData

LEMMA KeepsNode ==
    ASSUME NEW n, NEW st, NEW r, NEW w, NodeData(n, st, w), \A x \in Addrs : Keeps(n, st, r, x),
           \A x \in Addrs : r.llc[x].s = st.llc[x].s \/ r.llc[x].s \notin {"S", "u"}
    PROVE  NodeData(n, r, w)
BY KeepsLine DEF NodeData

\* All data is as good in stack r as it was in st, and the LLC's states are.
Conserves(n, st, r) == \A x \in Addrs : Keeps(n, st, r, x) /\ r.llc[x].s = st.llc[x].s

\* The L1s lose their copies or share them: the data they had is kept.
LEMMA PrevKeeps ==
    ASSUME cfg \in Configs, NEW n \in Nodes, NEW st \in Stack(n), NEW C \in SUBSET CoresOf(n),
           NEW a \in Addrs, NEW new \in {"I", "S"}, NEW evicting \in BOOLEAN
    PROVE  Conserves(n, st, UpdatePrev(st, C, a, new, evicting))
<1> DEFINE r == UpdatePrev(st, C, a, new, evicting)
<1>1. PrevUpdated(n, st, C, a, new, evicting, r) /\ PrevData(n, st, C, a, r)
  BY UpdatePrevFacts, PrevDataFacts
<1> HIDE DEF r
<1>2. ASSUME NEW x \in Addrs
      PROVE  /\ Good(n, st, x) => Good(n, r, x)
             /\ Sharp(n, st, x) => Sharp(n, r, x)
             /\ r.llc[x].s = st.llc[x].s
  <2>1. r.llc[x].s = st.llc[x].s
    BY <1>1 DEF PrevUpdated
  <2>2. CASE x # a
    <3>1. r.llc[x] = st.llc[x] /\ \A d \in CoresOf(n) : r.l1[d][x] = st.l1[d][x]
      BY <1>1, <2>2 DEF PrevData
    <3> QED
      BY <3>1 DEF Good, Sharp, Clean
  <2>3. CASE x = a
    <3>1. \A d \in CoresOf(n) : r.l1[d][a].s = IF d \in C /\ st.l1[d][a].s # "I" THEN new ELSE st.l1[d][a].s
      BY <1>1 DEF PrevUpdated
    <3>2. \A d \in CoresOf(n) : r.l1[d][a].s # "I" => r.l1[d][a].f = st.l1[d][a].f
      BY <1>1 DEF PrevData
    <3>3. ASSUME Good(n, st, a)
          PROVE  Good(n, r, a)
      <4>1. ~cfg.wt => \A d \in CoresOf(n) : r.l1[d][a].s = "M" => r.l1[d][a].f
        BY <3>1, <3>2, <3>3 DEF Good
      <4>2. ASSUME r.llc[a].s # "I", cfg.wt
            PROVE  r.llc[a].f
        BY <1>1, <2>1, <2>3, <3>3, <4>2 DEF Good, PrevData
      <4>3. ASSUME r.llc[a].s # "I", ~cfg.wt, Clean(CoresOf(n), r, a)
            PROVE  r.llc[a].f
        <5>1. CASE Clean(C, st, a)
          <6>1. Clean(CoresOf(n), st, a)
            BY <3>1, <4>3, <5>1 DEF Clean
          <6> QED
            BY <1>1, <2>1, <2>3, <3>3, <4>3, <5>1, <6>1 DEF Good, PrevData
        <5>2. CASE ~Clean(C, st, a)
          <6>1. PICK d \in C : st.l1[d][a].s = "M" /\ r.llc[a].f = st.l1[d][a].f
            BY <1>1, <4>3, <5>2 DEF PrevData
          <6> QED
            BY <3>3, <4>3, <6>1 DEF Good
        <5> QED
          BY <5>1, <5>2
      <4> QED
        BY <4>1, <4>2, <4>3 DEF Good
    <3>4. Sharp(n, st, a) => Sharp(n, r, a)
      BY <3>1, <3>2 DEF Sharp
    <3> QED
      BY <2>1, <2>3, <3>3, <3>4
  <2> QED
    BY <2>2, <2>3
<1>3. Conserves(n, st, r)
  BY <1>2 DEF Conserves, Keeps
<1> QED
  BY <1>3 DEF r

\* A clean copy is dropped.
LEMMA InvalidateKeeps ==
    ASSUME NEW n \in Nodes, NEW st \in Stack(n), NEW c \in CoresOf(n), NEW a \in Addrs,
           st.l1[c][a].s # "M"
    PROVE  Conserves(n, st, InvalidateL1(st, c, a))
<1> DEFINE k == Check(st, st.l1[c][a].s # "M", "invalidating a MODIFIED line")
           l1 == [st.l1 EXCEPT ![c][a] = NoCell]
           r == InvalidateL1(st, c, a)
<1>1. k \in Stack(n) /\ k.l1 = st.l1 /\ k.llc = st.llc
  BY Zenon DEF Check, Stack, Errors
<1>2. \A d \in CoresOf(n), x \in Addrs :
         l1[d][x] = IF d = c /\ x = a THEN NoCell ELSE st.l1[d][x]
  BY StackFields
<1>3. r = [k EXCEPT !.l1[c][a] = NoCell]
  BY DEF InvalidateL1
<1> HIDE DEF k, r
<1>4. r = [k EXCEPT !.l1 = l1]
  BY <1>1, <1>3
<1> HIDE DEF l1
<1>5. r.l1 = l1 /\ r.llc = st.llc
  BY <1>1, <1>4 DEF Stack
<1>6. \A d \in CoresOf(n), x \in Addrs :
         r.l1[d][x] = IF d = c /\ x = a THEN NoCell ELSE st.l1[d][x]
  BY <1>2, <1>5
<1>7. ASSUME NEW x \in Addrs
      PROVE  Keeps(n, st, r, x)
  <2>1. Clean(CoresOf(n), r, x) => Clean(CoresOf(n), st, x)
    BY <1>6 DEF Clean, NoCell
  <2> QED
    BY <1>5, <1>6, <2>1 DEF Keeps, Good, Sharp, NoCell
<1>8. Conserves(n, st, r)
  BY <1>5, <1>7 DEF Conserves
<1> QED
  BY <1>8 DEF r

\* The LLC's data after the L1s have written line v back, as it goes down.
LEMMA EvictedGood ==
    ASSUME cfg \in Configs, NEW n \in Nodes, NEW st \in Stack(n), NEW v \in Addrs,
           Good(n, st, v), st.llc[v].s # "I"
    PROVE  Evicted(st, v).f /\ Evicted(st, v).s = st.llc[v].s
<1> DEFINE D == DOMAIN st.l1
           r == UpdatePrev(st, D, v, "I", TRUE)
<1>1. D = CoresOf(n)
  BY StackFields
<1>2. PrevUpdated(n, st, D, v, "I", TRUE, r) /\ Conserves(n, st, r)
  BY <1>1, UpdatePrevFacts, PrevKeeps
<1>3. Evicted(st, v) = r.llc[v]
  BY DEF Evicted
<1> HIDE DEF r, D
<1>4. r.llc[v].s = st.llc[v].s /\ Good(n, r, v)
  BY <1>2 DEF PrevUpdated, Conserves, Keeps
<1>5. cfg.wt \/ Clean(CoresOf(n), r, v)
  BY <1>1, <1>2 DEF Clean, PrevUpdated
<1> QED
  BY <1>3, <1>4, <1>5 DEF Good

\* What a stack keeps of another one: all data, and the states of the LLC but
\* for those that become MODIFIED.
Kind(n, st, r) ==
    \A x \in Addrs : /\ Keeps(n, st, r, x)
                     /\ r.llc[x].s = st.llc[x].s \/ r.llc[x].s = "M"

LEMMA KindNode ==
    ASSUME NEW n, NEW st, NEW r, NEW w, Kind(n, st, r), NodeData(n, st, w)
    PROVE  NodeData(n, r, w)
BY KeepsNode DEF Kind

LEMMA SameKind ==
    ASSUME NEW n, NEW st, NEW r, r.l1 = st.l1, r.llc = st.llc
    PROVE  Kind(n, st, r)
BY DEF Kind, Keeps, Good, Sharp, Clean

LEMMA KindChain ==
    ASSUME NEW n, NEW st, NEW r, NEW k, Kind(n, st, r), Kind(n, r, k)
    PROVE  Kind(n, st, k)
BY DEF Kind, Keeps

LEMMA ConservedKind ==
    ASSUME NEW n, NEW st, NEW r, Conserves(n, st, r)
    PROVE  Kind(n, st, r)
BY DEF Conserves, Kind

LEMMA HitKind ==
    ASSUME cfg \in Configs, NEW n \in Nodes, NEW st \in Stack(n), NEW C \in SUBSET CoresOf(n), NEW t,
           NEW a \in Addrs
    PROVE  Kind(n, st, ServeHit(st, C, t, a))
<1> DEFINE u(new) == UpdatePrev(st, C, a, new, FALSE)
           r == ServeHit(st, C, t, a)
<1>1. Kind(n, st, u("I")) /\ Kind(n, st, u("S"))
  <2>1. Kind(n, st, u("I"))
    BY PrevKeeps, ConservedKind
  <2>2. Kind(n, st, u("S"))
    BY PrevKeeps, ConservedKind
  <2> QED
    BY <2>1, <2>2
<1>2. Kind(n, st, st)
  BY SameKind
<1>3. r \in {u("I"), u("S"), st}
  BY DEF ServeHit
<1> HIDE DEF u, r
<1>4. Kind(n, st, r)
  BY <1>1, <1>2, <1>3
<1> QED
  BY <1>4 DEF r

\* A line whose LLC state becomes MODIFIED keeps all data.
LEMMA RaisedKind ==
    ASSUME NEW n \in Nodes, NEW st \in Stack(n), NEW a \in Addrs, st.llc[a].s # "I"
    PROVE  Kind(n, st, [st EXCEPT !.llc[a].s = "M"])
<1> DEFINE llc == [st.llc EXCEPT ![a].s = "M"]
           r == [st EXCEPT !.llc = llc]
<1>1. /\ llc[a].s = "M" /\ llc[a].f = st.llc[a].f
      /\ \A x \in Addrs : x # a => llc[x] = st.llc[x]
  BY StackFields DEF Cell
<1> HIDE DEF llc
<1>2. r.l1 = st.l1 /\ r.llc = llc
  BY DEF Stack
<1> HIDE DEF r
<1>3. \A x \in Addrs : Keeps(n, st, r, x)
  BY <1>1, <1>2 DEF Keeps, Good, Sharp, Clean
<1>4. Kind(n, st, r)
  BY <1>1, <1>2, <1>3 DEF Kind
<1> QED
  BY <1>4 DEF r, llc

LEMMA UpgradeKind ==
    ASSUME cfg \in Configs, NEW n \in Nodes, NEW st \in Stack(n), NEW C \in SUBSET CoresOf(n),
           NEW a \in Addrs
    PROVE  Kind(n, st, Upgrade(st, C, a))
<1> DEFINE u == UpdatePrev(st, C, a, "I", FALSE)
           inv == IF st.llc[a].s \in {"S", "E"} THEN u ELSE st
           r == Upgrade(st, C, a)
<1>1. PrevUpdated(n, st, C, a, "I", FALSE, u)
  BY UpdatePrevFacts
<1>2. Kind(n, st, u) /\ Kind(n, st, st)
  BY PrevKeeps, ConservedKind, SameKind
<1>3. \/ r = inv
      \/ st.llc[a].s # "I" /\ r = [inv EXCEPT !.llc[a].s = "M"]
  BY DEF Upgrade, Valid
<1>4. inv \in {u, st}
  OBVIOUS
<1> HIDE DEF u, inv, r
<1>5. Kind(n, st, inv) /\ inv \in Stack(n) /\ inv.llc[a].s = st.llc[a].s
  BY <1>1, <1>2, <1>4 DEF PrevUpdated
<1>6. Kind(n, st, r)
  <2>1. CASE r = inv
    BY <1>5, <2>1
  <2>2. CASE st.llc[a].s # "I" /\ r = [inv EXCEPT !.llc[a].s = "M"]
    <3>1. Kind(n, inv, r)
      BY <1>5, <2>2, RaisedKind
    <3> QED
      BY <1>5, <3>1, KindChain
  <2> QED
    BY <1>3, <2>1, <2>2
<1> QED
  BY <1>6 DEF r

\* The data of a line whose upgrade is asked for.
LEMMA UpgradingData ==
    ASSUME NEW n \in Nodes, NEW st \in Stack(n), NEW a \in Addrs, NEW w, NodeData(n, st, w),
           st.llc[a].s = "S", Sharp(n, st, a)
    PROVE  NodeData(n, Upgrading(st, a), w)
<1> DEFINE k == Check(st, st.llc[a].s = "S", "upgrade of a non-SHARED line")
           llc == [st.llc EXCEPT ![a].s = "u"]
           r == Upgrading(st, a)
<1>1. k \in Stack(n) /\ k.l1 = st.l1 /\ k.llc = st.llc
  BY Zenon DEF Check, Stack, Errors
<1>2. /\ llc[a].s = "u" /\ llc[a].f = st.llc[a].f
      /\ \A x \in Addrs : x # a => llc[x] = st.llc[x]
  BY StackFields DEF Cell, States
<1>3. r = [k EXCEPT !.llc[a].s = "u"]
  BY DEF Upgrading
<1> HIDE DEF k, r
<1>4. r = [k EXCEPT !.llc = llc]
  BY <1>1, <1>3
<1> HIDE DEF llc
<1>5. r.l1 = st.l1 /\ r.llc = llc
  BY <1>1, <1>4 DEF Stack
<1>6. \A x \in Addrs : Keeps(n, st, r, x)
  BY <1>2, <1>5 DEF Keeps, Good, Sharp, Clean
<1>7. ASSUME NEW x \in Addrs
      PROVE  LineData(n, r, w, x)
  <2>1. LineData(n, st, w, x)
    BY DEF NodeData
  <2>2. CASE x # a
    BY <1>2, <1>5, <1>6, <2>1, <2>2 DEF LineData, Keeps
  <2>3. CASE x = a
    BY <1>6, <2>1, <2>3 DEF LineData, Keeps
  <2> QED
    BY <2>2, <2>3
<1>8. NodeData(n, r, w)
  BY <1>7 DEF NodeData
<1> QED
  BY <1>8 DEF r

\* What insertCacheBlock at the LLC does to the data of the other lines, and
\* to the line a that comes in.
LEMMA InsertCells ==
    ASSUME cfg \in Configs, NEW n \in Nodes, NEW st \in Stack(n), NEW a \in Addrs,
           NEW cell \in Cell, NEW v \in Addrs \cup {None}, None \notin Addrs, v # a
    PROVE  LET r == InsertLLC(st, a, cell, v) IN
           /\ r.llc[a] = cell /\ (v # None => r.llc[v] = NoCell)
           /\ \A x \in Addrs \ {a, v} : r.llc[x] = st.llc[x]
           /\ \A d \in CoresOf(n), x \in Addrs : x # v => r.l1[d][x] = st.l1[d][x]
<1> DEFINE st1 == Check(st, ~Valid(st.llc[a]), "line already in LLC")
           up == UpdatePrev(st1, DOMAIN st.l1, v, "I", TRUE)
           st2 == IF v = None THEN st1 ELSE up
           ok == v # None /\ ~cfg.direct => st2.llc[v].s \in {"S", "E", "M"}
           st3 == Check(st2, ok, "evicting an upgrading line")
           llc == [x \in Addrs |-> IF x = a THEN cell ELSE IF x = v THEN NoCell ELSE st3.llc[x]]
           r == InsertLLC(st, a, cell, v)
<1>0. r = [st3 EXCEPT !.llc = llc]
  BY DEF InsertLLC
<1>1. st1 \in Stack(n) /\ st1.l1 = st.l1 /\ st1.llc = st.llc
  BY Zenon DEF Check, Stack, Errors
<1> HIDE DEF st1
<1>2. /\ st2 \in Stack(n)
      /\ \A x \in Addrs : x # v => /\ st2.llc[x] = st.llc[x]
                                   /\ \A d \in CoresOf(n) : st2.l1[d][x] = st.l1[d][x]
  <2>1. CASE v = None
    BY <1>1, <2>1
  <2>2. CASE v # None
    <3>1. v \in Addrs /\ DOMAIN st.l1 \in SUBSET CoresOf(n)
      BY <1>1, <2>2, StackFields
    <3>2. PrevUpdated(n, st1, DOMAIN st.l1, v, "I", TRUE, up) /\ PrevData(n, st1, DOMAIN st.l1, v, up)
      BY <1>1, <3>1, UpdatePrevFacts, PrevDataFacts
    <3>3. st2 = up
      BY <2>2
    <3> HIDE DEF st2, up
    <3> QED
      BY <1>1, <3>1, <3>2, <3>3 DEF PrevUpdated, PrevData
  <2> QED
    BY <2>1, <2>2
<1> HIDE DEF st2
<1>3. st3 \in Stack(n) /\ st3.l1 = st2.l1 /\ st3.llc = st2.llc
  <2> HIDE DEF ok
  <2> QED
    BY <1>2, Zenon DEF Check, Stack, Errors
<1> HIDE DEF st3
<1>4. /\ llc[a] = cell /\ (v # None => llc[v] = NoCell)
      /\ \A x \in Addrs \ {a, v} : llc[x] = st3.llc[x]
  OBVIOUS
<1> HIDE DEF llc, r
<1>5. r.llc = llc /\ r.l1 = st3.l1
  BY <1>0, <1>3 DEF Stack
<1>6. /\ r.llc[a] = cell /\ (v # None => r.llc[v] = NoCell)
      /\ \A x \in Addrs \ {a, v} : r.llc[x] = st.llc[x]
      /\ \A d \in CoresOf(n), x \in Addrs : x # v => r.l1[d][x] = st.l1[d][x]
  BY <1>2, <1>3, <1>4, <1>5
<1> QED
  BY <1>6 DEF r

\* A line that comes in with the value written last.
LEMMA InsertGood ==
    ASSUME cfg \in Configs, NEW n \in Nodes, NEW st \in Stack(n), NEW a \in Addrs,
           NEW cell \in Cell, NEW v \in Addrs \cup {None}, None \notin Addrs, v # a,
           cell.f, cell.s # "u", st.llc[a].s = "I", Included(n, st), NEW w, NodeData(n, st, w), NEW z,
           z \in {w, a, None}
    PROVE  NodeData(n, InsertLLC(st, a, cell, v), z)
<1> DEFINE r == InsertLLC(st, a, cell, v)
<1>1. /\ r.llc[a] = cell /\ (v # None => r.llc[v] = NoCell)
      /\ \A x \in Addrs \ {a, v} : r.llc[x] = st.llc[x]
      /\ \A d \in CoresOf(n), x \in Addrs : x # v => r.l1[d][x] = st.l1[d][x]
  BY InsertCells
<1>2. InsertedLLC(n, st, a, cell, v, r)
  BY InsertLLCFacts
<1> HIDE DEF r
<1>3. \A d \in CoresOf(n) : st.l1[d][a].s = "I"
  BY OrderFacts, StackFields DEF Included
<1>4. \A d \in CoresOf(n) : r.l1[d][a].s = "I"
  BY <1>1, <1>3
<1>5. \A d \in CoresOf(n) : v # None => r.l1[d][v].s = "I"
  BY <1>2, Zenon DEF InsertedLLC
<1>6. ASSUME NEW x \in Addrs
      PROVE  LineData(n, r, z, x)
  <2>1. CASE x = a
    BY <1>1, <1>4, <2>1 DEF LineData, Good, Sharp
  <2>2. CASE x = v
    BY <1>1, <1>5, <2>2 DEF LineData, Good, Sharp, NoCell
  <2>3. CASE x # a /\ x # v
    <3>1. r.llc[x] = st.llc[x] /\ \A d \in CoresOf(n) : r.l1[d][x] = st.l1[d][x]
      BY <1>1, <2>3
    <3>2. LineData(n, st, w, x)
      BY DEF NodeData
    <3>3. x = z => x = w
      BY <2>3
    <3> QED
      BY <3>1, <3>2, <3>3 DEF LineData, Good, Sharp, Clean
  <2> QED
    BY <2>1, <2>2, <2>3
<1>7. NodeData(n, r, z)
  BY <1>6 DEF NodeData
<1> QED
  BY <1>7 DEF r

\* What updateCacheBlock at the LLC does to the data.
UpdateData(n, st, a, new, r) ==
    /\ \A x \in Addrs : x # a => r.llc[x] = st.llc[x] /\ \A d \in CoresOf(n) : r.l1[d][x] = st.l1[d][x]
    /\ \A d \in CoresOf(n) : r.l1[d][a].s # "I" => r.l1[d][a].f = st.l1[d][a].f
    /\ r.llc[a].s # "I" => r.llc[a].f = UpdatePrev(st, CoresOf(n), a, new, FALSE).llc[a].f
LEMMA UpdateCells ==
    ASSUME cfg \in Configs, NEW n \in Nodes, NEW st \in Stack(n), NEW a \in Addrs,
           NEW new \in {"I", "S", "M"}, NEW wantsData \in BOOLEAN
    PROVE  UpdateData(n, st, a, new, UpdateLLC(st, a, new, wantsData))
<1> DEFINE prev == UpdatePrev(st, DOMAIN st.l1, a, new, FALSE)
           old == prev.llc[a]
           lost == old.s = "M" /\ ~wantsData
           written == Valid(old) /\ (new \in {"I", "S"} \/ old.s \in {new, "M"})
           cell == IF new = "I" THEN NoCell ELSE [prev.llc[a] EXCEPT !.s = new]
           llc == [prev.llc EXCEPT ![a] = cell]
           upd == IF Valid(old)
                    THEN [prev EXCEPT !.llc[a] = IF new = "I" THEN NoCell ELSE [@ EXCEPT !.s = new]]
                    ELSE prev
           k == Check(upd, ~lost, "MODIFIED data lost")
           ok == wantsData => written
           r == UpdateLLC(st, a, new, wantsData)
<1>1. DOMAIN st.l1 = CoresOf(n) /\ DOMAIN st.l1 \in SUBSET CoresOf(n)
  BY StackFields
<1>2. PrevUpdated(n, st, DOMAIN st.l1, a, new, FALSE, prev) /\ PrevData(n, st, DOMAIN st.l1, a, prev)
  BY <1>1, UpdatePrevFacts, PrevDataFacts
<1>3. r = Check(k, ok, "out_buf never written")
  BY DEF UpdateLLC
<1>4. prev = UpdatePrev(st, CoresOf(n), a, new, FALSE)
  BY <1>1
<1> HIDE DEF prev
<1>5. prev \in Stack(n) /\ prev.llc \in [Addrs -> Cell]
  BY <1>2, StackFields DEF PrevUpdated
<1>6. cell \in Cell /\ (cell.s # "I" => cell.f = prev.llc[a].f)
  BY <1>5 DEF NoCell, Cell, States
<1>7. /\ llc \in [Addrs -> Cell] /\ llc[a] = cell
      /\ \A x \in Addrs : x # a => llc[x] = prev.llc[x]
  <2> HIDE DEF cell
  <2> QED
    BY <1>5, <1>6
<1>8. /\ upd \in Stack(n) /\ upd.l1 = prev.l1
      /\ upd.llc[a].s # "I" => upd.llc[a].f = prev.llc[a].f
      /\ \A x \in Addrs : x # a => upd.llc[x] = prev.llc[x]
  <2>1. CASE Valid(old)
    <3>1. upd = [prev EXCEPT !.llc = llc]
      BY <2>1
    <3> HIDE DEF llc, upd, cell
    <3> QED
      BY <1>5, <1>6, <1>7, <3>1 DEF Stack
  <2>2. CASE ~Valid(old)
    BY <1>5, <2>2
  <2> QED
    BY <2>1, <2>2
<1> HIDE DEF upd, lost, ok
<1>9. k \in Stack(n) /\ k.l1 = upd.l1 /\ k.llc = upd.llc
  BY <1>8, Zenon DEF Check, Stack, Errors
<1> HIDE DEF k, r
<1>10. r.l1 = upd.l1 /\ r.llc = upd.llc
  BY <1>3, <1>9, Zenon DEF Check, Stack, Errors
<1>11. UpdateData(n, st, a, new, r)
  <2>1. r.l1 = prev.l1
    BY <1>8, <1>10
  <2>2. /\ \A x \in Addrs : x # a => r.llc[x] = prev.llc[x]
        /\ r.llc[a].s # "I" => r.llc[a].f = prev.llc[a].f
    BY <1>8, <1>10
  <2>3. r.llc[a].s # "I" => r.llc[a].f = UpdatePrev(st, CoresOf(n), a, new, FALSE).llc[a].f
    BY <1>4, <2>2
  <2>4. PrevData(n, st, DOMAIN st.l1, a, prev)
    BY <1>2
  <2> HIDE DEF upd
  <2> QED
    BY <2>1, <2>2, <2>3, <2>4, ZenonT(30) DEF UpdateData, PrevData
<1> QED
  BY <1>11 DEF r

\* The value an LLC sends back when the directory asks for it.
LEMMA SharedGood ==
    ASSUME cfg \in Configs, NEW n \in Nodes, NEW st \in Stack(n), NEW a \in Addrs, NEW new \in {"I", "S"},
           Good(n, st, a), st.llc[a].s # "I"
    PROVE  UpdatePrev(st, CoresOf(n), a, new, FALSE).llc[a].f
<1> DEFINE r == UpdatePrev(st, CoresOf(n), a, new, FALSE)
<1>1. PrevUpdated(n, st, CoresOf(n), a, new, FALSE, r) /\ Conserves(n, st, r)
  BY UpdatePrevFacts, PrevKeeps
<1> HIDE DEF r
<1>2. r.llc[a].s # "I" /\ Good(n, r, a)
  BY <1>1 DEF PrevUpdated, Conserves, Keeps
<1>3. Clean(CoresOf(n), r, a)
  BY <1>1 DEF Clean, PrevUpdated
<1>4. r.llc[a].f
  BY <1>2, <1>3 DEF Good
<1> QED
  BY <1>4 DEF r

\* The directory takes rights away: the data that is left is as good as it was.
LEMMA TakenGood ==
    ASSUME cfg \in Configs, NEW n \in Nodes, NEW st \in Stack(n), NEW a \in Addrs, NEW new \in {"I", "S"},
           NEW wantsData \in BOOLEAN, NEW w, w # a, NodeData(n, st, w)
    PROVE  NodeData(n, UpdateLLC(st, a, new, wantsData), w)
<1> DEFINE r == UpdateLLC(st, a, new, wantsData)
<1>1. UpdateData(n, st, a, new, r) /\ UpdatedLLC(n, st, a, new, wantsData, r)
  BY UpdateCells, UpdateLLCFacts
<1> HIDE DEF r
<1>2. ASSUME NEW x \in Addrs, x # a
      PROVE  LineData(n, r, w, x)
  <2>1. r.llc[x] = st.llc[x] /\ \A d \in CoresOf(n) : r.l1[d][x] = st.l1[d][x]
    BY <1>1, <1>2 DEF UpdateData
  <2>2. LineData(n, st, w, x)
    BY DEF NodeData
  <2> QED
    BY <2>1, <2>2 DEF LineData, Good, Sharp, Clean
<1>3. LineData(n, r, w, a)
  <2>1. \A d \in CoresOf(n) : r.l1[d][a].s # "M"
    BY <1>1, Zenon DEF UpdatedLLC
  <2>2. r.llc[a].s # "I" => st.llc[a].s # "I" /\ r.llc[a].s = new
    BY <1>1, Zenon DEF UpdatedLLC
  <2>3. r.llc[a].s # "I" => r.llc[a].f
    BY <1>1, <2>2, SharedGood DEF UpdateData, NodeData, LineData
  <2> QED
    BY <2>1, <2>2, <2>3 DEF LineData, Good
<1>4. NodeData(n, r, w)
  BY <1>2, <1>3 DEF NodeData
<1> QED
  BY <1>4 DEF r

\* An upgrade reply: every copy of the line becomes dirty, and has the data.
LEMMA RaisedGood ==
    ASSUME cfg \in Configs, NEW n \in Nodes, NEW st \in Stack(n), NEW a \in Addrs,
           NEW w, NodeData(n, st, w), st.llc[a].s = "u", NEW z, z \in {w, a, None}, None \notin Addrs
    PROVE  NodeData(n, UpdateLLC(st, a, "M", FALSE), z)
<1> DEFINE r == UpdateLLC(st, a, "M", FALSE)
           p == UpdatePrev(st, CoresOf(n), a, "M", FALSE)
<1>1. /\ UpdateData(n, st, a, "M", r) /\ UpdatedLLC(n, st, a, "M", FALSE, r)
      /\ PrevData(n, st, CoresOf(n), a, p)
  BY UpdateCells, UpdateLLCFacts, PrevDataFacts
<1>2. r.llc[a].s # "I" => r.llc[a].f = p.llc[a].f
  BY <1>1 DEF UpdateData
<1> HIDE DEF r, p
<1>3. ASSUME NEW x \in Addrs, x # a
      PROVE  LineData(n, r, z, x)
  <2>1. r.llc[x] = st.llc[x] /\ \A d \in CoresOf(n) : r.l1[d][x] = st.l1[d][x]
    BY <1>1, <1>3 DEF UpdateData
  <2>2. LineData(n, st, w, x)
    BY DEF NodeData
  <2>3. x = z => x = w
    BY <1>3
  <2> QED
    BY <2>1, <2>2, <2>3 DEF LineData, Good, Sharp, Clean
<1>4. LineData(n, r, z, a)
  <2>1. Sharp(n, st, a) /\ Good(n, st, a)
    BY DEF NodeData, LineData
  <2>2. r.llc[a].s = "M" /\ \A d \in CoresOf(n) : r.l1[d][a].s = IF st.l1[d][a].s # "I" THEN "M" ELSE "I"
    BY <1>1 DEF UpdatedLLC
  <2>3. \A d \in CoresOf(n) : r.l1[d][a].s # "I" => r.l1[d][a].f = st.l1[d][a].f
    BY <1>1 DEF UpdateData
  <2>4. ~cfg.wt => \A d \in CoresOf(n) : r.l1[d][a].s = "M" => r.l1[d][a].f
    BY <2>1, <2>2, <2>3 DEF Sharp
  <2>5. ASSUME cfg.wt \/ Clean(CoresOf(n), r, a)
        PROVE  r.llc[a].f
    <3>1. cfg.wt \/ Clean(CoresOf(n), st, a)
      BY <2>2, <2>5 DEF Clean
    <3>2. p.llc[a].f = st.llc[a].f
      BY <1>1, <3>1 DEF PrevData
    <3>3. st.llc[a].f
      BY <2>1, <3>1 DEF Good
    <3> QED
      BY <1>2, <2>2, <3>2, <3>3
  <2> QED
    BY <2>2, <2>4, <2>5 DEF LineData, Good
<1>5. NodeData(n, r, z)
  BY <1>3, <1>4 DEF NodeData
<1> QED
  BY <1>5 DEF r

-----------------------------------------------------------------------------
\* What copyDataFromNextLevel does to the data: the L1 takes the LLC's line,
\* and a dirty victim is written back.
CopyData(n, st, c, a, v, r) ==
    /\ \A d \in CoresOf(n), x \in Addrs :
          r.l1[d][x] = IF d # c THEN st.l1[d][x]
                       ELSE IF x = a THEN st.llc[a] ELSE IF x = v THEN NoCell ELSE st.l1[c][x]
    /\ \A x \in Addrs : /\ r.llc[x].s = st.llc[x].s
                        /\ r.llc[x].f = IF x = v /\ ~cfg.wt /\ st.l1[c][x].s = "M"
                                          THEN st.l1[c][x].f ELSE st.llc[x].f

LEMMA CopyCells ==
    ASSUME NEW n \in Nodes, NEW st \in Stack(n), NEW c \in CoresOf(n), NEW t, NEW a \in Addrs,
           NEW v \in Addrs \cup {None}, None \notin Addrs
    PROVE  CopyData(n, st, c, a, v, CopyDataFromNextLevel(st, c, t, a, v))
<1> DEFINE k == Check(st, Permissible(st.llc[a], t), "data already gone")
           dirty == v # None /\ ~cfg.wt /\ k.l1[c][v].s = "M"
           st1 == Check(k, ~Valid(k.l1[c][a]), "line already in L1")
           st2 == Check(st1, dirty => k.llc[v].s = "M", "writeback to non-M line")
           st3 == IF dirty THEN [st2 EXCEPT !.llc[v].f = k.l1[c][v].f] ELSE st2
           cells == [x \in Addrs |-> IF x = a THEN st.llc[a]
                                    ELSE IF x = v THEN NoCell ELSE k.l1[c][x]]
           r == CopyDataFromNextLevel(st, c, t, a, v)
<1>1. r = [st3 EXCEPT !.l1[c] = cells]
  BY DEF CopyDataFromNextLevel, InsertL1
<1>2. k \in Stack(n) /\ k.l1 = st.l1 /\ k.llc = st.llc
  BY Zenon DEF Check, Stack, Errors
<1> HIDE DEF k
<1>3. st1 \in Stack(n) /\ st1.l1 = st.l1 /\ st1.llc = st.llc
  BY <1>2, Zenon DEF Check, Stack, Errors
<1> HIDE DEF st1
<1>4. st2 \in Stack(n) /\ st2.l1 = st.l1 /\ st2.llc = st.llc
  BY <1>3, Zenon DEF Check, Stack, Errors
<1> HIDE DEF st2
<1>5. /\ st3 \in Stack(n) /\ st3.l1 = st.l1
      /\ \A x \in Addrs : /\ st3.llc[x].s = st.llc[x].s
                          /\ st3.llc[x].f = IF x = v /\ ~cfg.wt /\ st.l1[c][x].s = "M"
                                              THEN st.l1[c][x].f ELSE st.llc[x].f
  <2>1. CASE dirty
    <3> DEFINE f == st.l1[c][v].f
               cl == [st.llc[v] EXCEPT !.f = f]
               llc == [st.llc EXCEPT ![v] = cl]
    <3>1. v \in Addrs /\ f \in BOOLEAN /\ ~cfg.wt /\ st.l1[c][v].s = "M"
      BY <1>2, <2>1, StackFields
    <3>2. st3 = [st2 EXCEPT !.llc = llc]
      BY <1>2, <1>4, <2>1
    <3> HIDE DEF f
    <3>3. /\ llc \in [Addrs -> Cell]
          /\ \A x \in Addrs : llc[x].s = st.llc[x].s /\ llc[x].f = IF x = v THEN f ELSE st.llc[x].f
      <4>1. cl \in Cell /\ cl.s = st.llc[v].s /\ cl.f = f
        BY <3>1, StackFields DEF Cell
      <4> HIDE DEF cl
      <4>2. llc \in [Addrs -> Cell] /\ \A x \in Addrs : llc[x] = IF x = v THEN cl ELSE st.llc[x]
        BY <4>1, StackFields
      <4> HIDE DEF llc
      <4> QED
        BY <4>1, <4>2
    <3> HIDE DEF llc, st3
    <3>4. st3 \in Stack(n) /\ st3.l1 = st.l1 /\ st3.llc = llc
      BY <1>4, <3>2, <3>3 DEF Stack
    <3> QED
      BY <3>1, <3>3, <3>4 DEF f
  <2>2. CASE ~dirty
    <3>1. st3 = st2
      BY <2>2
    <3>2. \A x \in Addrs : ~(x = v /\ ~cfg.wt /\ st.l1[c][x].s = "M")
      BY <1>2, <2>2
    <3> HIDE DEF st3, dirty
    <3> QED
      BY <1>4, <3>1, <3>2
  <2> QED
    BY <2>1, <2>2
<1> HIDE DEF st3
<1> DEFINE l1 == [st.l1 EXCEPT ![c] = cells]
<1>6. \A d \in CoresOf(n), x \in Addrs :
         l1[d][x] = IF d # c THEN st.l1[d][x]
                    ELSE IF x = a THEN st.llc[a] ELSE IF x = v THEN NoCell ELSE st.l1[c][x]
  BY <1>2, StackFields
<1> HIDE DEF r, cells
<1>7. r = [st3 EXCEPT !.l1 = l1]
  BY <1>1, <1>5
<1> HIDE DEF l1
<1>8. r.l1 = l1 /\ r.llc = st3.llc
  BY <1>5, <1>7 DEF Stack
<1>9. CopyData(n, st, c, a, v, r)
  BY <1>5, <1>6, <1>8 DEF CopyData
<1> QED
  BY <1>9 DEF r

LEMMA CopyKind ==
    ASSUME NEW n \in Nodes, NEW st \in Stack(n), NEW c \in CoresOf(n), NEW t, NEW a \in Addrs,
           NEW v \in Addrs \cup {None}, None \notin Addrs, v # a, Clean(CoresOf(n), st, a), st.llc[a].s # "I",
           Good(n, st, a)
    PROVE  Kind(n, st, CopyDataFromNextLevel(st, c, t, a, v))
<1> DEFINE r == CopyDataFromNextLevel(st, c, t, a, v)
<1>1. CopyData(n, st, c, a, v, r)
  BY CopyCells
<1> HIDE DEF r
<1>2. st.llc[a].f
  BY DEF Good
<1>3. ASSUME NEW x \in Addrs
      PROVE  Keeps(n, st, r, x)
  <2>1. CASE x = a
    <3>1. /\ r.llc[a].f = st.llc[a].f
          /\ \A d \in CoresOf(n) : r.l1[d][a] = IF d # c THEN st.l1[d][a] ELSE st.llc[a]
      BY <1>1 DEF CopyData
    <3>2. r.llc[a].f
      BY <1>2, <3>1
    <3> QED
      BY <1>2, <2>1, <3>1, <3>2 DEF Keeps, Good, Sharp
  <2>2. CASE x = v
    <3>1. /\ \A d \in CoresOf(n) : r.l1[d][x] = IF d # c THEN st.l1[d][x] ELSE NoCell
          /\ r.llc[x].s = st.llc[x].s
          /\ r.llc[x].f = IF ~cfg.wt /\ st.l1[c][x].s = "M" THEN st.l1[c][x].f ELSE st.llc[x].f
      BY <1>1, <2>2 DEF CopyData
    <3>2. Sharp(n, st, x) => Sharp(n, r, x)
      BY <3>1 DEF Sharp, NoCell
    <3>3. ASSUME Good(n, st, x)
          PROVE  Good(n, r, x)
      <4>1. ~cfg.wt => \A d \in CoresOf(n) : r.l1[d][x].s = "M" => r.l1[d][x].f
        BY <3>1, <3>3 DEF Good, NoCell
      <4>2. ASSUME r.llc[x].s # "I", cfg.wt
            PROVE  r.llc[x].f
        BY <3>1, <3>3, <4>2 DEF Good
      <4>3. ASSUME r.llc[x].s # "I", ~cfg.wt, Clean(CoresOf(n), r, x)
            PROVE  r.llc[x].f
        <5>1. CASE st.l1[c][x].s = "M"
          BY <3>1, <3>3, <4>3, <5>1 DEF Good
        <5>2. CASE st.l1[c][x].s # "M"
          <6>1. Clean(CoresOf(n), st, x)
            BY <3>1, <4>3, <5>2 DEF Clean
          <6> QED
            BY <3>1, <3>3, <4>3, <5>2, <6>1 DEF Good
        <5> QED
          BY <5>1, <5>2
      <4> QED
        BY <4>1, <4>2, <4>3 DEF Good
    <3> QED
      BY <3>2, <3>3 DEF Keeps
  <2>3. CASE x # a /\ x # v
    <3>1. /\ \A d \in CoresOf(n) : r.l1[d][x] = st.l1[d][x]
          /\ r.llc[x].s = st.llc[x].s /\ r.llc[x].f = st.llc[x].f
      BY <1>1, <2>3 DEF CopyData
    <3> QED
      BY <3>1 DEF Keeps, Good, Sharp, Clean
  <2> QED
    BY <2>1, <2>2, <2>3
<1>4. Kind(n, st, r)
  BY <1>1, <1>3 DEF Kind, CopyData
<1> QED
  BY <1>4 DEF r

\* A write to line a leaves the data of other lines alone.
OnlyLine(n, st, a, r) ==
    \A x \in Addrs : x # a => /\ r.llc[x] = st.llc[x]
                              /\ \A d \in CoresOf(n) : r.l1[d][x] = st.l1[d][x]
LEMMA OldStackData ==
    ASSUME NEW n \in Nodes, NEW st \in Stack(n), NEW a \in Addrs
    PROVE  OnlyLine(n, st, a, OldStack(st, a))
<1> DEFINE old(cells) == OldCells(cells, a)
           l1 == [c \in DOMAIN st.l1 |-> old(st.l1[c])]
           llc == old(st.llc)
           r == OldStack(st, a)
<1>1. ASSUME NEW cells \in [Addrs -> Cell]
      PROVE  \A x \in Addrs : x # a => old(cells)[x] = cells[x]
  BY <1>1 DEF OldCells
<1> HIDE DEF old
<1>2. \A d \in CoresOf(n), x \in Addrs : x # a => l1[d][x] = st.l1[d][x]
  BY <1>1, StackFields
<1>3. \A x \in Addrs : x # a => llc[x] = st.llc[x]
  BY <1>1, StackFields
<1>4. r = [st EXCEPT !.l1 = l1, !.llc = llc]
  BY DEF OldStack, old
<1> HIDE DEF l1, llc, r
<1>5. r.l1 = l1 /\ r.llc = llc
  BY <1>4 DEF Stack
<1>6. OnlyLine(n, st, a, r)
  BY <1>2, <1>3, <1>5 DEF OnlyLine
<1> QED
  BY <1>6 DEF r

LEMMA WrittenData ==
    ASSUME cfg \in Configs, NEW n \in Nodes, NEW st \in Stack(n), NEW c \in CoresOf(n), NEW a \in Addrs
    PROVE  LET r == Written(st, c, a) IN
           OnlyLine(n, st, a, r) /\ r.l1[c][a].f /\ (r.llc[a].f <=> cfg.wt)
<1> DEFINE k == OldStack(st, a)
           cell == [k.l1[c][a] EXCEPT !.f = TRUE]
           row == [k.l1[c] EXCEPT ![a] = cell]
           l1 == [k.l1 EXCEPT ![c] = row]
           top == [k.llc[a] EXCEPT !.f = cfg.wt]
           llc == [k.llc EXCEPT ![a] = top]
           r == Written(st, c, a)
<1>0. cfg.wt \in BOOLEAN
  BY CacheAssumption
<1>1. k \in Stack(n) /\ OnlyLine(n, st, a, k)
  BY OldStackFacts, OldStackData DEF SameStates
<1>2. r = [k EXCEPT !.l1 = l1, !.llc = llc]
  <2>1. r = [k EXCEPT !.l1[c][a].f = TRUE, !.llc[a].f = cfg.wt]
    BY DEF Written
  <2> HIDE DEF k, r
  <2> QED
    BY <1>1, <2>1 DEF Stack
<1> HIDE DEF k
<1>3. cell \in Cell /\ cell.f /\ top \in Cell /\ (top.f <=> cfg.wt)
  <2>1. k.l1[c][a] \in Cell /\ k.llc[a] \in Cell
    BY <1>1, StackFields
  <2>2. \A e \in Cell, b \in BOOLEAN : /\ [e EXCEPT !.f = b] \in Cell
                                       /\ [e EXCEPT !.f = b].f <=> b
    BY DEF Cell
  <2>3. cell \in Cell /\ cell.f
    BY <2>1, <2>2
  <2>4. top \in Cell /\ (top.f <=> cfg.wt)
    BY <1>0, <2>1, <2>2
  <2> QED
    BY <2>3, <2>4
<1> HIDE DEF cell, top
<1>4. row[a] = cell /\ \A x \in Addrs : x # a => row[x] = k.l1[c][x]
  BY <1>1, StackFields
<1>5. llc[a] = top /\ \A x \in Addrs : x # a => llc[x] = k.llc[x]
  BY <1>1, StackFields
<1> HIDE DEF row, llc
<1>6. l1[c] = row /\ \A d \in CoresOf(n) : d # c => l1[d] = k.l1[d]
  BY <1>1, StackFields
<1> HIDE DEF l1, r
<1>7. r.l1 = l1 /\ r.llc = llc
  BY <1>1, <1>2 DEF Stack
<1>8. OnlyLine(n, st, a, r) /\ r.l1[c][a].f /\ (r.llc[a].f <=> cfg.wt)
  BY <1>1, <1>3, <1>4, <1>5, <1>6, <1>7 DEF OnlyLine
<1> QED
  BY <1>8 DEF r

\* What an access of core c does to the data of stacks and messages.
Reads(n, st) ==
    /\ stack'[n].l1 = st.l1 /\ stack'[n].llc = st.llc /\ \A m \in Nodes \ {n} : stack'[m] = stack[m]
    /\ toDir' = toDir /\ toCache' = toCache
Writes(n, c, a, st) ==
    /\ OnlyLine(n, st, a, stack'[n]) /\ stack'[n].l1[c][a].f /\ (stack'[n].llc[a].f <=> cfg.wt)
    /\ \A m \in Nodes \ {n} : OnlyLine(m, stack[m], a, stack'[m])
    /\ \A m \in Nodes : toDir'[m] = OldMsgs(toDir[m], a) /\ toCache'[m] = OldMsgs(toCache[m], a)
LEMMA AccessData ==
    ASSUME cfg \in Configs, StacksOK, NEW n \in Nodes, NEW c \in CoresOf(n),
           NEW o, o.a \in Addrs, NEW st \in Stack(n), Access(n, c, o, st)
    PROVE  IF o.t = "W" THEN Writes(n, c, o.a, st) ELSE Reads(n, st)
<1> DEFINE a == o.a
           ok == Check(st, Permissible(st.l1[c][a], o.t), "not valid in L1")
           wr == [OldStack(ok, a) EXCEPT !.l1[c][a].f = TRUE, !.llc[a].f = cfg.wt]
           wt == Check(wr, cfg.wt => wr.llc[a].s = "M", "writeback to non-M line")
           done == IF o.t = "W" THEN wt ELSE ok
<1>1. ok \in Stack(n) /\ ok.l1 = st.l1 /\ ok.llc = st.llc
  BY Zenon DEF Check, Stack, Errors
<1> HIDE DEF ok
<1>2. wr \in Stack(n) /\ OnlyLine(n, ok, a, wr) /\ wr.l1[c][a].f /\ (wr.llc[a].f <=> cfg.wt)
  <2>1. wr = Written(ok, c, a)
    BY DEF Written
  <2> HIDE DEF wr
  <2> QED
    BY <1>1, <2>1, WrittenFacts, WrittenData DEF SameStates
<1> HIDE DEF wr
<1>3. wt.l1 = wr.l1 /\ wt.llc = wr.llc
  BY <1>2, Zenon DEF Check, Stack, Errors
<1> HIDE DEF wt
<1>4. CASE o.t = "W"
  <2>1. /\ stack' = [m \in Nodes |-> IF m = n THEN wt ELSE OldStack(stack[m], a)]
        /\ toDir' = [m \in Nodes |-> OldMsgs(toDir[m], a)]
        /\ toCache' = [m \in Nodes |-> OldMsgs(toCache[m], a)]
    <3>1. stack' = [m \in Nodes |-> IF m = n THEN done ELSE OldStack(stack[m], a)]
      BY <1>4, Zenon DEF Access, done, ok, wr, wt
    <3>2. /\ toDir' = [m \in Nodes |-> OldMsgs(toDir[m], a)]
          /\ toCache' = [m \in Nodes |-> OldMsgs(toCache[m], a)]
      BY <1>4, Zenon DEF Access
    <3> QED
      BY <1>4, <3>1, <3>2, ZenonT(30)
  <2>2. ASSUME NEW m \in Nodes \ {n}
        PROVE  OnlyLine(m, stack[m], a, stack'[m])
    <3>1. stack'[m] = OldStack(stack[m], a) /\ stack[m] \in Stack(m)
      BY <2>1 DEF StacksOK
    <3> QED
      BY <3>1, OldStackData
  <2>3. stack'[n] = wt
    BY <2>1
  <2>4. OnlyLine(n, st, a, stack'[n]) /\ stack'[n].l1[c][a].f /\ (stack'[n].llc[a].f <=> cfg.wt)
    BY <1>1, <1>2, <1>3, <2>3 DEF OnlyLine
  <2>5. \A m \in Nodes : toDir'[m] = OldMsgs(toDir[m], a) /\ toCache'[m] = OldMsgs(toCache[m], a)
    BY <2>1
  <2>6. Writes(n, c, a, st)
    BY <2>2, <2>4, <2>5 DEF Writes
  <2> QED
    BY <1>4, <2>6
<1>5. CASE o.t # "W"
  <2>1. stack' = [stack EXCEPT ![n] = ok] /\ toDir' = toDir /\ toCache' = toCache
    BY <1>5, Zenon DEF Access, done, ok, wr, wt
  <2>2. stack'[n] = ok /\ \A m \in Nodes \ {n} : stack'[m] = stack[m]
    BY <2>1 DEF StacksOK
  <2>3. Reads(n, st)
    BY <1>1, <2>1, <2>2 DEF Reads
  <2> QED
    BY <1>5, <2>3, Zenon
<1> QED
  BY <1>4, <1>5

-----------------------------------------------------------------------------
(* The data on its way, and in DRAM *)

\* A line comes with the value written last.
Carried(q) == \A i \in DOMAIN q : q[i].t \in {"SH_REP", "EX_REP"} => q[i].f
\* The data that goes from LLC n to the directory D is the value written last,
\* comes from the owner of the line and is the only data of it on its way.
Reports(n, q, D) ==
    \A i \in DOMAIN q :
       /\ q[i].d <=> q[i].t \in {"FLUSH_REP", "WB_REP"}
       /\ q[i].d => /\ q[i].f /\ D[q[i].a].owner = n
                    /\ \A j \in DOMAIN q : q[j].d /\ q[j].a = q[i].a => j = i
InFlight(x, T) == \E m \in Nodes : \E i \in DOMAIN T[m] : T[m][i].a = x /\ T[m][i].d
DataInv ==
    /\ \A n \in Nodes : /\ NodeData(n, stack[n], net[n].a)
                        /\ Carried(toCache[n]) /\ Reports(n, toDir[n], dir)
    /\ \A x \in Addrs : \/ dram[x] \/ (\E n \in Nodes : stack[n].llc[x].s = "M")
                        \/ InFlight(x, toDir)

LEMMA DataNext ==
    ASSUME cfg' = cfg,
           \A n \in Nodes : /\ NodeData(n, stack'[n], net'[n].a)
                            /\ Carried(toCache'[n]) /\ Reports(n, toDir'[n], dir'),
           \A x \in Addrs : \/ dram'[x] \/ (\E n \in Nodes : stack'[n].llc[x].s = "M")
                            \/ InFlight(x, toDir')
    PROVE  DataInv'
<1>1. \A n \in Nodes : (NodeData(n, stack[n], net[n].a))'
  BY DEF NodeData, LineData, Good, Sharp, Clean, CoresOf
<1>2. \A n \in Nodes : (Carried(toCache[n]) /\ Reports(n, toDir[n], dir))'
  BY DEF Carried, Reports
<1>3. \A x \in Addrs : (dram[x] \/ (\E n \in Nodes : stack[n].llc[x].s = "M") \/ InFlight(x, toDir))'
  BY DEF InFlight
<1> QED
  BY <1>1, <1>2, <1>3 DEF DataInv

\* A step that works on the caches of node n has come to stack st and DRAM
\* contents d.
Elsewhere(n, x) == (\E m \in Nodes \ {n} : stack[m].llc[x].s = "M") \/ InFlight(x, toDir)
Ready(n, st, d) == /\ NodeData(n, st, net[n].a)
                   /\ \A x \in Addrs : d[x] \/ st.llc[x].s = "M" \/ Elsewhere(n, x)
LEMMA ReadyNow ==
    ASSUME DataInv, NEW n \in Nodes
    PROVE  Ready(n, stack[n], dram)
BY DEF DataInv, Ready, Elsewhere
LEMMA ReadyKind ==
    ASSUME NEW n, NEW st, NEW d, NEW r, Ready(n, st, d), Kind(n, st, r)
    PROVE  Ready(n, r, d)
<1>1. NodeData(n, r, net[n].a)
  BY KindNode DEF Ready
<1>2. \A x \in Addrs : st.llc[x].s = "M" => r.llc[x].s = "M"
  BY DEF Kind
<1> QED
  BY <1>1, <1>2 DEF Ready
SameWork == \A m \in Nodes : net'[m].a = net[m].a
\* The step ends with stack r for node n and sends nothing.
LEMMA ReadyEnd ==
    ASSUME DataInv, NEW n \in Nodes, NEW r, Ready(n, r, dram'), stack'[n].l1 = r.l1, stack'[n].llc = r.llc,
           \A m \in Nodes \ {n} : stack'[m] = stack[m], UNCHANGED <<cfg, toDir, toCache, dir>>, SameWork
    PROVE  DataInv'
<1>1. ASSUME NEW m \in Nodes
      PROVE  /\ NodeData(m, stack'[m], net'[m].a)
             /\ Carried(toCache'[m]) /\ Reports(m, toDir'[m], dir')
  <2>1. CASE m = n
    BY <2>1, KindNode, SameKind DEF Ready, SameWork, DataInv
  <2>2. CASE m # n
    BY <2>2 DEF SameWork, DataInv
  <2> QED
    BY <2>1, <2>2
<1>2. ASSUME NEW x \in Addrs
      PROVE  \/ dram'[x] \/ (\E m \in Nodes : stack'[m].llc[x].s = "M") \/ InFlight(x, toDir')
  <2>1. dram'[x] \/ r.llc[x].s = "M" \/ Elsewhere(n, x)
    BY DEF Ready
  <2>2. ASSUME NEW m \in Nodes \ {n}, stack[m].llc[x].s = "M"
        PROVE  stack'[m].llc[x].s = "M"
    BY <2>2
  <2> QED
    BY <2>1, <2>2 DEF Elsewhere
<1> QED
  BY <1>1, <1>2, DataNext

\* Nobody but LLC n has line a, and no data of it is on its way.
AloneAt(n, a) ==
    /\ \A m \in Nodes \ {n} : stack[m].llc[a].s = "I"
    /\ \A m \in Nodes : /\ \A i \in DOMAIN toCache[m] :
                              toCache[m][i].a = a => toCache[m][i].t \notin {"SH_REP", "EX_REP"}
                        /\ \A i \in DOMAIN toDir[m] : toDir[m][i].a = a => ~toDir[m][i].d
LEMMA OldMsgsData ==
    ASSUME NEW T, T \in {ToDir, ToCache}, NEW q \in Seq(T), NEW a, NEW r, r = OldMsgs(q, a)
    PROVE  /\ DOMAIN r = DOMAIN q
           /\ \A i \in DOMAIN q : /\ r[i].t = q[i].t /\ r[i].a = q[i].a /\ r[i].d = q[i].d
                                  /\ q[i].a # a => r[i] = q[i]
<1>1. SameKinds(q, r)
  BY OldMsgsFacts
<1>2. \A i \in DOMAIN q : q[i].a # a => r[i] = q[i]
  BY DEF OldMsgs
<1> QED
  BY <1>1, <1>2 DEF SameKinds
LEMMA OldCarried ==
    ASSUME NEW q \in Seq(ToCache), NEW a, Carried(q),
           \A i \in DOMAIN q : q[i].a = a => q[i].t \notin {"SH_REP", "EX_REP"}
    PROVE  Carried(OldMsgs(q, a))
<1> DEFINE r == OldMsgs(q, a)
<1>1. /\ DOMAIN r = DOMAIN q
      /\ \A i \in DOMAIN q : r[i].t = q[i].t /\ r[i].a = q[i].a /\ (q[i].a # a => r[i] = q[i])
  BY OldMsgsData
<1> HIDE DEF r
<1>2. Carried(r)
  BY <1>1 DEF Carried
<1> QED
  BY <1>2 DEF r
LEMMA OldReports ==
    ASSUME NEW n, NEW q \in Seq(ToDir), NEW a, NEW D, Reports(n, q, D),
           \A i \in DOMAIN q : q[i].a = a => ~q[i].d
    PROVE  Reports(n, OldMsgs(q, a), D)
<1> DEFINE r == OldMsgs(q, a)
<1>1. /\ DOMAIN r = DOMAIN q
      /\ \A i \in DOMAIN q : /\ r[i].t = q[i].t /\ r[i].a = q[i].a /\ r[i].d = q[i].d
                             /\ q[i].a # a => r[i] = q[i]
  BY OldMsgsData
<1> HIDE DEF r
<1>2. Reports(n, r, D)
  BY <1>1 DEF Reports
<1> QED
  BY <1>2 DEF r
LEMMA OldInFlight ==
    ASSUME ChannelsOK, NEW a, \A m \in Nodes : toDir'[m] = OldMsgs(toDir[m], a), NEW x, InFlight(x, toDir)
    PROVE  InFlight(x, toDir')
<1>1. PICK m \in Nodes : \E i \in DOMAIN toDir[m] : toDir[m][i].a = x /\ toDir[m][i].d
  BY DEF InFlight
<1>2. PICK i \in DOMAIN toDir[m] : toDir[m][i].a = x /\ toDir[m][i].d
  BY <1>1
<1>3. toDir[m] \in Seq(ToDir) /\ toDir'[m] = OldMsgs(toDir[m], a)
  BY DEF ChannelsOK
<1>4. i \in DOMAIN toDir'[m] /\ toDir'[m][i].a = x /\ toDir'[m][i].d
  BY <1>2, <1>3, OldMsgsData
<1> QED
  BY <1>4 DEF InFlight

\* A line with the same cells in another stack, and one that is not there.
LEMMA SameLine ==
    ASSUME NEW n, NEW st, NEW r, NEW w, NEW x, LineData(n, st, w, x), r.llc[x] = st.llc[x],
           \A d \in CoresOf(n) : r.l1[d][x] = st.l1[d][x]
    PROVE  LineData(n, r, w, x)
BY DEF LineData, Good, Sharp, Clean

LEMMA AbsentLine ==
    ASSUME NEW n \in Nodes, NEW r \in Stack(n), Included(n, r), NEW w, NEW x \in Addrs, r.llc[x].s = "I"
    PROVE  LineData(n, r, w, x)
<1>1. \A d \in CoresOf(n) : r.l1[d][x].s = "I"
  BY OrderFacts, StackFields DEF Included
<1> QED
  BY <1>1 DEF LineData, Good, Sharp

\* The step ends with a write of core c to line a of stack st, which no other
\* LLC has and no other L1 has dirty: every other value of the line is old.
LEMMA WrittenNode ==
    ASSUME NEW n \in Nodes, NEW st \in Stack(n), NEW c \in CoresOf(n), NEW a \in Addrs, NEW r, NEW w,
           NodeData(n, st, w), OnlyLine(n, st, a, r), r.l1[c][a].f, r.llc[a].f <=> cfg.wt,
           SameStates(n, st, r), st.llc[a].s = "M", st.l1[c][a].s = "M", OthersClean(n, st, c, a)
    PROVE  NodeData(n, r, w)
<1>1. ASSUME NEW x \in Addrs, x # a
      PROVE  LineData(n, r, w, x)
  BY <1>1, SameLine DEF NodeData, OnlyLine
<1>2. r.llc[a].s = "M" /\ r.l1[c][a].s = "M"
  BY DEF SameStates
<1>3. \A d \in CoresOf(n) : r.l1[d][a].s = "M" => d = c
  BY DEF SameStates, OthersClean, Clean
<1>4. Good(n, r, a)
  BY <1>2, <1>3 DEF Good, Clean
<1>5. LineData(n, r, w, a)
  BY <1>2, <1>4 DEF LineData
<1> QED
  BY <1>1, <1>5 DEF NodeData

LEMMA ReadyWrite ==
    ASSUME DataInv, ChannelsOK, StacksOK, InclusionInv,
           NEW n \in Nodes, NEW c \in CoresOf(n), NEW a \in Addrs, NEW st \in Stack(n),
           NEW d \in [Addrs -> BOOLEAN], Ready(n, st, d), Writes(n, c, a, st), SameStates(n, st, stack'[n]),
           \A m \in Nodes \ {n} : SameStates(m, stack[m], stack'[m]),
           st.llc[a].s = "M", st.l1[c][a].s = "M", OthersClean(n, st, c, a), AloneAt(n, a),
           UNCHANGED <<cfg, dir>>, dram' = [d EXCEPT ![a] = FALSE], SameWork
    PROVE  DataInv'
<1>1. NodeData(n, stack'[n], net'[n].a)
  <2>1. NodeData(n, st, net'[n].a)
    BY DEF Ready, SameWork
  <2>2. OnlyLine(n, st, a, stack'[n]) /\ stack'[n].l1[c][a].f /\ (stack'[n].llc[a].f <=> cfg.wt)
    BY DEF Writes
  <2> QED
    BY <2>1, <2>2, WrittenNode
<1>2. ASSUME NEW m \in Nodes \ {n}
      PROVE  NodeData(m, stack'[m], net'[m].a)
  <2>1. NodeData(m, stack[m], net'[m].a) /\ OnlyLine(m, stack[m], a, stack'[m])
    BY DEF DataInv, SameWork, Writes
  <2>2. ASSUME NEW x \in Addrs, x # a
        PROVE  LineData(m, stack'[m], net'[m].a, x)
    BY <2>1, <2>2, SameLine DEF NodeData, OnlyLine
  <2>3. /\ stack'[m] \in Stack(m) /\ stack[m] \in Stack(m) /\ stack'[m].llc[a].s = "I"
        /\ SameStates(m, stack[m], stack'[m])
    BY DEF SameStates, AloneAt, StacksOK
  <2>4. Included(m, stack'[m])
    BY <2>3 DEF Included, SameStates, InclusionInv, NodeInv, Sound
  <2>5. LineData(m, stack'[m], net'[m].a, a)
    BY <2>3, <2>4, AbsentLine
  <2> QED
    BY <2>2, <2>5 DEF NodeData
<1>3. ASSUME NEW m \in Nodes
      PROVE  Carried(toCache'[m]) /\ Reports(m, toDir'[m], dir')
  <2>1. /\ toDir'[m] = OldMsgs(toDir[m], a) /\ toCache'[m] = OldMsgs(toCache[m], a)
        /\ toDir[m] \in Seq(ToDir) /\ toCache[m] \in Seq(ToCache) /\ dir' = dir
        /\ Carried(toCache[m]) /\ Reports(m, toDir[m], dir)
    BY DEF Writes, ChannelsOK, DataInv
  <2>2. /\ \A i \in DOMAIN toCache[m] : toCache[m][i].a = a => toCache[m][i].t \notin {"SH_REP", "EX_REP"}
        /\ \A i \in DOMAIN toDir[m] : toDir[m][i].a = a => ~toDir[m][i].d
    BY DEF AloneAt
  <2>3. Carried(OldMsgs(toCache[m], a))
    BY <2>1, <2>2, OldCarried
  <2>4. Reports(m, OldMsgs(toDir[m], a), dir)
    BY <2>1, <2>2, OldReports
  <2> QED
    BY <2>1, <2>3, <2>4
<1>4. ASSUME NEW x \in Addrs
      PROVE  dram'[x] \/ (\E m \in Nodes : stack'[m].llc[x].s = "M") \/ InFlight(x, toDir')
  <2>1. \A m \in Nodes : toDir'[m] = OldMsgs(toDir[m], a)
    BY DEF Writes
  <2>2. CASE x = a
    BY <2>2 DEF SameStates
  <2>3. ASSUME x # a
        PROVE  dram'[x] \/ (\E m \in Nodes : stack'[m].llc[x].s = "M") \/ InFlight(x, toDir')
    <3>1. d[x] \/ st.llc[x].s = "M" \/ (\E m \in Nodes \ {n} : stack[m].llc[x].s = "M") \/ InFlight(x, toDir)
      BY DEF Ready, Elsewhere
    <3>2. d[x] => dram'[x]
      BY <2>3
    <3>3. st.llc[x].s = "M" => stack'[n].llc[x].s = "M"
      BY DEF SameStates
    <3>4. (\E m \in Nodes \ {n} : stack[m].llc[x].s = "M") => \E m \in Nodes : stack'[m].llc[x].s = "M"
      BY DEF SameStates
    <3>5. InFlight(x, toDir) => InFlight(x, toDir')
      BY <2>1, OldInFlight
    <3> QED
      BY <3>1, <3>2, <3>3, <3>4, <3>5
  <2> QED
    BY <2>2, <2>3
<1>5. cfg' = cfg
  OBVIOUS
<1>6. \A m \in Nodes : /\ NodeData(m, stack'[m], net'[m].a)
                       /\ Carried(toCache'[m]) /\ Reports(m, toDir'[m], dir')
  BY <1>1, <1>2, <1>3
<1> QED
  BY <1>4, <1>5, <1>6, DataNext
=============================================================================
