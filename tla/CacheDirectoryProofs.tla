------------------------ MODULE CacheDirectoryProofs ------------------------
(***************************************************************************)
(* Proofs about what an LLC and the directory say to each other, for any   *)
(* number of nodes, cores and lines: at most one transaction is under way  *)
(* for a line of an LLC, one is exactly while threads wait for it, and the *)
(* LLCs implement the abstract specification Coherence.  From the same     *)
(* invariant follows which assertions of the controller can fail.          *)
(*                                                                         *)
(* TransactionInv counts, for one line of one LLC, the requests on their   *)
(* way (Asking) and in the directory's queue (Queueing), the replies on    *)
(* their way (Coming) and the line the network thread works on (Working).  *)
(* Their sum is Waited: 1 if the line has waiters and 0 if not.  A step    *)
(* moves a transaction from one place to the next, starts one with the     *)
(* first waiter, or ends it with the last.                                 *)
(*                                                                         *)
(* LineOK relates, for one line of one LLC, the LLC's state of the line to *)
(* the directory's entry and to what is on its way: View is a channel with *)
(* the messages about other lines blanked out, so that a step on one line  *)
(* leaves the views of all others alone (Quiet).  Lines says LineOK of     *)
(* every line of every LLC; with EntryInv, that a line with an owner has   *)
(* no sharers, it makes the owner of a line the only one that has it.      *)
(*                                                                         *)
(* MissInv relates the control state of a core to its L1's copy of the     *)
(* line it works on.  With it and with CoherenceInv every assertion of the *)
(* controller can be checked where it stands: all hold but two.            *)
(*                                                                         *)
(* DataInv follows the value written last: through the copies of a node    *)
(* (NodeData), the replies that carry it (Carried), the flushes and write- *)
(* backs of the owner (Reports) and DRAM.  It makes LatestKept invariant.  *)
(***************************************************************************)
EXTENDS CacheCntlrProofs

-----------------------------------------------------------------------------
(* One transaction per line: requests on their way, queued at the          *)
(* directory, answered, or being handed to the waiters.                    *)

Reqs(x) == {m \in ToDir : m.a = x /\ m.t \in Requests}
Reps(x) == {m \in ToCache : m.a = x /\ m.t \in Rep}
FromNode(m) == {e \in [t : Requests, n : Nodes] : e.n = m}
Asking(m, x) == CountIn(toDir[m], Reqs(x))
Queueing(m, x) == CountIn(dir[x].q, FromNode(m))
Coming(m, x) == CountIn(toCache[m], Reps(x))
Working(m, x) == IF net[m].a = x THEN 1 ELSE 0
Waited(m, x) == IF waiters[m][x] = <<>> THEN 0 ELSE 1
Single(m, x) == Asking(m, x) + Queueing(m, x) + Coming(m, x) + Working(m, x) = Waited(m, x)
TransactionInv == \A m \in Nodes, x \in Addrs : Single(m, x)

LEMMA ChannelTypes ==
    ASSUME Types, NEW m \in Nodes, NEW x \in Addrs
    PROVE  /\ toDir[m] \in Seq(ToDir) /\ toCache[m] \in Seq(ToCache)
           /\ dir[x].q \in Seq([t : Requests, n : Nodes]) /\ waiters[m][x] \in Seq(Waiter)
           /\ net[m].a \in Addrs \cup {None}
<1>1. dir[x] \in Entry /\ toDir[m] \in Seq(ToDir) /\ toCache[m] \in Seq(ToCache)
  BY DEF Types, ChannelsOK
<1>2. waiters[m][x] \in Seq(Waiter) /\ net[m].a \in Addrs \cup {None}
  BY DEF Types, ThreadsOK
<1>3. dir[x].q \in Seq([t : Requests, n : Nodes])
  BY <1>1 DEF Entry
<1> QED
  BY <1>1, <1>2, <1>3

LEMMA CountsType ==
    ASSUME Types, NEW m \in Nodes, NEW x \in Addrs
    PROVE  /\ Asking(m, x) \in Nat /\ Queueing(m, x) \in Nat /\ Coming(m, x) \in Nat
           /\ Working(m, x) \in {0, 1} /\ Waited(m, x) \in {0, 1}
<1>1. /\ toDir[m] \in Seq(ToDir) /\ toCache[m] \in Seq(ToCache)
      /\ dir[x].q \in Seq([t : Requests, n : Nodes])
  BY ChannelTypes
<1>2. Asking(m, x) \in Nat /\ Queueing(m, x) \in Nat /\ Coming(m, x) \in Nat
  BY <1>1, CountType DEF Asking, Queueing, Coming
<1> QED
  BY <1>2 DEF Working, Waited

\* A line whose transaction a step does not move.
SameTransaction(m, x) ==
    /\ Asking(m, x)' = Asking(m, x) /\ Queueing(m, x)' = Queueing(m, x)
    /\ Coming(m, x)' = Coming(m, x)
    /\ Working(m, x)' = Working(m, x) /\ Waited(m, x)' = Waited(m, x)

LEMMA SameSingle ==
    ASSUME NEW m, NEW x, Single(m, x), SameTransaction(m, x)
    PROVE  Single(m, x)'
BY DEF Single, SameTransaction

LEMMA SameKindsCount ==
    ASSUME NEW x,
           NEW q, NEW r, SameKinds(q, r)
    PROVE  /\ q \in Seq(ToDir) /\ r \in Seq(ToDir) => CountIn(r, Reqs(x)) = CountIn(q, Reqs(x))
           /\ q \in Seq(ToCache) /\ r \in Seq(ToCache) => CountIn(r, Reps(x)) = CountIn(q, Reps(x))
<1>1. ASSUME q \in Seq(ToDir), r \in Seq(ToDir)
      PROVE  CountIn(r, Reqs(x)) = CountIn(q, Reqs(x))
  <2>1. \A i \in DOMAIN q : q[i] \in ToDir /\ r[i] \in ToDir
    BY <1>1 DEF SameKinds
  <2>2. PlacesIn(r, Reqs(x)) = PlacesIn(q, Reqs(x))
    BY <2>1 DEF PlacesIn, Reqs, SameKinds
  <2> QED
    BY <2>2 DEF CountIn
<1>2. ASSUME q \in Seq(ToCache), r \in Seq(ToCache)
      PROVE  CountIn(r, Reps(x)) = CountIn(q, Reps(x))
  <2>1. \A i \in DOMAIN q : q[i] \in ToCache /\ r[i] \in ToCache
    BY <1>2 DEF SameKinds
  <2>2. PlacesIn(r, Reps(x)) = PlacesIn(q, Reps(x))
    BY <2>1 DEF PlacesIn, Reps, SameKinds
  <2> QED
    BY <2>2 DEF CountIn
<1> QED
  BY <1>1, <1>2

LEMMA SameKindsReflexive == \A q : SameKinds(q, q)
BY DEF SameKinds

\* A step that only makes the data of messages old.
LEMMA QuietTransactions ==
    ASSUME Types, Types', TransactionInv, dir' = dir,
           \A m \in Nodes : /\ SameKinds(toDir[m], toDir'[m]) /\ SameKinds(toCache[m], toCache'[m])
                            /\ net'[m].a = net[m].a /\ waiters'[m] = waiters[m]
    PROVE  TransactionInv'
<1>1. ASSUME NEW m \in Nodes, NEW x \in Addrs
      PROVE  Single(m, x)'
  <2>1. /\ toDir[m] \in Seq(ToDir) /\ toCache[m] \in Seq(ToCache)
        /\ toDir'[m] \in Seq(ToDir) /\ toCache'[m] \in Seq(ToCache)
    BY DEF Types, ChannelsOK
  <2>2. Asking(m, x)' = Asking(m, x) /\ Coming(m, x)' = Coming(m, x)
    <3>1. CountIn(toDir'[m], Reqs(x)) = CountIn(toDir[m], Reqs(x))
      BY <2>1, SameKindsCount
    <3>2. CountIn(toCache'[m], Reps(x)) = CountIn(toCache[m], Reps(x))
      BY <2>1, SameKindsCount
    <3> QED
      BY <3>1, <3>2 DEF Asking, Coming, Reqs, Reps, CountIn, PlacesIn
  <2>3. SameTransaction(m, x)
    BY <2>2 DEF SameTransaction, Queueing, Working, Waited, FromNode, CountIn, PlacesIn
  <2> QED
    BY <2>3, SameSingle DEF TransactionInv
<1> QED
  BY <1>1 DEF TransactionInv

LEMMA AccessKinds ==
    ASSUME Types, NEW n, NEW c, NEW o, NEW st, Access(n, c, o, st)
    PROVE  \A m \in Nodes : SameKinds(toDir[m], toDir'[m]) /\ SameKinds(toCache[m], toCache'[m])
<1> DEFINE a == o.a
<1>1. CASE o.t = "W"
  <2>1. /\ toDir' = [m \in Nodes |-> OldMsgs(toDir[m], a)]
        /\ toCache' = [m \in Nodes |-> OldMsgs(toCache[m], a)]
    BY <1>1, Zenon DEF Access
  <2> HIDE DEF a
  <2>2. ASSUME NEW m \in Nodes
        PROVE  SameKinds(toDir[m], OldMsgs(toDir[m], a)) /\ SameKinds(toCache[m], OldMsgs(toCache[m], a))
    <3>1. toDir[m] \in Seq(ToDir) /\ toCache[m] \in Seq(ToCache)
      BY DEF Types, ChannelsOK
    <3> QED
      BY <3>1, OldMsgsFacts
  <2> QED
    BY <2>1, <2>2, Zenon
<1>2. CASE o.t # "W"
  <2>1. toDir' = toDir /\ toCache' = toCache
    BY <1>2, Zenon DEF Access
  <2> QED
    BY <2>1, SameKindsReflexive, Zenon
<1> QED
  BY <1>1, <1>2

LEMMA CountRequest ==
    ASSUME NEW x \in Addrs, NEW m \in ToDir
    PROVE  One(m, Reqs(x)) = IF m.a = x /\ m.t \in Requests THEN 1 ELSE 0
BY DEF One, Reqs

LEMMA CountReply ==
    ASSUME NEW x \in Addrs, NEW m \in ToCache
    PROVE  One(m, Reps(x)) = IF m.a = x /\ m.t \in Rep THEN 1 ELSE 0
BY DEF One, Reps

LEMMA CountNode ==
    ASSUME NEW k \in Nodes, NEW e \in [t : Requests, n : Nodes]
    PROVE  One(e, FromNode(k)) = IF e.n = k THEN 1 ELSE 0
BY DEF One, FromNode

LEMMA SendOne ==
    ASSUME NEW T, NEW q \in Seq(T), NEW m \in T
    PROVE  q \o <<>> = q /\ q \o <<m>> = Append(q, m)
OBVIOUS

\* The first waiter of a line sends its request, a later one only queues up.
LEMMA QueueTransactions ==
    ASSUME Types, Types', TransactionInv, NEW n \in Nodes, NEW c, NEW t, NEW a \in Addrs, NEW st,
           InitiateDirectoryAccess(n, c, t, a, st), net' = net, dir' = dir
    PROVE  TransactionInv'
<1> DEFINE w == [c |-> c, excl |-> t \notin {"R", "P"}]
           req == IF FirstWaiter(n, a) /\ t \notin {"R", "P"} /\ st.llc[a].s = "S" THEN "UPGRADE_REQ"
                  ELSE IF t \notin {"R", "P"} THEN "EX_REQ" ELSE "SH_REQ"
           msg == Msg(req, a, FALSE, FALSE)
<1>1. /\ waiters' = [waiters EXCEPT ![n][a] = Append(@, w)]
      /\ toDir' = [toDir EXCEPT ![n] = @ \o IF FirstWaiter(n, a) THEN <<msg>> ELSE <<>>]
      /\ toCache' = toCache
  BY DEF InitiateDirectoryAccess, Send
<1>2. msg \in ToDir /\ msg.a = a /\ msg.t \in Requests
  BY DEF Msg, ToDir, Message, MsgTypes, Requests
<1> HIDE DEF msg, req, w
<1>3. /\ toDir \in [Nodes -> Seq(ToDir)] /\ waiters \in [Nodes -> [Addrs -> Seq(Waiter)]]
  BY DEF Types, ChannelsOK, ThreadsOK
<1>4. ASSUME NEW m \in Nodes, NEW x \in Addrs
      PROVE  Single(m, x)'
  <2>1. /\ Single(m, x) /\ Asking(m, x) \in Nat /\ Queueing(m, x) \in Nat /\ Coming(m, x) \in Nat
        /\ Working(m, x) \in {0, 1} /\ toDir[m] \in Seq(ToDir)
    BY <1>3, CountsType DEF TransactionInv
  <2>2. /\ Queueing(m, x)' = Queueing(m, x) /\ Coming(m, x)' = Coming(m, x)
        /\ Working(m, x)' = Working(m, x)
    BY <1>1 DEF Queueing, Coming, Working, CountIn, PlacesIn, FromNode, Reps
  <2>3. CASE m # n
    <3>1. toDir'[m] = toDir[m] /\ waiters'[m] = waiters[m]
      BY <1>1, <1>3, <2>3
    <3>2. SameTransaction(m, x)
      BY <2>2, <3>1 DEF SameTransaction, Asking, Waited, CountIn, PlacesIn, Reqs
    <3> QED
      BY <2>1, <3>2, SameSingle
  <2>4. CASE m = n /\ FirstWaiter(n, a)
    <3>1. toDir'[n] = Append(toDir[n], msg)
      BY <1>1, <1>2, <1>3, <2>4, SendOne
    <3>2. CountIn(toDir'[n], Reqs(x)) = CountIn(toDir[n], Reqs(x)) + One(msg, Reqs(x))
      BY <1>2, <1>3, <3>1, CountAppend
    <3>3. Asking(m, x)' = Asking(m, x) + IF x = a THEN 1 ELSE 0
      BY <1>2, <2>4, <3>2, CountRequest DEF Asking, CountIn, PlacesIn, Reqs
    <3>4. CASE x = a
      <4>1. waiters[n][a] = <<>> /\ waiters'[n][a] = Append(waiters[n][a], w)
        BY <1>1, <1>3, <2>4 DEF FirstWaiter
      <4>2. Append(<<>>, w) # <<>>
        OBVIOUS
      <4>3. Waited(m, x) = 0 /\ Waited(m, x)' = 1
        BY <2>4, <3>4, <4>1, <4>2 DEF Waited
      <4> QED
        BY <2>1, <2>2, <3>3, <3>4, <4>3 DEF Single
    <3>5. CASE x # a
      <4>1. waiters'[m][x] = waiters[m][x]
        BY <1>1, <1>3, <2>4, <3>5
      <4>2. SameTransaction(m, x)
        BY <2>1, <2>2, <3>3, <3>5, <4>1 DEF SameTransaction, Waited
      <4> QED
        BY <2>1, <4>2, SameSingle
    <3> QED
      BY <3>4, <3>5
  <2>5. CASE m = n /\ ~FirstWaiter(n, a)
    <3>1. toDir'[n] = toDir[n]
      BY <1>1, <1>2, <1>3, <2>5, SendOne
    <3>2. Asking(m, x)' = Asking(m, x)
      BY <2>5, <3>1 DEF Asking, CountIn, PlacesIn, Reqs
    <3>3. Waited(m, x)' = Waited(m, x)
      <4>1. CASE x = a
        <5> DEFINE q == waiters[n][a]
        <5>1. q # <<>> /\ waiters'[n][a] = Append(q, w) /\ q \in Seq(Waiter)
          BY <1>1, <1>3, <2>5 DEF FirstWaiter
        <5> HIDE DEF q
        <5>2. Append(q, w) # <<>>
          BY <5>1
        <5> QED
          BY <2>5, <4>1, <5>1, <5>2 DEF Waited, q
      <4>2. CASE x # a
        <5>1. waiters'[m][x] = waiters[m][x]
          BY <1>1, <1>3, <2>5, <4>2
        <5> QED
          BY <5>1 DEF Waited
      <4> QED
        BY <4>1, <4>2
    <3>4. SameTransaction(m, x)
      BY <2>2, <3>2, <3>3 DEF SameTransaction
    <3> QED
      BY <2>1, <3>4, SameSingle
  <2> QED
    BY <2>3, <2>4, <2>5
<1> QED
  BY <1>4 DEF TransactionInv

\* A request reaches the directory's queue, a reply does not concern it.
LEMMA DirReceiveTransactions ==
    ASSUME Types, Types', TransactionInv, NEW n \in Nodes, DirReceive(n)
    PROVE  TransactionInv'
<1> DEFINE h == Head(toDir[n])
           a == h.a
           r == [t |-> h.t, n |-> n]
<1>1. /\ toDir[n] # <<>> /\ toDir' = [toDir EXCEPT ![n] = Tail(@)] /\ toCache' = toCache
      /\ net' = net /\ waiters' = waiters
  BY Zenon DEF DirReceive, cacheVars
<1>2. toDir \in [Nodes -> Seq(ToDir)] /\ dir \in [Addrs -> Entry]
  BY DEF Types, ChannelsOK
<1>3. h \in ToDir /\ a \in Addrs
  <2>1. toDir[n] \in Seq(ToDir) /\ toDir[n] # <<>>
    BY <1>1, <1>2
  <2>2. h \in ToDir
    BY <2>1
  <2> QED
    BY <2>2 DEF ToDir, Message
<1>4. /\ \A x \in Addrs \ {a} : dir'[x] = dir[x]
      /\ h.t \in Requests => dir'[a].q = Append(dir[a].q, r)
      /\ h.t \notin Requests => dir'[a].q = dir[a].q
  <2>1. \E e : dir' = [dir EXCEPT ![a] = e] /\ e.q = IF h.t \in Requests THEN Append(dir[a].q, r) ELSE dir[a].q
    <3> DEFINE old == dir[a]
               gone == [old EXCEPT !.owner = IF @ = n THEN None ELSE @,
                                   !.sharers = @ \ {n}, !.asked = @ \ {n}]
               e == CASE h.t \in Requests -> [old EXCEPT !.q = Append(@, r)]
                      [] h.t = "WB_REP" -> [gone EXCEPT !.sharers = @ \cup {n}]
                      [] OTHER -> gone
    <3>1. dir' = [dir EXCEPT ![a] = e]
      BY Zenon DEF DirReceive
    <3>2. old \in Entry
      BY <1>2, <1>3
    <3> HIDE DEF old
    <3>3. gone.q = old.q
      BY <3>2 DEF Entry
    <3>4. gone \in [owner : Nodes \cup {None}, sharers : SUBSET Nodes, q : Seq([t : Requests, n : Nodes]), asked : SUBSET Nodes]
      BY <3>2 DEF Entry
    <3> HIDE DEF gone
    <3>5. [gone EXCEPT !.sharers = @ \cup {n}].q = gone.q
      BY <3>4
    <3>6. [old EXCEPT !.q = Append(@, r)].q = Append(old.q, r)
      BY <3>2 DEF Entry
    <3>7. "WB_REP" \notin Requests
      BY DEF Requests
    <3>8. e.q = IF h.t \in Requests THEN Append(old.q, r) ELSE old.q
      BY <3>3, <3>5, <3>6, <3>7
    <3> HIDE DEF e
    <3> QED
      BY <3>1, <3>8, Zenon DEF old
  <2> HIDE DEF a, r, h
  <2> QED
    BY <1>2, <1>3, <2>1
<1>5. r \in [t : Requests, n : Nodes] \/ h.t \notin Requests
  OBVIOUS
<1>6. r.n = n
  OBVIOUS
<1>7. h = Head(toDir[n]) /\ h.a = a
  OBVIOUS
<1> HIDE DEF a, r, h
<1>8. ASSUME NEW m \in Nodes, NEW x \in Addrs
      PROVE  Single(m, x)'
  <2>1. /\ Single(m, x) /\ Asking(m, x) \in Nat /\ Queueing(m, x) \in Nat /\ Coming(m, x) \in Nat
        /\ Working(m, x) \in {0, 1} /\ toDir[m] \in Seq(ToDir)
        /\ dir[x].q \in Seq([t : Requests, n : Nodes])
    BY CountsType, ChannelTypes DEF TransactionInv
  <2>2. /\ Coming(m, x)' = Coming(m, x) /\ Working(m, x)' = Working(m, x) /\ Waited(m, x)' = Waited(m, x)
    BY <1>1 DEF Coming, Working, Waited, CountIn, PlacesIn, Reps
  <2>3. Asking(m, x)' = Asking(m, x) - IF m = n /\ x = a /\ h.t \in Requests THEN 1 ELSE 0
    <3>1. CASE m = n
      <4>1. toDir'[m] = Tail(toDir[m]) /\ toDir[m] # <<>> /\ h = Head(toDir[m])
        BY <1>1, <1>2, <1>7, <3>1
      <4>2. CountIn(Tail(toDir[m]), Reqs(x)) = CountIn(toDir[m], Reqs(x)) - One(h, Reqs(x))
        BY <2>1, <4>1, CountTail
      <4>3. One(h, Reqs(x)) = IF x = a /\ h.t \in Requests THEN 1 ELSE 0
        BY <1>3, <1>7, CountRequest
      <4> QED
        BY <3>1, <4>1, <4>2, <4>3 DEF Asking, CountIn, PlacesIn, Reqs
    <3>2. CASE m # n
      <4>1. toDir'[m] = toDir[m]
        BY <1>1, <1>2, <3>2
      <4>2. Asking(m, x)' = Asking(m, x)
        BY <4>1 DEF Asking, CountIn, PlacesIn, Reqs
      <4> QED
        BY <2>1, <3>2, <4>2
    <3> QED
      BY <3>1, <3>2
  <2>4. Queueing(m, x)' = Queueing(m, x) + IF m = n /\ x = a /\ h.t \in Requests THEN 1 ELSE 0
    <3>1. CASE x = a /\ h.t \in Requests
      <4>1. CountIn(Append(dir[x].q, r), FromNode(m)) = CountIn(dir[x].q, FromNode(m)) + One(r, FromNode(m))
        BY <1>5, <2>1, <3>1, CountAppend
      <4>2. One(r, FromNode(m)) = IF m = n THEN 1 ELSE 0
        BY <1>5, <1>6, <3>1, CountNode
      <4>3. dir'[x].q = Append(dir[x].q, r)
        BY <1>4, <3>1
      <4> QED
        BY <3>1, <4>1, <4>2, <4>3 DEF Queueing, CountIn, PlacesIn, FromNode
    <3>2. CASE ~(x = a /\ h.t \in Requests)
      <4>1. dir'[x].q = dir[x].q
        BY <1>4, <3>2
      <4>2. Queueing(m, x)' = Queueing(m, x)
        BY <4>1 DEF Queueing, CountIn, PlacesIn, FromNode
      <4> QED
        BY <2>1, <3>2, <4>2
    <3> QED
      BY <3>1, <3>2
  <2> QED
    BY <2>1, <2>2, <2>3, <2>4 DEF Single
<1> QED
  BY <1>8, Zenon DEF TransactionInv

\* The directory asks the caches in the way of a request.
LEMMA DirAskTransactions ==
    ASSUME Types, Types', TransactionInv, NEW a \in Addrs, DirAsk(a)
    PROVE  TransactionInv'
<1>1. dir \in [Addrs -> Entry] /\ toCache \in [Nodes -> Seq(ToCache)]
  BY DEF Types, ChannelsOK
<1>2. /\ \A x \in Addrs : dir'[x].q = dir[x].q
      /\ UNCHANGED <<toDir, net, waiters>>
  <2>1. \E s : dir' = [dir EXCEPT ![a].asked = s]
    BY DEF DirAsk
  <2>2. \A x \in Addrs : dir'[x].q = dir[x].q
    BY <1>1, <2>1 DEF Entry
  <2> QED
    BY <2>2 DEF DirAsk, cacheVars
<1>3. ASSUME NEW m \in Nodes
      PROVE  \/ toCache'[m] = toCache[m]
             \/ \E h \in ToCache : h.t \in Ask /\ toCache'[m] = Append(toCache[m], h)
  <2> DEFINE e == dir[a]
             r == Head(e.q)
             ask == Targets(e, r) \ e.asked
             kind(n) == IF n # e.owner THEN "INV_REQ"
                        ELSE IF r.t = "SH_REQ" THEN "WB_REQ" ELSE "FLUSH_REQ"
             h == Msg(kind(m), a, FALSE, FALSE)
  <2>1. toCache' = [n \in Nodes |-> IF n \in ask THEN Append(toCache[n], Msg(kind(n), a, FALSE, FALSE))
                                    ELSE toCache[n]]
    BY DEF DirAsk
  <2>2. kind(m) \in Ask
    BY DEF Ask
  <2>3. h \in ToCache /\ h.t \in Ask
    <3> HIDE DEF kind
    <3> QED
      BY <2>2 DEF Msg, ToCache, Message, MsgTypes, Ask
  <2>4. toCache'[m] = Append(toCache[m], h) \/ toCache'[m] = toCache[m]
    <3> HIDE DEF ask, kind
    <3> QED
      BY <2>1
  <2> HIDE DEF h
  <2> QED
    BY <2>3, <2>4
<1>4. ASSUME NEW m \in Nodes, NEW x \in Addrs
      PROVE  Single(m, x)'
  <2>1. Coming(m, x)' = Coming(m, x)
    <3>1. CASE toCache'[m] = toCache[m]
      BY <3>1 DEF Coming, CountIn, PlacesIn, Reps
    <3>2. ASSUME NEW h \in ToCache, h.t \in Ask, toCache'[m] = Append(toCache[m], h)
          PROVE  Coming(m, x)' = Coming(m, x)
      <4>1. CountIn(Append(toCache[m], h), Reps(x)) = CountIn(toCache[m], Reps(x)) + One(h, Reps(x))
        BY <1>1, CountAppend
      <4>2. One(h, Reps(x)) = 0
        BY <3>2, CountReply DEF Rep, Ask
      <4>3. CountIn(toCache[m], Reps(x)) \in Nat
        BY <1>1, CountType
      <4> QED
        <5>1. CountIn(toCache'[m], Reps(x)) = CountIn(toCache[m], Reps(x))
          BY <3>2, <4>1, <4>2, <4>3
        <5> QED
          BY <5>1 DEF Coming, CountIn, PlacesIn, Reps
    <3> QED
      BY <1>3, <3>1, <3>2
  <2>2. SameTransaction(m, x)
    BY <1>2, <2>1 DEF SameTransaction, Asking, Queueing, Working, Waited, CountIn, PlacesIn, Reqs, FromNode
  <2> QED
    BY <2>2, SameSingle DEF TransactionInv
<1> QED
  BY <1>4 DEF TransactionInv

\* The first request of the directory's queue becomes a reply.
LEMMA DirReplyTransactions ==
    ASSUME Types, Types', TransactionInv, NEW a \in Addrs, DirReply(a)
    PROVE  TransactionInv'
<1> DEFINE e == dir[a]
           r == Head(e.q)
<1>1. dir \in [Addrs -> Entry] /\ toCache \in [Nodes -> Seq(ToCache)] /\ ChannelsOK
  BY DEF Types, ChannelsOK
<1>2. /\ e.q # <<>> /\ UNCHANGED <<toDir, net, waiters>>
      /\ \E h \in ToCache : /\ toCache' = [toCache EXCEPT ![r.n] = Append(@, h)] /\ h.a = a /\ h.t \in Rep
                            /\ \E s : dir' = [dir EXCEPT ![a] = s] /\ s.q = Tail(e.q)
  <2>1. e \in Entry
    BY <1>1
  <2> DEFINE own == [e EXCEPT !.owner = r.n, !.sharers = {}, !.q = Tail(@), !.asked = {}]
             share == [e EXCEPT !.sharers = @ \cup {r.n}, !.q = Tail(@), !.asked = {}]
  <2>2. own.q = Tail(e.q) /\ share.q = Tail(e.q)
    <3> HIDE DEF e
    <3> QED
      BY <2>1 DEF Entry
  <2>3. /\ e.q # <<>> /\ UNCHANGED <<toDir, net, waiters>>
        /\ \E h \in ToCache : /\ toCache' = [toCache EXCEPT ![r.n] = Append(@, h)] /\ h.a = a
                              /\ h.t \in Rep /\ (dir' = [dir EXCEPT ![a] = own] \/ dir' = [dir EXCEPT ![a] = share])
    BY <1>1, DirReplyParts, Zenon DEF Rep, cacheVars
  <2> HIDE DEF e, own, share, r
  <2> QED
    BY <2>2, <2>3
<1>3. PICK h \in ToCache : /\ toCache' = [toCache EXCEPT ![r.n] = Append(@, h)] /\ h.a = a /\ h.t \in Rep
                           /\ \E s : dir' = [dir EXCEPT ![a] = s] /\ s.q = Tail(e.q)
  BY <1>2
<1>4. r.n \in Nodes /\ r \in [t : Requests, n : Nodes] /\ e.q \in Seq([t : Requests, n : Nodes])
  <2>1. e.q \in Seq([t : Requests, n : Nodes])
    BY <1>1 DEF Entry
  <2> DEFINE q == e.q
  <2>2. q \in Seq([t : Requests, n : Nodes]) /\ q # <<>> /\ r = Head(q)
    BY <1>2, <2>1
  <2> HIDE DEF q
  <2> HIDE DEF r
  <2>3. r \in [t : Requests, n : Nodes]
    <3> DEFINE T == [t : Requests, n : Nodes]
    <3>1. q \in Seq(T)
      BY <2>2
    <3> HIDE DEF T
    <3>2. Head(q) \in T
      BY <2>2, <3>1
    <3> QED
      BY <2>2, <3>2 DEF T
  <2>4. r.n \in Nodes
    BY <2>3
  <2> QED
    BY <2>2, <2>3, <2>4 DEF q
<1>5. dir'[a].q = Tail(e.q) /\ \A x \in Addrs \ {a} : dir'[x] = dir[x]
  BY <1>1, <1>3
<1>6. e = dir[a] /\ r = Head(e.q)
  OBVIOUS
<1> HIDE DEF e, r
<1>7. ASSUME NEW m \in Nodes, NEW x \in Addrs
      PROVE  Single(m, x)'
  <2>1. /\ Single(m, x) /\ Asking(m, x) \in Nat /\ Queueing(m, x) \in Nat /\ Coming(m, x) \in Nat
        /\ Working(m, x) \in {0, 1}
    BY CountsType DEF TransactionInv
  <2>2. /\ Asking(m, x)' = Asking(m, x) /\ Working(m, x)' = Working(m, x) /\ Waited(m, x)' = Waited(m, x)
    BY <1>2 DEF Asking, Working, Waited, CountIn, PlacesIn, Reqs
  <2>3. Coming(m, x)' = Coming(m, x) + IF m = r.n /\ x = a THEN 1 ELSE 0
    <3>1. CASE m = r.n
      <4>1. toCache'[m] = Append(toCache[m], h)
        BY <1>1, <1>3, <3>1
      <4>2. CountIn(Append(toCache[m], h), Reps(x)) = CountIn(toCache[m], Reps(x)) + One(h, Reps(x))
        BY <1>1, CountAppend
      <4>3. One(h, Reps(x)) = IF x = a THEN 1 ELSE 0
        BY <1>3, CountReply
      <4> QED
        BY <3>1, <4>1, <4>2, <4>3 DEF Coming, CountIn, PlacesIn, Reps
    <3>2. CASE m # r.n
      <4>1. toCache'[m] = toCache[m]
        BY <1>1, <1>3, <3>2
      <4>2. Coming(m, x)' = Coming(m, x)
        BY <4>1 DEF Coming, CountIn, PlacesIn, Reps
      <4> QED
        BY <2>1, <3>2, <4>2
    <3> QED
      BY <3>1, <3>2
  <2>4. Queueing(m, x)' = Queueing(m, x) - IF m = r.n /\ x = a THEN 1 ELSE 0
    <3>1. CASE x = a
      <4> DEFINE q == e.q
      <4>1. q \in Seq([t : Requests, n : Nodes]) /\ q # <<>> /\ r = Head(q)
        BY <1>2, <1>4, <1>6
      <4> HIDE DEF q
      <4>2. CountIn(Tail(q), FromNode(m)) = CountIn(q, FromNode(m)) - One(r, FromNode(m))
        BY <4>1, CountTail
      <4>3. One(r, FromNode(m)) = IF m = r.n THEN 1 ELSE 0
        BY <1>4, CountNode
      <4>4. dir'[x].q = Tail(q) /\ dir[x].q = q
        BY <1>5, <1>6, <3>1 DEF q
      <4> QED
        BY <3>1, <4>2, <4>3, <4>4 DEF Queueing, CountIn, PlacesIn, FromNode
    <3>2. CASE x # a
      <4>1. dir'[x] = dir[x]
        BY <1>5, <3>2
      <4>2. Queueing(m, x)' = Queueing(m, x)
        BY <4>1 DEF Queueing, CountIn, PlacesIn, FromNode
      <4> QED
        BY <2>1, <3>2, <4>2
    <3> QED
      BY <3>1, <3>2
  <2> QED
    BY <2>1, <2>2, <2>3, <2>4 DEF Single
<1> QED
  BY <1>7 DEF TransactionInv

\* What the network thread sends and keeps when it goes on to the waiters ws.
WakeEffect(n, a, ws) ==
    /\ \A m \in Nodes, x \in Addrs : m # n \/ x # a =>
          /\ Asking(m, x)' = Asking(m, x) /\ Waited(m, x)' = Waited(m, x)
          /\ Working(m, x)' = IF m = n THEN 0 ELSE Working(m, x)
    /\ \A m \in Nodes, x \in Addrs : m = n /\ x = a =>
          /\ Waited(m, x)' = IF ws = <<>> THEN 0 ELSE 1
          /\ Asking(m, x)' + Working(m, x)' = Asking(m, x) + IF ws = <<>> THEN 0 ELSE 1

LEMMA WakeTransactions ==
    ASSUME Types, NEW n \in Nodes, NEW a \in Addrs, NEW st, NEW ws, NEW ms, WakeWaiters(n, a, st, ws, ms),
           ms = <<>> \/ \E g \in ToDir : g.t \in Gone /\ ms = <<g>>
    PROVE  WakeEffect(n, a, ws)
<1> DEFINE up == Msg("UPGRADE_REQ", a, FALSE, FALSE)
<1>1. /\ toDir \in [Nodes -> Seq(ToDir)] /\ waiters \in [Nodes -> [Addrs -> Seq(Waiter)]]
      /\ net \in [Nodes -> [pc : {"idle", "handoff", "signalled"}, a : Addrs \cup {None}]]
      /\ a # None
  BY CacheAssumption DEF Types, ChannelsOK, ThreadsOK
<1>2. up \in ToDir /\ up.a = a /\ up.t \in Requests
  BY DEF Msg, ToDir, Message, MsgTypes, Requests
<1>3. \/ /\ net' = [net EXCEPT ![n] = [pc |-> "idle", a |-> None]]
         /\ \/ ws = <<>> /\ toDir' = [toDir EXCEPT ![n] = @ \o ms]
            \/ ws # <<>> /\ toDir' = [toDir EXCEPT ![n] = @ \o (ms \o <<up>>)]
      \/ /\ net' = [net EXCEPT ![n] = [pc |-> "handoff", a |-> a]]
         /\ ws # <<>> /\ toDir' = [toDir EXCEPT ![n] = @ \o ms]
  BY DEF WakeWaiters, Send
<1>4. waiters' = [waiters EXCEPT ![n][a] = ws]
  BY DEF WakeWaiters
<1> HIDE DEF up
<1>5. ASSUME NEW q \in Seq(ToDir), NEW x \in Addrs
      PROVE  /\ q \o ms \in Seq(ToDir) /\ CountIn(q \o ms, Reqs(x)) = CountIn(q, Reqs(x))
             /\ CountIn(q \o (ms \o <<up>>), Reqs(x)) = CountIn(q, Reqs(x)) + IF x = a THEN 1 ELSE 0
  <2>1. CountIn(q, Reqs(x)) \in Nat
    BY CountType
  <2>2. q \o ms \in Seq(ToDir) /\ CountIn(q \o ms, Reqs(x)) = CountIn(q, Reqs(x))
    <3>1. CASE ms = <<>>
      BY <1>2, <3>1, SendOne
    <3>2. CASE \E g \in ToDir : g.t \in Gone /\ ms = <<g>>
      <4>1. PICK g \in ToDir : g.t \in Gone /\ ms = <<g>>
        BY <3>2
      <4>2. q \o ms = Append(q, g) /\ Append(q, g) \in Seq(ToDir)
        BY <4>1
      <4>3. CountIn(Append(q, g), Reqs(x)) = CountIn(q, Reqs(x)) + One(g, Reqs(x))
        BY CountAppend
      <4>4. One(g, Reqs(x)) = 0
        BY <4>1, CountRequest DEF Gone, Requests
      <4> QED
        BY <2>1, <4>2, <4>3, <4>4
    <3> QED
      BY <3>1, <3>2
  <2>3. q \o (ms \o <<up>>) = Append(q \o ms, up)
    <3>1. CASE ms = <<>>
      BY <1>2, <3>1
    <3>2. CASE \E g \in ToDir : g.t \in Gone /\ ms = <<g>>
      BY <1>2, <3>2
    <3> QED
      BY <3>1, <3>2
  <2> DEFINE p == q \o ms
  <2>4. p \in Seq(ToDir) /\ CountIn(p, Reqs(x)) = CountIn(q, Reqs(x))
    BY <2>2
  <2> HIDE DEF p
  <2>5. CountIn(Append(p, up), Reqs(x)) = CountIn(p, Reqs(x)) + One(up, Reqs(x))
    BY <1>2, <2>4, CountAppend
  <2>6. One(up, Reqs(x)) = IF x = a THEN 1 ELSE 0
    BY <1>2, CountRequest
  <2> QED
    BY <2>2, <2>3, <2>4, <2>5, <2>6 DEF p
<1>6. ASSUME NEW m \in Nodes, NEW x \in Addrs
      PROVE  Asking(m, x) \in Nat /\ Working(m, x) \in {0, 1}
  BY CountsType
<1>7. ASSUME NEW m \in Nodes, NEW x \in Addrs, m # n \/ x # a
      PROVE  /\ Asking(m, x)' = Asking(m, x) /\ Waited(m, x)' = Waited(m, x)
             /\ Working(m, x)' = IF m = n THEN 0 ELSE Working(m, x)
  <2>1. waiters'[m][x] = waiters[m][x]
    BY <1>1, <1>4, <1>7
  <2>2. CASE m # n
    <3>1. toDir'[m] = toDir[m] /\ net'[m] = net[m]
      BY <1>1, <1>3, <2>2
    <3> QED
      BY <2>1, <2>2, <3>1 DEF Asking, Waited, Working, CountIn, PlacesIn, Reqs
  <2>3. CASE m = n
    <3>1. net'[n].a \in {None, a} /\ x # a /\ x # None
      BY <1>1, <1>3, <1>7, <2>3, CacheAssumption
    <3>2. toDir'[n] = toDir[n] \o ms \/ toDir'[n] = toDir[n] \o (ms \o <<up>>)
      BY <1>1, <1>3
    <3>3. CountIn(toDir'[n], Reqs(x)) = CountIn(toDir[n], Reqs(x))
      <4>1. /\ CountIn(toDir[n] \o ms, Reqs(x)) = CountIn(toDir[n], Reqs(x))
            /\ CountIn(toDir[n] \o (ms \o <<up>>), Reqs(x)) = CountIn(toDir[n], Reqs(x)) + 0
        BY <1>1, <1>5, <3>1
      <4>2. CountIn(toDir[n], Reqs(x)) \in Nat
        BY <1>1, CountType
      <4>3. CASE toDir'[n] = toDir[n] \o ms
        BY <4>1, <4>3
      <4>4. CASE toDir'[n] = toDir[n] \o (ms \o <<up>>)
        <5> DEFINE p == toDir[n] \o (ms \o <<up>>)
        <5>1. toDir'[n] = p /\ CountIn(p, Reqs(x)) = CountIn(toDir[n], Reqs(x)) + 0
          BY <4>1, <4>4
        <5> HIDE DEF p
        <5> QED
          BY <4>2, <5>1
      <4> QED
        BY <3>2, <4>3, <4>4
    <3> QED
      BY <2>1, <2>3, <3>1, <3>3 DEF Asking, Waited, Working, CountIn, PlacesIn, Reqs
  <2> QED
    BY <2>2, <2>3
<1>8. Waited(n, a)' = IF ws = <<>> THEN 0 ELSE 1
  <2>1. waiters'[n][a] = ws
    BY <1>1, <1>4
  <2> QED
    BY <2>1 DEF Waited
<1>9. Asking(n, a)' + Working(n, a)' = Asking(n, a) + IF ws = <<>> THEN 0 ELSE 1
  <2> DEFINE q == toDir[n]
  <2>1. /\ CountIn(q \o ms, Reqs(a)) = CountIn(q, Reqs(a))
        /\ CountIn(q \o (ms \o <<up>>), Reqs(a)) = CountIn(q, Reqs(a)) + 1
        /\ CountIn(q, Reqs(a)) = Asking(n, a)
    BY <1>1, <1>5 DEF Asking
  <2>2. Asking(n, a)' = CountIn(toDir'[n], Reqs(a))
    BY DEF Asking, CountIn, PlacesIn, Reqs
  <2>3. CASE ws = <<>>
    <3>1. toDir'[n] = q \o ms /\ net'[n].a = None
      BY <1>1, <1>3, <2>3
    <3>2. Working(n, a)' = 0
      BY <1>1, <3>1 DEF Working
    <3> QED
      BY <1>6, <2>1, <2>2, <2>3, <3>1, <3>2
  <2>4. CASE ws # <<>> /\ net'[n].a = a
    <3>1. toDir'[n] = q \o ms
      BY <1>1, <1>3, <2>4
    <3>2. Working(n, a)' = 1
      BY <2>4 DEF Working
    <3> QED
      BY <1>6, <2>1, <2>2, <2>4, <3>1, <3>2
  <2>5. CASE ws # <<>> /\ net'[n].a # a
    <3>1. toDir'[n] = q \o (ms \o <<up>>)
      BY <1>1, <1>3, <2>5
    <3>2. Working(n, a)' = 0
      BY <2>5 DEF Working
    <3> QED
      BY <1>6, <2>1, <2>2, <2>5, <3>1, <3>2
  <2> QED
    BY <2>3, <2>4, <2>5
<1>10. ASSUME NEW m \in Nodes, NEW x \in Addrs, m = n, x = a
       PROVE  /\ Waited(m, x)' = IF ws = <<>> THEN 0 ELSE 1
              /\ Asking(m, x)' + Working(m, x)' = Asking(m, x) + IF ws = <<>> THEN 0 ELSE 1
  <2>1. Waited(m, x)' = Waited(n, a)' /\ Asking(m, x)' = Asking(n, a)' /\ Working(m, x)' = Working(n, a)'
        /\ Asking(m, x) = Asking(n, a)
    BY <1>10 DEF Waited, Asking, Working, CountIn, PlacesIn, Reqs
  <2> QED
    BY <1>8, <1>9, <2>1
<1> QED
  BY <1>7, <1>10 DEF WakeEffect

\* A reply leaves its channel, its transaction passes to the waiters.
LEMMA HandleRepTransactions ==
    ASSUME Types, Types', ThreadInv, TransactionInv, NEW n \in Nodes, HandleRep(n), failed' = "no"
    PROVE  TransactionInv'
<1> DEFINE h == Head(toCache[n])
           a == h.a
           ws == waiters[n][a]
<1>1. /\ net[n].pc = "idle" /\ toCache[n] # <<>> /\ toCache' = [toCache EXCEPT ![n] = Tail(@)]
      /\ dir' = dir /\ h.t \in Rep /\ cfg \in Configs
  BY DEF HandleRep, dirVars, Rep, Types, ThreadsOK
<1>2. h \in ToCache /\ a \in Addrs /\ toCache \in [Nodes -> Seq(ToCache)]
  BY <1>1, HeadOfChannel DEF Types, ChannelsOK
<1>3. HandledRep(n, h)
  BY HandleRepFacts DEF Types, ThreadsOK
<1>4. PICK v \in Addrs \cup {None}, k \in Stack(n), ms \in Seq(ToDir) :
         /\ ms = EvictMsgs(stack[n], v) /\ WakeWaiters(n, a, k, ws, ms)
         /\ k.err = "no" => ws # <<>>
  BY <1>3 DEF HandledRep
<1>5. ws # <<>>
  <2>1. failed' = k.err
    BY <1>4, Zenon DEF WakeWaiters
  <2> QED
    BY <1>4, <2>1, Zenon
<1>6. ms = <<>> \/ \E g \in ToDir : g.t \in Gone /\ ms = <<g>>
  <2>1. stack[n] \in Stack(n) /\ None \notin Addrs
    BY CacheAssumption DEF Types, StacksOK
  <2> QED
    BY <1>1, <1>4, <2>1, EvictFacts
<1>7. h = Head(toCache[n]) /\ a = h.a /\ ws = waiters[n][a]
  OBVIOUS
<1> HIDE DEF h, a, ws
<1>8. WakeEffect(n, a, ws)
  BY <1>2, <1>4, <1>6, WakeTransactions
<1>9. net[n].a = None /\ None \notin Addrs
  BY <1>1, CacheAssumption DEF ThreadInv, NetInv
<1>10. ASSUME NEW m \in Nodes, NEW x \in Addrs
       PROVE  Single(m, x)'
  <2>1. /\ Single(m, x) /\ Asking(m, x) \in Nat /\ Queueing(m, x) \in Nat /\ Coming(m, x) \in Nat
        /\ Working(m, x) \in {0, 1}
    BY CountsType DEF TransactionInv
  <2>2. Queueing(m, x)' = Queueing(m, x)
    BY <1>1 DEF Queueing, CountIn, PlacesIn, FromNode
  <2>3. m = n => Working(m, x) = 0
    BY <1>9 DEF Working
  <2>4. Coming(m, x)' = Coming(m, x) - IF m = n /\ x = a THEN 1 ELSE 0
    <3>1. CASE m = n
      <4>1. toCache'[m] = Tail(toCache[m]) /\ toCache[m] # <<>> /\ h = Head(toCache[m])
            /\ toCache[m] \in Seq(ToCache)
        BY <1>1, <1>2, <1>7, <3>1
      <4>2. CountIn(Tail(toCache[m]), Reps(x)) = CountIn(toCache[m], Reps(x)) - One(h, Reps(x))
        BY <4>1, CountTail
      <4>3. One(h, Reps(x)) = IF x = a THEN 1 ELSE 0
        BY <1>1, <1>2, <1>7, CountReply
      <4> QED
        BY <3>1, <4>1, <4>2, <4>3 DEF Coming, CountIn, PlacesIn, Reps
    <3>2. CASE m # n
      <4>1. toCache'[m] = toCache[m]
        BY <1>1, <1>2, <3>2
      <4>2. Coming(m, x)' = Coming(m, x)
        BY <4>1 DEF Coming, CountIn, PlacesIn, Reps
      <4> QED
        BY <2>1, <3>2, <4>2
    <3> QED
      BY <3>1, <3>2
  <2>5. CASE m # n \/ x # a
    <3>1. /\ Asking(m, x)' = Asking(m, x) /\ Waited(m, x)' = Waited(m, x)
          /\ Working(m, x)' = Working(m, x)
      BY <1>8, <2>3, <2>5 DEF WakeEffect
    <3>2. SameTransaction(m, x)
      BY <2>1, <2>2, <2>4, <2>5, <3>1 DEF SameTransaction
    <3> QED
      BY <2>1, <3>2, SameSingle
  <2>6. CASE m = n /\ x = a
    <3>1. Waited(m, x) = 1 /\ Waited(m, x)' = 1
      BY <1>5, <1>7, <1>8, <2>6 DEF WakeEffect, Waited
    <3>2. Asking(m, x)' + Working(m, x)' = Asking(m, x) + 1
      BY <1>5, <1>8, <2>6 DEF WakeEffect
    <3>3. Asking(m, x)' \in Nat /\ Working(m, x)' \in {0, 1}
      <4>1. toDir'[m] \in Seq(ToDir)
        BY DEF Types, ChannelsOK
      <4>2. CountIn(toDir'[m], Reqs(x)) \in Nat
        BY <4>1, CountType
      <4> QED
        BY <4>2 DEF Asking, Working, CountIn, PlacesIn, Reqs
    <3>4. Coming(m, x)' = Coming(m, x) - 1 /\ Working(m, x) = 0
      BY <2>3, <2>4, <2>6
    <3> QED
      BY <2>1, <2>2, <3>1, <3>2, <3>3, <3>4 DEF Single
  <2> QED
    BY <2>5, <2>6
<1> QED
  BY <1>10 DEF TransactionInv

\* The network thread drops the waiter it served and goes on with the next.
LEMMA ResumeTransactions ==
    ASSUME Types, Types', ThreadInv, TransactionInv, NEW n \in Nodes, ResumeWaiters(n)
    PROVE  TransactionInv'
<1> DEFINE a == net[n].a
           ws == Tail(waiters[n][a])
<1>1. /\ net[n].pc = "signalled" /\ WakeWaiters(n, a, stack[n], ws, <<>>)
      /\ toCache' = toCache /\ dir' = dir
  BY DEF ResumeWaiters, dirVars
<1>2. a \in Addrs
  <2>1. a # None
    BY <1>1 DEF ThreadInv, NetInv
  <2> QED
    BY <2>1 DEF Types, ThreadsOK
<1>3. waiters[n][a] # <<>>
  BY <1>1 DEF ThreadInv, NetInv
<1>4. WakeEffect(n, a, ws)
  <2> HIDE DEF a, ws
  <2>1. <<>> = <<>> \/ \E g \in ToDir : g.t \in Gone /\ <<>> = <<g>>
    OBVIOUS
  <2> QED
    BY <1>1, <1>2, <2>1, WakeTransactions
<1>5. net[n].a = a
  OBVIOUS
<1> HIDE DEF a, ws
<1>6. ASSUME NEW m \in Nodes, NEW x \in Addrs
      PROVE  Single(m, x)'
  <2>1. /\ Single(m, x) /\ Asking(m, x) \in Nat /\ Queueing(m, x) \in Nat /\ Coming(m, x) \in Nat
        /\ Working(m, x) \in {0, 1} /\ Waited(m, x) \in {0, 1}
    BY CountsType DEF TransactionInv
  <2>2. Queueing(m, x)' = Queueing(m, x) /\ Coming(m, x)' = Coming(m, x)
    BY <1>1 DEF Queueing, Coming, CountIn, PlacesIn, FromNode, Reps
  <2>3. m = n => Working(m, x) = IF x = a THEN 1 ELSE 0
    BY <1>5 DEF Working
  <2>5. CASE m # n \/ x # a
    <3>1. /\ Asking(m, x)' = Asking(m, x) /\ Waited(m, x)' = Waited(m, x)
          /\ Working(m, x)' = Working(m, x)
      BY <1>4, <2>3, <2>5 DEF WakeEffect
    <3>2. SameTransaction(m, x)
      BY <2>2, <3>1 DEF SameTransaction
    <3> QED
      BY <2>1, <3>2, SameSingle
  <2>6. CASE m = n /\ x = a
    <3>1. Waited(m, x)' = IF ws = <<>> THEN 0 ELSE 1
      BY <1>4, <2>6 DEF WakeEffect
    <3>2. Asking(m, x)' + Working(m, x)' = Asking(m, x) + IF ws = <<>> THEN 0 ELSE 1
      BY <1>4, <2>6 DEF WakeEffect
    <3>3. Asking(m, x)' \in Nat /\ Working(m, x)' \in {0, 1}
      <4>1. toDir'[m] \in Seq(ToDir)
        BY DEF Types, ChannelsOK
      <4>2. CountIn(toDir'[m], Reqs(x)) \in Nat
        BY <4>1, CountType
      <4> QED
        BY <4>2 DEF Asking, Working, CountIn, PlacesIn, Reqs
    <3>4. Asking(m, x) = 0 /\ Queueing(m, x) = 0 /\ Coming(m, x) = 0
      BY <2>1, <2>3, <2>6 DEF Single
    <3> QED
      BY <2>1, <2>2, <2>3, <2>6, <3>1, <3>2, <3>3, <3>4 DEF Single
  <2> QED
    BY <2>5, <2>6
<1> QED
  BY <1>6 DEF TransactionInv

\* An answer to the directory is no request, what it answers no reply.
LEMMA HandleReqTransactions ==
    ASSUME Types, Types', TransactionInv, NEW n \in Nodes, HandleReq(n), failed = stack[n].err
    PROVE  TransactionInv'
<1> DEFINE h == Head(toCache[n])
<1>1. /\ toCache[n] # <<>> /\ toCache' = [toCache EXCEPT ![n] = Tail(@)]
      /\ dir' = dir /\ waiters' = waiters /\ net' = net /\ h.t \in Ask
  BY Zenon DEF HandleReq, dirVars, Ask
<1>2. /\ h \in ToCache /\ toCache \in [Nodes -> Seq(ToCache)] /\ toDir \in [Nodes -> Seq(ToDir)]
      /\ cfg \in Configs
  BY <1>1, HeadOfChannel DEF Types, ChannelsOK, ThreadsOK
<1>3. Answered(n, h)
  BY <1>2, HandleReqFacts DEF Types
<1>4. h = Head(toCache[n])
  OBVIOUS
<1> HIDE DEF h
<1>5. /\ \A k \in Nodes \ {n} : toDir'[k] = toDir[k]
      /\ \/ toDir'[n] = toDir[n]
         \/ \E g \in ToDir : g.t \in Gone \cup Wb /\ toDir'[n] = Append(toDir[n], g)
  BY <1>3 DEF Answered, Gone, Wb
<1>6. ASSUME NEW m \in Nodes, NEW x \in Addrs
      PROVE  Single(m, x)'
  <2>1. Single(m, x) /\ Asking(m, x) \in Nat /\ Coming(m, x) \in Nat
    BY CountsType DEF TransactionInv
  <2>2. Asking(m, x)' = Asking(m, x)
    <3>1. CASE toDir'[m] = toDir[m]
      BY <3>1 DEF Asking, CountIn, PlacesIn, Reqs
    <3>2. ASSUME NEW g \in ToDir, g.t \in Gone \cup Wb, toDir'[m] = Append(toDir[m], g)
          PROVE  Asking(m, x)' = Asking(m, x)
      <4>1. CountIn(Append(toDir[m], g), Reqs(x)) = CountIn(toDir[m], Reqs(x)) + One(g, Reqs(x))
        BY <1>2, CountAppend
      <4>2. One(g, Reqs(x)) = 0
        BY <3>2, CountRequest DEF Gone, Wb, Requests
      <4>3. CountIn(toDir[m], Reqs(x)) \in Nat
        BY <1>2, CountType
      <4>4. CountIn(toDir'[m], Reqs(x)) = CountIn(toDir[m], Reqs(x))
        BY <3>2, <4>1, <4>2, <4>3
      <4> QED
        BY <4>4 DEF Asking, CountIn, PlacesIn, Reqs
    <3> QED
      BY <1>5, <3>1, <3>2
  <2>3. Coming(m, x)' = Coming(m, x)
    <3>1. CASE m = n
      <4>1. toCache'[m] = Tail(toCache[m]) /\ toCache[m] # <<>> /\ h = Head(toCache[m])
            /\ toCache[m] \in Seq(ToCache)
        BY <1>1, <1>2, <1>4, <3>1
      <4>2. CountIn(Tail(toCache[m]), Reps(x)) = CountIn(toCache[m], Reps(x)) - One(h, Reps(x))
        BY <4>1, CountTail
      <4>3. One(h, Reps(x)) = 0
        BY <1>1, <1>2, CountReply DEF Ask, Rep
      <4>4. CountIn(toCache[m], Reps(x)) \in Nat
        BY <1>2, CountType
      <4>5. CountIn(toCache'[m], Reps(x)) = CountIn(toCache[m], Reps(x))
        BY <4>1, <4>2, <4>3, <4>4
      <4> QED
        BY <4>5 DEF Coming, CountIn, PlacesIn, Reps
    <3>2. CASE m # n
      <4>1. toCache'[m] = toCache[m]
        BY <1>1, <1>2, <3>2
      <4> QED
        BY <4>1 DEF Coming, CountIn, PlacesIn, Reps
    <3> QED
      BY <3>1, <3>2
  <2>4. SameTransaction(m, x)
    BY <1>1, <2>2, <2>3 DEF SameTransaction, Queueing, Working, Waited, CountIn, PlacesIn, FromNode
  <2> QED
    BY <2>1, <2>4, SameSingle
<1> QED
  BY <1>6, Zenon DEF TransactionInv

\* A core's step starts a transaction, or moves none.
LEMMA UserTransactions ==
    ASSUME Types, Types', OpsUsed, TransactionInv, NEW c \in Cores, UserStep(c)
    PROVE  TransactionInv'
<1> DEFINE n == NodeOf[c]
           nets == \A m \in Nodes : net'[m].a = net[m].a
<1>1. n \in Nodes /\ net \in [Nodes -> [pc : {"idle", "handoff", "signalled"}, a : Addrs \cup {None}]]
  BY NodeOfCore DEF Types, ThreadsOK
<1>2. ASSUME UNCHANGED <<toDir, toCache, dir, waiters>>, nets
      PROVE  TransactionInv'
  <2>1. \A m \in Nodes : SameKinds(toDir[m], toDir'[m]) /\ SameKinds(toCache[m], toCache'[m])
    BY <1>2, SameKindsReflexive
  <2> QED
    BY <1>2, <2>1, QuietTransactions
<1>3. ASSUME NEW k, NEW o, NEW st, Access(k, c, o, st), UNCHANGED <<dir, waiters>>, nets
      PROVE  TransactionInv'
  <2>1. \A m \in Nodes : SameKinds(toDir[m], toDir'[m]) /\ SameKinds(toCache[m], toCache'[m])
    BY <1>3, AccessKinds
  <2> QED
    BY <1>3, <2>1, QuietTransactions
<1>4. net' = net => nets
  OBVIOUS
<1>5. net' = [net EXCEPT ![n].pc = "signalled"] => nets
  <2> HIDE DEF n
  <2> QED
    BY <1>1
<1> HIDE DEF nets
<1>6. ASSUME NEW k, NEW o, FirstLevel(k, c, o)
      PROVE  TransactionInv'
  <2>1. UNCHANGED <<waiters, net, dir>>
    BY <1>6 DEF FirstLevel
  <2>2. Access(k, c, o, stack[k]) \/ UNCHANGED <<toDir, toCache>>
    BY <1>6 DEF FirstLevel
  <2> QED
    BY <1>2, <1>3, <1>4, <2>1, <2>2
<1>7. ASSUME NEW t, NEW a, Issue(c, Operation(t, a))
      PROVE  TransactionInv'
  <2>1. \E k, o : FirstLevel(k, c, o)
    BY <1>7 DEF Issue
  <2> QED
    BY <1>6, <2>1
<1>8. CASE IssueUnlock(c)
  <2>1. \E k, o : FirstLevel(k, c, o)
    BY <1>8 DEF IssueUnlock
  <2> QED
    BY <1>6, <2>1
<1>9. ASSUME NEW o, NEW st, NEW d, FillAndAccess(n, c, o, st, d), UNCHANGED <<waiters, dir>>, nets
      PROVE  TransactionInv'
  <2>1. \E r : Access(n, c, o, r)
    BY <1>9 DEF FillAndAccess
  <2> QED
    BY <1>3, <1>9, <2>1
<1>10. pc[c] # "idle" => op[c].a \in Addrs
  BY DEF OpsUsed
<1>11. CASE NextLevel(c)
  <2>1. UNCHANGED <<net, dir>> /\ op[c].a \in Addrs
    BY <1>10, <1>11, Zenon DEF NextLevel
  <2>2. \/ waiters' = waiters /\ \E st, d : FillAndAccess(n, c, op[c], st, d)
        \/ \E st : InitiateDirectoryAccess(n, c, op[c].t, op[c].a, st)
    BY <1>11, Zenon DEF NextLevel
  <2>3. ASSUME NEW st, InitiateDirectoryAccess(n, c, op[c].t, op[c].a, st)
        PROVE  TransactionInv'
    BY <1>1, <2>1, <2>3, QueueTransactions
  <2> QED
    BY <1>4, <1>9, <2>1, <2>2, <2>3, Zenon
<1>12. CASE Refill(c)
  BY <1>5, <1>9, <1>12, RefillParts
<1>13. CASE Prefetch(c)
  BY <1>2, <1>4, <1>13, PrefetchParts DEF dirVars
<1>14. CASE DoPrefetch(c)
  <2>1. UNCHANGED <<net, dir>> /\ op[c].a \in Addrs
    BY <1>10, <1>14, DoPrefetchParts
  <2>2. \/ UNCHANGED <<waiters, toDir, toCache>>
        \/ \E st : InitiateDirectoryAccess(n, c, "P", op[c].a, st)
    BY <1>14, DoPrefetchParts DEF DoPrefetchEnds, EndPrefetch
  <2>3. ASSUME NEW st, InitiateDirectoryAccess(n, c, "P", op[c].a, st)
        PROVE  TransactionInv'
    BY <1>1, <2>1, <2>3, QueueTransactions
  <2> QED
    BY <1>2, <1>4, <2>1, <2>2, <2>3
<1>15. CASE RefillPrefetch(c)
  BY <1>2, <1>5, <1>15, RefillPrefetchParts DEF EndPrefetch
<1> QED
  BY <1>7, <1>8, <1>11, <1>12, <1>13, <1>14, <1>15 DEF UserStep

-----------------------------------------------------------------------------
OneInv == CacheInv /\ (failed = "no" => TransactionInv)

LEMMA OneInit == Init => OneInv
<1> SUFFICES ASSUME Init PROVE TransactionInv
  BY CacheInit DEF OneInv
<1>1. ASSUME NEW m \in Nodes, NEW x \in Addrs
      PROVE  Single(m, x)
  <2>1. /\ toDir[m] = <<>> /\ dir[x].q = <<>> /\ toCache[m] = <<>> /\ net[m].a = None
        /\ waiters[m][x] = <<>>
    BY <1>1 DEF Init, NoEntry
  <2>2. \A X : CountIn(<<>>, X) = 0
    <3>1. \A X : PlacesIn(<<>>, X) = {}
      BY DEF PlacesIn
    <3> QED
      BY <3>1, FS_EmptySet DEF CountIn
  <2>3. Asking(m, x) = 0 /\ Queueing(m, x) = 0 /\ Coming(m, x) = 0
    BY <2>1, <2>2 DEF Asking, Queueing, Coming
  <2>4. Working(m, x) = 0 /\ Waited(m, x) = 0
    BY <2>1, CacheAssumption DEF Working, Waited
  <2> QED
    BY <2>3, <2>4 DEF Single
<1> QED
  BY <1>1 DEF TransactionInv

LEMMA OneNext ==
    ASSUME OneInv, [Next]_vars
    PROVE  OneInv'
<1>1. CacheInv'
  BY CacheNext DEF OneInv
<1>2. CASE UNCHANGED vars
  <2>1. UNCHANGED <<waiters, net, toDir, toCache, dir, failed>>
    BY <1>2 DEF vars, cacheVars, userVars, dirVars
  <2>2. TransactionInv => TransactionInv'
    BY <2>1 DEF TransactionInv, Single, Asking, Queueing, Coming, Working, Waited, CountIn, PlacesIn,
                Reqs, Reps, FromNode
  <2> QED
    BY <1>1, <2>1, <2>2 DEF OneInv
<1> SUFFICES ASSUME Next, failed' = "no" PROVE TransactionInv'
  BY <1>1, <1>2 DEF OneInv
<1>3. failed = "no" /\ Types /\ Types' /\ ErrInv /\ ThreadInv /\ TransactionInv
  BY <1>1 DEF Next, OneInv, CacheInv, TypeInv
<1>4. ASSUME NEW c \in Cores, UserStep(c)
      PROVE  TransactionInv'
  <2>1. OpsUsed
    BY <1>3 DEF ThreadInv, OpInv, OpsUsed
  <2> QED
    BY <1>3, <1>4, <2>1, UserTransactions
<1>5. ASSUME NEW n \in Nodes, NetStep(n)
      PROVE  TransactionInv'
  <2>1. failed = stack[n].err
    BY <1>3 DEF ErrInv
  <2> QED
    BY <1>3, <1>5, <2>1, HandleRepTransactions, ResumeTransactions, HandleReqTransactions DEF NetStep
<1>6. CASE DirStep
  BY <1>3, <1>6, DirReceiveTransactions, DirAskTransactions, DirReplyTransactions DEF DirStep
<1> QED
  BY <1>4, <1>5, <1>6 DEF Next

\* A line has waiters exactly while one transaction for it is under way: its
\* request at or on the way to the directory, its reply on the way back, or
\* the network thread going through the waiters; never two, never none.
THEOREM CacheOneTransaction == Spec => []OneTransaction
<1>1. OneInv => OneTransaction
  <2> SUFFICES ASSUME OneInv, failed = "no", NEW n \in Nodes, NEW a \in Addrs
               PROVE  /\ Cardinality({i \in 1 .. Len(toDir[n]) :
                                          toDir[n][i].a = a /\ toDir[n][i].t \in Requests})
                           + Cardinality({i \in 1 .. Len(dir[a].q) : dir[a].q[i].n = n})
                           + Cardinality({i \in 1 .. Len(toCache[n]) : toCache[n][i].a = a
                                             /\ toCache[n][i].t \in {"SH_REP", "EX_REP", "UPGRADE_REP"}})
                           + (IF net[n].a = a THEN 1 ELSE 0)
                         = IF waiters[n][a] = <<>> THEN 0 ELSE 1
    BY DEF OneTransaction
  <2>1. Types /\ Single(n, a)
    BY DEF OneInv, CacheInv, TypeInv, TransactionInv
  <2>2. /\ toDir[n] \in Seq(ToDir) /\ toCache[n] \in Seq(ToCache)
        /\ dir[a].q \in Seq([t : Requests, n : Nodes])
    BY <2>1, ChannelTypes
  <2>3. PlacesIn(toDir[n], Reqs(a)) = {i \in 1 .. Len(toDir[n]) :
                                          toDir[n][i].a = a /\ toDir[n][i].t \in Requests}
    BY <2>2 DEF PlacesIn, Reqs
  <2>4. PlacesIn(dir[a].q, FromNode(n)) = {i \in 1 .. Len(dir[a].q) : dir[a].q[i].n = n}
    <3> DEFINE q == dir[a].q
               T == [t : Requests, n : Nodes]
    <3>1. q \in Seq(T)
      BY <2>2
    <3> HIDE DEF q, T
    <3>2. DOMAIN q = 1 .. Len(q) /\ \A i \in DOMAIN q : q[i] \in T
      BY <3>1
    <3>3. PlacesIn(q, FromNode(n)) = {i \in 1 .. Len(q) : q[i].n = n}
      BY <3>2 DEF PlacesIn, FromNode, T
    <3> QED
      BY <3>3 DEF q
  <2>5. PlacesIn(toCache[n], Reps(a)) = {i \in 1 .. Len(toCache[n]) : toCache[n][i].a = a
                                             /\ toCache[n][i].t \in {"SH_REP", "EX_REP", "UPGRADE_REP"}}
    BY <2>2 DEF PlacesIn, Reps, Rep
  <2> QED
    BY <2>1, <2>3, <2>4, <2>5 DEF Single, Asking, Queueing, Coming, Working, Waited, CountIn
<1> QED
  BY <1>1, OneInit, OneNext, PTL DEF Spec

-----------------------------------------------------------------------------
(* One line of one node: the state s of the LLC's copy, what the channels  *)
(* tc to and td from the LLC say of the line, place by place, what the     *)
(* directory has queued of the node (qs), and the directory's entry e.     *)

Pos == Nat \ {0}
\* An upgrade reply that comes with the data is a kind of its own.
KindOf(m) == IF m.t = "UPGRADE_REP" /\ m.d THEN "UPGRADE_DATA" ELSE m.t
View(q, x) == [i \in Pos |-> IF i \in DOMAIN q /\ q[i].a = x THEN KindOf(q[i]) ELSE "none"]
QueueView(q, n) == [i \in Pos |-> IF i \in DOMAIN q /\ q[i].n = n THEN q[i].t ELSE "none"]
Some(v, T) == \E i \in Pos : v[i] \in T
Fetch == {"SH_REQ", "EX_REQ"}
Raise == {"UPGRADE_REQ"}
Grant == {"EX_REP", "UPGRADE_REP", "UPGRADE_DATA"}
Answer == {"SH_REP", "EX_REP", "UPGRADE_REP", "UPGRADE_DATA"}
Known(n, e) == n \in e.sharers \/ e.owner = n

\* What is under way for the line fits the state of the copy.
FreshInv(s, tc, td, qs) ==
    /\ Some(td, Fetch) \/ Some(qs, Fetch) \/ Some(tc, {"SH_REP", "EX_REP", "UPGRADE_DATA"}) => s = "I"
    /\ Some(td, Raise) \/ Some(qs, Raise) => s \in {"u", "I"}
    /\ Some(tc, {"UPGRADE_REP"}) => s = "u"
    /\ s = "u" => Some(td, Raise) \/ Some(qs, Raise) \/ Some(tc, {"UPGRADE_REP"})
\* The directory knows of every copy, and of no copy that is not there.
KnownInv(n, s, tc, td, e) ==
    /\ s \in {"E", "M"} \/ Some(tc, Grant) => e.owner = n
    /\ s \in {"S", "u"} \/ Some(tc, {"SH_REP"}) => Known(n, e)
    /\ Known(n, e) => s # "I" \/ Some(tc, Answer) \/ Some(td, Gone)
    /\ e.owner = n => s \in {"E", "M"} \/ Some(tc, Grant) \/ Some(td, Gone) \/ Some(td, Wb)
\* A copy that is reported gone is gone, and one written back is SHARED at most.
GoneInv(n, s, tc, td, e) ==
    /\ Some(td, Gone) => s = "I" /\ ~Some(tc, Answer)
    /\ Some(td, Wb) => /\ e.owner = n /\ s \notin {"E", "M"} /\ ~Some(tc, Answer)
                       /\ ~Some(tc, Ask) /\ n \in e.asked
OnceInv(td) ==
    /\ \A i, j \in Pos : td[i] \in Gone /\ td[j] \in Gone => i = j
    /\ \A i, j \in Pos : td[i] \in Wb /\ td[j] \in Wb => i = j
    /\ \A i, j \in Pos : td[i] \in Gone /\ td[j] \in Wb => j < i
\* A request does not overtake the report that the old copy is gone.
QueuedInv(n, td, qs, e) ==
    /\ Some(qs, Fetch) => ~Known(n, e) /\ ~Some(td, Gone) /\ ~Some(td, Wb)
    /\ Some(qs, Raise) => e.owner # n /\ (Some(td, Gone) => n \in e.asked)
SentInv(n, td, e) ==
    /\ \A i \in Pos : td[i] \in Fetch =>
          /\ \A j \in Pos : td[j] \in Gone \cup Wb => j < i
          /\ Known(n, e) => \E j \in Pos : td[j] \in Gone /\ j < i
    /\ \A i \in Pos : td[i] \in Raise =>
          /\ \A j \in Pos : td[j] \in Wb => j < i
          /\ Some(td, Gone) => n \in e.asked /\ ~Some(td, Wb)
          /\ e.owner = n => Some(td, Wb)
\* A request of the directory that finds a copy is the one it waits for.
AskInv(n, s, tc, e) ==
    \A i \in Pos :
       tc[i] \in Ask /\ (s # "I" \/ \E j \in Pos : tc[j] \in Answer /\ j < i) =>
          /\ n \in e.asked
          /\ \A j \in Pos : tc[j] \in Answer \cup Ask => j <= i
          /\ tc[i] = "INV_REQ" => n \in e.sharers
          /\ tc[i] \in {"FLUSH_REQ", "WB_REQ"} => e.owner = n
LineOK(n, s, tc, td, qs, e) ==
    /\ FreshInv(s, tc, td, qs) /\ KnownInv(n, s, tc, td, e) /\ GoneInv(n, s, tc, td, e)
    /\ OnceInv(td) /\ QueuedInv(n, td, qs, e) /\ SentInv(n, td, e) /\ AskInv(n, s, tc, e)

-----------------------------------------------------------------------------
(* What a step does to the views *)

\* Nothing is said of the line: the view stays, or moves up by a place without a word of it.
Moved(v, w) == \A i \in Pos : w[i] = v[i + 1]
Quiet(v, w) == (\A i \in Pos : w[i] = v[i]) \/ (v[1] = "none" /\ Moved(v, w))
\* A message of kind t comes last.
Ends(v, w, t) == \E z \in Pos : /\ \A i \in Pos : i >= z => v[i] = "none"
                                /\ \A i \in Pos : w[i] = IF i = z THEN t ELSE v[i]
\* The entry says of node n what it said before.
SameEntry(n, e, f) ==
    /\ f.owner = n <=> e.owner = n
    /\ n \in f.sharers <=> n \in e.sharers
    /\ n \in f.asked <=> n \in e.asked

LEMMA QuietSome ==
    ASSUME NEW v, NEW w, Quiet(v, w), NEW T, "none" \notin T
    PROVE  Some(w, T) <=> Some(v, T)
<1>1. CASE \A i \in Pos : w[i] = v[i]
  BY <1>1 DEF Some
<1>2. CASE v[1] = "none" /\ Moved(v, w)
  <2>1. ASSUME NEW i \in Pos, v[i] \in T
        PROVE  i - 1 \in Pos /\ w[i - 1] = v[i]
    BY <1>2, <2>1 DEF Moved, Pos
  <2>2. ASSUME NEW i \in Pos
        PROVE  i + 1 \in Pos /\ w[i] = v[i + 1]
    BY <1>2 DEF Moved, Pos
  <2> QED
    BY <2>1, <2>2 DEF Some
<1> QED
  BY <1>1, <1>2 DEF Quiet

\* Places of a quiet view correspond, in their order.
LEMMA QuietPlaces ==
    ASSUME NEW v, NEW w, Quiet(v, w)
    PROVE  \E k \in {0, 1} : /\ \A i \in Pos : i + k \in Pos /\ w[i] = v[i + k]
                             /\ \A i \in Pos : v[i] # "none" => i - k \in Pos /\ w[i - k] = v[i]
<1>1. CASE \A i \in Pos : w[i] = v[i]
  <2>1. \A i \in Pos : i + 0 \in Pos /\ w[i] = v[i + 0] /\ i - 0 \in Pos /\ w[i - 0] = v[i]
    BY <1>1 DEF Pos
  <2> QED
    BY <2>1
<1>2. CASE v[1] = "none" /\ Moved(v, w)
  <2>1. ASSUME NEW i \in Pos, v[i] # "none"
        PROVE  i - 1 \in Pos /\ w[i - 1] = v[i]
    BY <1>2, <2>1 DEF Moved, Pos
  <2>2. ASSUME NEW i \in Pos
        PROVE  i + 1 \in Pos /\ w[i] = v[i + 1]
    BY <1>2 DEF Moved, Pos
  <2> QED
    BY <2>1, <2>2
<1> QED
  BY <1>1, <1>2 DEF Quiet

LEMMA KindSets ==
    "none" \notin Gone \cup Wb \cup Ask \cup Answer \cup Grant \cup Fetch \cup Raise \cup Requests
BY DEF Gone, Wb, Ask, Answer, Grant, Fetch, Raise, Requests

\* A step that says nothing of the line, or only of its data.
LEMMA LineQuiet ==
    ASSUME NEW n, NEW s, NEW s2, NEW tc, NEW tc2, NEW td, NEW td2, NEW qs, NEW qs2, NEW e, NEW e2,
           LineOK(n, s, tc, td, qs, e), Quiet(tc, tc2), Quiet(td, td2), SameEntry(n, e, e2),
           Quiet(qs, qs2), s2 = s \/ (s \in {"E", "M"} /\ s2 \in {"E", "M"})
    PROVE  LineOK(n, s2, tc2, td2, qs2, e2)
<1>1. \A T : "none" \notin T => /\ Some(tc2, T) <=> Some(tc, T)
                                /\ Some(td2, T) <=> Some(td, T)
                                /\ Some(qs2, T) <=> Some(qs, T)
  BY QuietSome
<1>2. /\ Some(tc2, Answer) <=> Some(tc, Answer)
      /\ Some(tc2, Grant) <=> Some(tc, Grant)
      /\ Some(tc2, Ask) <=> Some(tc, Ask)
      /\ Some(tc2, {"SH_REP"}) <=> Some(tc, {"SH_REP"})
      /\ Some(tc2, {"UPGRADE_REP"}) <=> Some(tc, {"UPGRADE_REP"})
      /\ Some(tc2, {"SH_REP", "EX_REP", "UPGRADE_DATA"}) <=> Some(tc, {"SH_REP", "EX_REP", "UPGRADE_DATA"})
  BY <1>1, KindSets
<1>3. /\ Some(td2, Gone) <=> Some(td, Gone)
      /\ Some(td2, Wb) <=> Some(td, Wb)
      /\ Some(td2, Fetch) <=> Some(td, Fetch)
      /\ Some(td2, Raise) <=> Some(td, Raise)
      /\ Some(qs2, Fetch) <=> Some(qs, Fetch)
      /\ Some(qs2, Raise) <=> Some(qs, Raise)
  BY <1>1, KindSets
<1>4. PICK k \in {0, 1} : /\ \A i \in Pos : i + k \in Pos /\ tc2[i] = tc[i + k]
                          /\ \A i \in Pos : tc[i] # "none" => i - k \in Pos /\ tc2[i - k] = tc[i]
  BY QuietPlaces
<1>5. PICK l \in {0, 1} : /\ \A i \in Pos : i + l \in Pos /\ td2[i] = td[i + l]
                          /\ \A i \in Pos : td[i] # "none" => i - l \in Pos /\ td2[i - l] = td[i]
  BY QuietPlaces
<1>6. Known(n, e2) <=> Known(n, e)
  BY DEF SameEntry, Known
<1>7. FreshInv(s2, tc2, td2, qs2)
  BY <1>2, <1>3 DEF LineOK, FreshInv
<1>8. KnownInv(n, s2, tc2, td2, e2)
  BY <1>2, <1>3, <1>6 DEF LineOK, KnownInv, SameEntry
<1>9. GoneInv(n, s2, tc2, td2, e2)
  BY <1>2, <1>3 DEF LineOK, GoneInv, SameEntry
<1>10. OnceInv(td2)
  <2>1. OnceInv(td)
    BY DEF LineOK
  <2>2. \A i, j \in Pos : td2[i] \in Gone /\ td2[j] \in Gone => i + l = j + l
    BY <1>5, <2>1 DEF OnceInv
  <2>3. \A i, j \in Pos : td2[i] \in Wb /\ td2[j] \in Wb => i + l = j + l
    BY <1>5, <2>1 DEF OnceInv
  <2>4. \A i, j \in Pos : td2[i] \in Gone /\ td2[j] \in Wb => j + l < i + l
    BY <1>5, <2>1 DEF OnceInv
  <2>5. l \in Nat /\ Pos \subseteq Nat
    BY DEF Pos
  <2> QED
    BY <2>2, <2>3, <2>4, <2>5 DEF OnceInv
<1>11. QueuedInv(n, td2, qs2, e2)
  BY <1>3, <1>6 DEF LineOK, QueuedInv, SameEntry
<1>12. SentInv(n, td2, e2)
  <2>1. SentInv(n, td, e) /\ l \in Nat /\ Pos \subseteq Nat
    BY DEF LineOK, Pos
  <2>2. ASSUME NEW i \in Pos, td2[i] \in Fetch
        PROVE  /\ \A j \in Pos : td2[j] \in Gone \cup Wb => j < i
               /\ Known(n, e2) => \E j \in Pos : td2[j] \in Gone /\ j < i
    <3>1. i + l \in Pos /\ td[i + l] \in Fetch
      BY <1>5, <2>2
    <3>2. \A j \in Pos : td2[j] \in Gone \cup Wb => j + l < i + l
      BY <1>5, <2>1, <3>1 DEF SentInv
    <3>3. ASSUME Known(n, e2)
          PROVE  \E j \in Pos : td2[j] \in Gone /\ j < i
      <4>1. PICK j \in Pos : td[j] \in Gone /\ j < i + l
        BY <1>6, <2>1, <3>1, <3>3 DEF SentInv
      <4>2. j - l \in Pos /\ td2[j - l] \in Gone
        BY <1>5, <4>1 DEF Gone
      <4> QED
        BY <2>1, <4>1, <4>2
    <3> QED
      BY <2>1, <3>2, <3>3
  <2>3. ASSUME NEW i \in Pos, td2[i] \in Raise
        PROVE  /\ \A j \in Pos : td2[j] \in Wb => j < i
               /\ Some(td2, Gone) => n \in e2.asked /\ ~Some(td2, Wb)
               /\ e2.owner = n => Some(td2, Wb)
    <3>1. i + l \in Pos /\ td[i + l] \in Raise
      BY <1>5, <2>3
    <3>2. \A j \in Pos : td2[j] \in Wb => j + l < i + l
      BY <1>5, <2>1, <3>1 DEF SentInv
    <3>3. /\ Some(td, Gone) => n \in e.asked /\ ~Some(td, Wb)
          /\ e.owner = n => Some(td, Wb)
      BY <2>1, <3>1 DEF SentInv
    <3> QED
      BY <1>3, <2>1, <3>2, <3>3 DEF SameEntry
  <2> QED
    BY <2>2, <2>3 DEF SentInv
<1>13. AskInv(n, s2, tc2, e2)
  <2>1. AskInv(n, s, tc, e) /\ k \in Nat /\ Pos \subseteq Nat
    BY DEF LineOK, Pos
  <2> SUFFICES ASSUME NEW i \in Pos, tc2[i] \in Ask,
                      s2 # "I" \/ \E j \in Pos : tc2[j] \in Answer /\ j < i
               PROVE  /\ n \in e2.asked
                      /\ \A j \in Pos : tc2[j] \in Answer \cup Ask => j <= i
                      /\ tc2[i] = "INV_REQ" => n \in e2.sharers
                      /\ tc2[i] \in {"FLUSH_REQ", "WB_REQ"} => e2.owner = n
    BY DEF AskInv
  <2>2. i + k \in Pos /\ tc[i + k] = tc2[i] /\ tc[i + k] \in Ask
    BY <1>4
  <2>3. s # "I" \/ \E j \in Pos : tc[j] \in Answer /\ j < i + k
    <3>1. CASE s2 # "I"
      BY <3>1
    <3>2. ASSUME NEW j \in Pos, tc2[j] \in Answer, j < i
          PROVE  \E h \in Pos : tc[h] \in Answer /\ h < i + k
      <4>1. j + k \in Pos /\ tc[j + k] \in Answer /\ j + k < i + k
        BY <1>4, <2>1, <3>2
      <4> QED
        BY <4>1
    <3> QED
      BY <3>1, <3>2
  <2>4. /\ n \in e.asked
        /\ \A j \in Pos : tc[j] \in Answer \cup Ask => j <= i + k
        /\ tc2[i] = "INV_REQ" => n \in e.sharers
        /\ tc2[i] \in {"FLUSH_REQ", "WB_REQ"} => e.owner = n
    BY <2>1, <2>2, <2>3 DEF AskInv
  <2>5. ASSUME NEW j \in Pos, tc2[j] \in Answer \cup Ask
        PROVE  j <= i
    <3>1. j + k \in Pos /\ tc[j + k] \in Answer \cup Ask
      BY <1>4, <2>5
    <3>2. j + k <= i + k
      BY <2>4, <3>1
    <3> QED
      BY <2>1, <3>2
  <2> QED
    BY <2>4, <2>5 DEF SameEntry
<1> QED
  BY <1>7, <1>8, <1>9, <1>10, <1>11, <1>12, <1>13 DEF LineOK

LEMMA EndsSome ==
    ASSUME NEW v, NEW w, NEW t, Ends(v, w, t), NEW T, "none" \notin T
    PROVE  Some(w, T) <=> t \in T \/ Some(v, T)
BY DEF Ends, Some, Pos

LEMMA MovedSome ==
    ASSUME NEW v, NEW w, Moved(v, w), NEW T
    PROVE  Some(v, T) <=> v[1] \in T \/ Some(w, T)
<1>1. \A i \in Pos : i # 1 => i - 1 \in Pos /\ w[i - 1] = v[i]
  BY DEF Moved, Pos
<1>2. \A i \in Pos : i + 1 \in Pos /\ w[i] = v[i + 1]
  BY DEF Moved, Pos
<1>3. 1 \in Pos
  BY DEF Pos
<1> QED
  BY <1>1, <1>2, <1>3 DEF Some

LEMMA KindsApart ==
    /\ Requests = Fetch \cup Raise
    /\ Fetch \cap (Raise \cup Gone \cup Wb \cup Answer \cup Ask) = {}
    /\ Raise \cap (Gone \cup Wb \cup Answer \cup Ask) = {}
    /\ Gone \cap (Wb \cup Answer \cup Ask) = {} /\ Wb \cap (Answer \cup Ask) = {}
    /\ Answer \cap Ask = {} /\ Grant \subseteq Answer
    /\ Answer = Grant \cup {"SH_REP"}
    /\ Answer = {"SH_REP", "EX_REP", "UPGRADE_DATA"} \cup {"UPGRADE_REP"}
BY DEF Requests, Fetch, Raise, Gone, Wb, Answer, Ask, Grant

\* What a longer channel says of the line.
LEMMA EndsKinds ==
    ASSUME NEW v, NEW w, NEW t, Ends(v, w, t)
    PROVE  /\ Some(w, Fetch) <=> t \in Fetch \/ Some(v, Fetch)
           /\ Some(w, Raise) <=> t \in Raise \/ Some(v, Raise)
           /\ Some(w, Gone) <=> t \in Gone \/ Some(v, Gone)
           /\ Some(w, Wb) <=> t \in Wb \/ Some(v, Wb)
           /\ Some(w, Answer) <=> t \in Answer \/ Some(v, Answer)
           /\ Some(w, Grant) <=> t \in Grant \/ Some(v, Grant)
           /\ Some(w, Ask) <=> t \in Ask \/ Some(v, Ask)
           /\ Some(w, {"SH_REP"}) <=> t = "SH_REP" \/ Some(v, {"SH_REP"})
           /\ Some(w, {"UPGRADE_REP"}) <=> t = "UPGRADE_REP" \/ Some(v, {"UPGRADE_REP"})
           /\ Some(w, {"SH_REP", "EX_REP", "UPGRADE_DATA"})
                 <=> t \in {"SH_REP", "EX_REP", "UPGRADE_DATA"} \/ Some(v, {"SH_REP", "EX_REP", "UPGRADE_DATA"})
<1>1. \A T : "none" \notin T => (Some(w, T) <=> t \in T \/ Some(v, T))
  BY EndsSome
<1> QED
  BY <1>1, KindSets

LEMMA MovedKinds ==
    ASSUME NEW v, NEW w, Moved(v, w)
    PROVE  /\ Some(v, Fetch) <=> v[1] \in Fetch \/ Some(w, Fetch)
           /\ Some(v, Raise) <=> v[1] \in Raise \/ Some(w, Raise)
           /\ Some(v, Gone) <=> v[1] \in Gone \/ Some(w, Gone)
           /\ Some(v, Wb) <=> v[1] \in Wb \/ Some(w, Wb)
           /\ Some(v, Answer) <=> v[1] \in Answer \/ Some(w, Answer)
           /\ Some(v, Grant) <=> v[1] \in Grant \/ Some(w, Grant)
           /\ Some(v, Ask) <=> v[1] \in Ask \/ Some(w, Ask)
           /\ Some(v, {"SH_REP"}) <=> v[1] = "SH_REP" \/ Some(w, {"SH_REP"})
           /\ Some(v, {"UPGRADE_REP"}) <=> v[1] = "UPGRADE_REP" \/ Some(w, {"UPGRADE_REP"})
           /\ Some(v, {"SH_REP", "EX_REP", "UPGRADE_DATA"})
                 <=> v[1] \in {"SH_REP", "EX_REP", "UPGRADE_DATA"} \/ Some(w, {"SH_REP", "EX_REP", "UPGRADE_DATA"})
<1>1. \A T : Some(v, T) <=> v[1] \in T \/ Some(w, T)
  BY MovedSome
<1> QED
  BY <1>1

\* No transaction of the line is under way.
Unasked(tc, td, qs) ==
    /\ ~Some(td, Fetch) /\ ~Some(td, Raise) /\ ~Some(qs, Fetch) /\ ~Some(qs, Raise)
    /\ ~Some(tc, Answer)
LEMMA UnaskedKinds ==
    ASSUME NEW tc, NEW td, NEW qs, Unasked(tc, td, qs)
    PROVE  /\ ~Some(tc, Grant) /\ ~Some(tc, {"SH_REP"}) /\ ~Some(tc, {"UPGRADE_REP"})
           /\ ~Some(tc, {"SH_REP", "EX_REP", "UPGRADE_DATA"})
BY KindsApart DEF Unasked, Some

\* An absent line is asked for.
LEMMA FetchSent ==
    ASSUME NEW n, NEW tc, NEW td, NEW td2, NEW qs, NEW e, NEW t \in Fetch,
           LineOK(n, "I", tc, td, qs, e), Unasked(tc, td, qs), Ends(td, td2, t)
    PROVE  LineOK(n, "I", tc, td2, qs, e)
<1>1. FreshInv("I", tc, td2, qs)
  BY UnaskedKinds, EndsKinds, KindsApart DEF LineOK, FreshInv, Unasked
<1>2. KnownInv(n, "I", tc, td2, e) /\ GoneInv(n, "I", tc, td2, e) /\ QueuedInv(n, td2, qs, e)
  BY EndsKinds, KindsApart DEF LineOK, KnownInv, GoneInv, QueuedInv
<1>3. PICK z \in Pos : /\ \A i \in Pos : i >= z => td[i] = "none"
                       /\ \A i \in Pos : td2[i] = IF i = z THEN t ELSE td[i]
  BY DEF Ends
<1>4. t \notin Raise \cup Gone \cup Wb
  BY KindsApart
<1>5. OnceInv(td2)
  BY <1>3, <1>4 DEF LineOK, OnceInv
<1>6. SentInv(n, td2, e)
  <2>1. ASSUME NEW i \in Pos, td2[i] \in Fetch
        PROVE  i = z
    BY <1>3, <2>1 DEF Unasked, Some
  <2>2. \A i \in Pos : td2[i] \notin Raise
    BY <1>3, <1>4 DEF Unasked, Some
  <2>3. \A j \in Pos : td2[j] \in Gone \cup Wb => j < z
    BY <1>3, <1>4, KindSets DEF Pos
  <2>4. Known(n, e) => \E j \in Pos : td2[j] \in Gone /\ j < z
    <3> SUFFICES ASSUME Known(n, e) PROVE \E j \in Pos : td2[j] \in Gone /\ j < z
      OBVIOUS
    <3>1. Some(td2, Gone)
      BY EndsKinds, UnaskedKinds DEF LineOK, KnownInv, Unasked
    <3> QED
      BY <2>3, <3>1 DEF Some
  <2> QED
    BY <2>1, <2>2, <2>3, <2>4 DEF SentInv
<1> QED
  BY <1>1, <1>2, <1>5, <1>6 DEF LineOK

\* A SHARED line is upgraded.
LEMMA RaiseSent ==
    ASSUME NEW n, NEW tc, NEW td, NEW td2, NEW qs, NEW e, NEW t \in Raise,
           LineOK(n, "S", tc, td, qs, e), Unasked(tc, td, qs), Ends(td, td2, t)
    PROVE  LineOK(n, "u", tc, td2, qs, e)
<1>0. ~Some(td, Gone)
  BY DEF LineOK, GoneInv
<1>1. FreshInv("u", tc, td2, qs)
  BY UnaskedKinds, EndsKinds, KindsApart DEF LineOK, FreshInv, Unasked
<1>2. KnownInv(n, "u", tc, td2, e) /\ GoneInv(n, "u", tc, td2, e) /\ QueuedInv(n, td2, qs, e)
  BY <1>0, EndsKinds, KindsApart DEF LineOK, KnownInv, GoneInv, QueuedInv
<1>3. PICK z \in Pos : /\ \A i \in Pos : i >= z => td[i] = "none"
                       /\ \A i \in Pos : td2[i] = IF i = z THEN t ELSE td[i]
  BY DEF Ends
<1>4. t \notin Fetch \cup Gone \cup Wb
  BY KindsApart
<1>5. OnceInv(td2)
  BY <1>3, <1>4 DEF LineOK, OnceInv
<1>6. SentInv(n, td2, e)
  <2>1. ASSUME NEW i \in Pos, td2[i] \in Raise
        PROVE  i = z
    BY <1>3, <2>1 DEF Unasked, Some
  <2>2. \A i \in Pos : td2[i] \notin Fetch
    BY <1>3, <1>4 DEF Unasked, Some
  <2>3. \A j \in Pos : td2[j] \in Wb => j < z
    BY <1>3, <1>4, KindSets DEF Pos
  <2>4. ~Some(td2, Gone)
    BY <1>0, <1>4, EndsKinds
  <2>5. e.owner = n => Some(td2, Wb)
    BY <1>0, EndsKinds, UnaskedKinds DEF LineOK, KnownInv
  <2> QED
    BY <2>1, <2>2, <2>3, <2>4, <2>5 DEF SentInv
<1>7. AskInv(n, "u", tc, e)
  BY DEF LineOK, AskInv
<1> QED
  BY <1>1, <1>2, <1>5, <1>6, <1>7 DEF LineOK

LEMMA MovedOnce ==
    ASSUME NEW td, NEW td2, Moved(td, td2), OnceInv(td)
    PROVE  OnceInv(td2)
<1>1. \A i \in Pos : i + 1 \in Pos /\ td2[i] = td[i + 1]
  BY DEF Moved, Pos
<1>2. \A i, j \in Pos : /\ td2[i] \in Gone /\ td2[j] \in Gone => i + 1 = j + 1
                        /\ td2[i] \in Wb /\ td2[j] \in Wb => i + 1 = j + 1
                        /\ td2[i] \in Gone /\ td2[j] \in Wb => j + 1 < i + 1
  BY <1>1 DEF OnceInv
<1> QED
  BY <1>2 DEF OnceInv, Pos

\* The only transaction is a request on its way to the directory.
Sent(tc, td, qs) ==
    /\ ~Some(qs, Fetch) /\ ~Some(qs, Raise) /\ ~Some(tc, Answer)
    /\ \A i, j \in Pos : td[i] \in Requests /\ td[j] \in Requests => i = j

\* A request reaches the directory's queue.
LEMMA RequestQueued ==
    ASSUME NEW n, NEW s, NEW tc, NEW td, NEW td2, NEW qs, NEW qs2, NEW e, NEW e2,
           LineOK(n, s, tc, td, qs, e), Sent(tc, td, qs), td[1] \in Requests, Moved(td, td2),
           Ends(qs, qs2, td[1]), SameEntry(n, e, e2)
    PROVE  LineOK(n, s, tc, td2, qs2, e2)
<1> DEFINE t == td[1]
<1>1. /\ \A i \in Pos : i + 1 \in Pos /\ i + 1 # 1 /\ td2[i] = td[i + 1]
      /\ 1 \in Pos
  BY DEF Moved, Pos
<1>2. \A i \in Pos : td2[i] \notin Requests
  BY <1>1 DEF Sent
<1>3. ~Some(td2, Fetch) /\ ~Some(td2, Raise)
  BY <1>2, KindsApart DEF Some
<1>4. t \in Fetch \cup Raise /\ t \notin Gone \cup Wb
  BY KindsApart
<1>5. Known(n, e2) <=> Known(n, e)
  BY DEF SameEntry, Known
<1>6. /\ Some(td2, Gone) <=> Some(td, Gone)
      /\ Some(td2, Wb) <=> Some(td, Wb)
      /\ t \in Fetch => Some(td, Fetch)
      /\ t \in Raise => Some(td, Raise)
  BY <1>4, MovedKinds
<1>7. /\ Some(qs2, Fetch) <=> t \in Fetch
      /\ Some(qs2, Raise) <=> t \in Raise
  BY EndsKinds DEF Sent
<1>8. t \in Fetch => ~Known(n, e) /\ ~Some(td, Gone) /\ ~Some(td, Wb)
  <2> SUFFICES ASSUME t \in Fetch
               PROVE  ~Known(n, e) /\ ~Some(td, Gone) /\ ~Some(td, Wb)
    OBVIOUS
  <2>1. /\ \A j \in Pos : td[j] \in Gone \cup Wb => j < 1
        /\ Known(n, e) => \E j \in Pos : td[j] \in Gone /\ j < 1
    BY <1>1 DEF LineOK, SentInv
  <2>2. \A j \in Pos : ~(j < 1)
    BY DEF Pos
  <2> QED
    BY <2>1, <2>2 DEF Some
<1>9. t \in Raise => e.owner # n /\ (Some(td, Gone) => n \in e.asked)
  <2> SUFFICES ASSUME t \in Raise
               PROVE  e.owner # n /\ (Some(td, Gone) => n \in e.asked)
    OBVIOUS
  <2>1. /\ \A j \in Pos : td[j] \in Wb => j < 1
        /\ Some(td, Gone) => n \in e.asked
        /\ e.owner = n => Some(td, Wb)
    BY <1>1 DEF LineOK, SentInv
  <2>2. \A j \in Pos : ~(j < 1)
    BY DEF Pos
  <2> QED
    BY <2>1, <2>2 DEF Some
<1> HIDE DEF t
<1>10. FreshInv(s, tc, td2, qs2)
  BY <1>3, <1>4, <1>6, <1>7 DEF LineOK, FreshInv, Sent
<1>11. KnownInv(n, s, tc, td2, e2) /\ GoneInv(n, s, tc, td2, e2)
  BY <1>5, <1>6 DEF LineOK, KnownInv, GoneInv, SameEntry
<1>12. OnceInv(td2)
  BY MovedOnce DEF LineOK
<1>13. QueuedInv(n, td2, qs2, e2)
  BY <1>5, <1>6, <1>7, <1>8, <1>9 DEF QueuedInv, SameEntry
<1>14. SentInv(n, td2, e2)
  BY <1>2, KindsApart DEF SentInv
<1>15. AskInv(n, s, tc, e2)
  BY DEF LineOK, AskInv, SameEntry
<1> QED
  BY <1>10, <1>11, <1>12, <1>13, <1>14, <1>15 DEF LineOK

\* The directory learns that the copy is gone.
LEMMA GoneReceived ==
    ASSUME NEW n, NEW s, NEW tc, NEW td, NEW td2, NEW qs, NEW e, NEW e2,
           LineOK(n, s, tc, td, qs, e), td[1] \in Gone, Moved(td, td2),
           e2.owner # n, n \notin e2.sharers
    PROVE  LineOK(n, s, tc, td2, qs, e2)
<1>1. /\ \A i \in Pos : i + 1 \in Pos /\ i + 1 # 1 /\ td2[i] = td[i + 1]
      /\ 1 \in Pos
  BY DEF Moved, Pos
<1>2. Some(td, Gone)
  BY <1>1 DEF Some
<1>3. s = "I" /\ ~Some(tc, Answer)
  BY <1>2 DEF LineOK, GoneInv
<1>4. ~Some(tc, Grant) /\ ~Some(tc, {"SH_REP"})
  BY <1>3, KindsApart DEF Some
<1>5. \A i \in Pos : td2[i] \notin Gone
  BY <1>1 DEF LineOK, OnceInv
<1>6. \A i \in Pos : td2[i] \notin Wb
  <2> SUFFICES ASSUME NEW i \in Pos, td2[i] \in Wb PROVE FALSE
    OBVIOUS
  <2>1. i + 1 < 1
    BY <1>1 DEF LineOK, OnceInv
  <2> QED
    BY <2>1 DEF Pos
<1>7. ~Known(n, e2)
  BY DEF Known
<1>8. ~Some(td2, Gone) /\ ~Some(td2, Wb)
  BY <1>5, <1>6 DEF Some
<1>9. FreshInv(s, tc, td2, qs)
  BY <1>3, MovedKinds DEF LineOK, FreshInv
<1>10. KnownInv(n, s, tc, td2, e2) /\ GoneInv(n, s, tc, td2, e2) /\ QueuedInv(n, td2, qs, e2)
  BY <1>3, <1>4, <1>7, <1>8 DEF KnownInv, GoneInv, QueuedInv
<1>11. OnceInv(td2)
  BY MovedOnce DEF LineOK
<1>12. SentInv(n, td2, e2)
  BY <1>5, <1>6, <1>7, <1>8 DEF SentInv
<1>13. AskInv(n, s, tc, e2)
  BY <1>3 DEF AskInv, Some
<1> QED
  BY <1>9, <1>10, <1>11, <1>12, <1>13 DEF LineOK

\* The directory learns that the owner's copy is SHARED.
LEMMA WbReceived ==
    ASSUME NEW n, NEW s, NEW tc, NEW td, NEW td2, NEW qs, NEW e, NEW e2,
           LineOK(n, s, tc, td, qs, e), td[1] \in Wb, Moved(td, td2),
           e2.owner # n, n \in e2.sharers
    PROVE  LineOK(n, s, tc, td2, qs, e2)
<1>1. /\ \A i \in Pos : i + 1 \in Pos /\ i + 1 # 1 /\ td2[i] = td[i + 1]
      /\ 1 \in Pos /\ \A j \in Pos : j # 1 => j - 1 \in Pos /\ td2[j - 1] = td[j]
  BY DEF Moved, Pos
<1>2. Some(td, Wb)
  BY <1>1 DEF Some
<1>3. e.owner = n /\ s \notin {"E", "M"} /\ ~Some(tc, Answer) /\ ~Some(tc, Ask)
  BY <1>2 DEF LineOK, GoneInv
<1>4. ~Some(tc, Grant) /\ ~Some(tc, {"SH_REP"})
  BY <1>3, KindsApart DEF Some
<1>5. \A i \in Pos : td2[i] \notin Wb
  BY <1>1 DEF LineOK, OnceInv
<1>6. ~Some(td2, Wb) /\ (Some(td2, Gone) <=> Some(td, Gone))
  BY <1>5, MovedKinds, KindsApart DEF Some
<1>7. Known(n, e2) /\ Known(n, e)
  BY <1>3 DEF Known
<1>8. ~Some(qs, Fetch) /\ ~Some(qs, Raise)
  BY <1>3, <1>7 DEF LineOK, QueuedInv
<1>9. FreshInv(s, tc, td2, qs)
  BY MovedKinds, KindsApart DEF LineOK, FreshInv
<1>10. KnownInv(n, s, tc, td2, e2) /\ GoneInv(n, s, tc, td2, e2)
  BY <1>3, <1>4, <1>6, <1>7 DEF LineOK, KnownInv, GoneInv
<1>11. OnceInv(td2)
  BY MovedOnce DEF LineOK
<1>12. SentInv(n, td2, e2)
  <2>1. ASSUME NEW i \in Pos, td2[i] \in Fetch
        PROVE  /\ \A j \in Pos : td2[j] \in Gone \cup Wb => j < i
               /\ Known(n, e2) => \E j \in Pos : td2[j] \in Gone /\ j < i
    <3>1. i + 1 \in Pos /\ td[i + 1] \in Fetch
      BY <1>1, <2>1
    <3>2. /\ \A j \in Pos : td[j] \in Gone \cup Wb => j < i + 1
          /\ \E j \in Pos : td[j] \in Gone /\ j < i + 1
      BY <1>7, <3>1 DEF LineOK, SentInv
    <3>3. PICK j \in Pos : td[j] \in Gone /\ j < i + 1
      BY <3>2
    <3>4. j - 1 \in Pos /\ td2[j - 1] \in Gone /\ j - 1 < i
      BY <1>1, <3>3, KindsApart DEF Pos
    <3>5. \A h \in Pos : td2[h] \in Gone \cup Wb => h + 1 < i + 1
      BY <1>1, <3>2
    <3>6. \A h \in Pos : td2[h] \in Gone \cup Wb => h < i
      BY <3>5 DEF Pos
    <3> QED
      BY <3>4, <3>6
  <2>2. ASSUME NEW i \in Pos, td2[i] \in Raise
        PROVE  ~Some(td2, Gone)
    <3>1. i + 1 \in Pos /\ td[i + 1] \in Raise
      BY <1>1, <2>2
    <3>2. Some(td, Gone) => ~Some(td, Wb)
      BY <3>1 DEF LineOK, SentInv
    <3> QED
      BY <1>2, <1>6, <3>2
  <2> QED
    BY <1>5, <2>1, <2>2 DEF SentInv
<1>13. QueuedInv(n, td2, qs, e2)
  BY <1>8 DEF QueuedInv
<1>14. AskInv(n, s, tc, e2)
  BY <1>3 DEF AskInv, Some
<1> QED
  BY <1>9, <1>10, <1>11, <1>12, <1>13, <1>14 DEF LineOK

\* The directory asks for the copy.
LEMMA CopyAsked ==
    ASSUME NEW n, NEW s, NEW tc, NEW tc2, NEW td, NEW qs, NEW e, NEW e2, NEW t \in Ask,
           LineOK(n, s, tc, td, qs, e), Ends(tc, tc2, t), n \notin e.asked,
           e2.owner = e.owner, e2.sharers = e.sharers, n \in e2.asked,
           t = "INV_REQ" => n \in e.sharers, t \in {"FLUSH_REQ", "WB_REQ"} => e.owner = n
    PROVE  LineOK(n, s, tc2, td, qs, e2)
<1>1. ~Some(td, Wb)
  BY DEF LineOK, GoneInv
<1>2. Known(n, e2) <=> Known(n, e)
  BY DEF Known
<1>3. t \notin Answer /\ t # "SH_REP" /\ t \notin Grant
  BY KindsApart
<1>4. /\ Some(tc2, Answer) <=> Some(tc, Answer)
      /\ Some(tc2, Grant) <=> Some(tc, Grant)
      /\ Some(tc2, {"SH_REP"}) <=> Some(tc, {"SH_REP"})
      /\ Some(tc2, {"UPGRADE_REP"}) <=> Some(tc, {"UPGRADE_REP"})
      /\ Some(tc2, {"SH_REP", "EX_REP", "UPGRADE_DATA"}) <=> Some(tc, {"SH_REP", "EX_REP", "UPGRADE_DATA"})
  BY <1>3, EndsKinds, KindsApart DEF Answer
<1>5. FreshInv(s, tc2, td, qs) /\ KnownInv(n, s, tc2, td, e2) /\ GoneInv(n, s, tc2, td, e2)
  BY <1>1, <1>2, <1>4 DEF LineOK, FreshInv, KnownInv, GoneInv
<1>6. OnceInv(td) /\ QueuedInv(n, td, qs, e2) /\ SentInv(n, td, e2)
  BY <1>1, <1>2 DEF LineOK, QueuedInv, SentInv
<1>7. PICK z \in Pos : /\ \A i \in Pos : i >= z => tc[i] = "none"
                       /\ \A i \in Pos : tc2[i] = IF i = z THEN t ELSE tc[i]
  BY DEF Ends
<1>8. AskInv(n, s, tc2, e2)
  <2> SUFFICES ASSUME NEW i \in Pos, tc2[i] \in Ask,
                      s # "I" \/ \E j \in Pos : tc2[j] \in Answer /\ j < i
               PROVE  /\ \A j \in Pos : tc2[j] \in Answer \cup Ask => j <= i
                      /\ tc2[i] = "INV_REQ" => n \in e.sharers
                      /\ tc2[i] \in {"FLUSH_REQ", "WB_REQ"} => e.owner = n
    BY DEF AskInv
  <2>1. CASE i = z
    <3>1. \A j \in Pos : tc2[j] \in Answer \cup Ask => j <= z
      BY <1>7, KindSets DEF Pos
    <3> QED
      BY <1>7, <2>1, <3>1
  <2>2. CASE i # z
    <3>1. tc[i] \in Ask /\ ~(i >= z)
      BY <1>7, <2>2, KindSets
    <3>2. s # "I" \/ \E j \in Pos : tc[j] \in Answer /\ j < i
      <4>1. ASSUME NEW j \in Pos, tc2[j] \in Answer, j < i
            PROVE  tc[j] \in Answer
        BY <1>3, <1>7, <4>1
      <4> QED
        BY <4>1
    <3>3. n \in e.asked
      BY <3>1, <3>2 DEF LineOK, AskInv
    <3> QED
      BY <3>3
  <2> QED
    BY <2>1, <2>2
<1> QED
  BY <1>5, <1>6, <1>8 DEF LineOK

\* The only transaction is the first of the directory's queue.
First(tc, td, qs) ==
    /\ ~Some(td, Fetch) /\ ~Some(td, Raise) /\ ~Some(tc, Answer)
    /\ qs[1] \in Requests /\ \A i \in Pos : qs[i] \in Requests => i = 1

LEMMA FirstLeaves ==
    ASSUME NEW tc, NEW td, NEW qs, NEW qs2, First(tc, td, qs), Moved(qs, qs2)
    PROVE  ~Some(qs2, Fetch) /\ ~Some(qs2, Raise)
<1>1. \A i \in Pos : i + 1 \in Pos /\ i + 1 # 1 /\ qs2[i] = qs[i + 1]
  BY DEF Moved, Pos
<1>2. \A i \in Pos : qs2[i] \notin Requests
  BY <1>1 DEF First
<1> QED
  BY <1>2, KindsApart DEF Some

\* The line that was absent is granted.
LEMMA FetchAnswered ==
    ASSUME NEW n, NEW s, NEW tc, NEW tc2, NEW td, NEW qs, NEW qs2, NEW e, NEW e2, NEW t,
           LineOK(n, s, tc, td, qs, e), First(tc, td, qs), Moved(qs, qs2), Ends(tc, tc2, t),
           qs[1] \in Fetch,
           \/ t = "SH_REP" /\ n \in e2.sharers /\ e2.owner # n
           \/ t = "EX_REP" /\ e2.owner = n
    PROVE  LineOK(n, s, tc2, td, qs2, e2)
<1>1. Some(qs, Fetch)
  BY DEF Some, Pos
<1>2. s = "I" /\ ~Known(n, e) /\ ~Some(td, Gone) /\ ~Some(td, Wb)
  BY <1>1 DEF LineOK, FreshInv, QueuedInv
<1>3. t \notin Ask /\ t \in Answer /\ t # "UPGRADE_REP" /\ (t \in Grant <=> t = "EX_REP")
  BY DEF Ask, Answer, Grant
<1>4. ~Some(tc, Grant) /\ ~Some(tc, {"SH_REP"}) /\ ~Some(tc, {"UPGRADE_REP"})
  BY KindsApart DEF First, Some
<1>5. /\ Some(tc2, Answer) /\ (Some(tc2, Grant) <=> t = "EX_REP")
      /\ Some(tc2, {"SH_REP"}) <=> t = "SH_REP"
      /\ ~Some(tc2, {"UPGRADE_REP"})
  BY <1>3, <1>4, EndsKinds
<1>6. ~Some(qs2, Fetch) /\ ~Some(qs2, Raise)
  BY FirstLeaves
<1>7. FreshInv(s, tc2, td, qs2)
  BY <1>2, <1>5, <1>6 DEF FreshInv, First
<1>8. KnownInv(n, s, tc2, td, e2) /\ GoneInv(n, s, tc2, td, e2) /\ QueuedInv(n, td, qs2, e2)
  BY <1>2, <1>5, <1>6 DEF KnownInv, GoneInv, QueuedInv, Known
<1>9. OnceInv(td) /\ SentInv(n, td, e2)
  BY DEF LineOK, SentInv, First, Some
<1>10. AskInv(n, s, tc2, e2)
  <2>1. PICK z \in Pos : /\ \A i \in Pos : i >= z => tc[i] = "none"
                         /\ \A i \in Pos : tc2[i] = IF i = z THEN t ELSE tc[i]
    BY DEF Ends
  <2>2. \A i \in Pos : tc2[i] \in Ask => i < z
    BY <1>3, <2>1, KindSets DEF Pos
  <2>3. \A j \in Pos : tc2[j] \in Answer => j = z
    BY <2>1 DEF First, Some
  <2>4. \A i, j \in Pos : ~(tc2[i] \in Ask /\ tc2[j] \in Answer /\ j < i)
    BY <2>2, <2>3 DEF Pos
  <2> QED
    BY <1>2, <2>4 DEF AskInv
<1> QED
  BY <1>7, <1>8, <1>9, <1>10 DEF LineOK

\* The upgrade is granted, with the data if the line was lost meanwhile.
LEMMA RaiseAnswered ==
    ASSUME NEW n, NEW s, NEW tc, NEW tc2, NEW td, NEW qs, NEW qs2, NEW e, NEW e2, NEW t,
           LineOK(n, s, tc, td, qs, e), First(tc, td, qs), Moved(qs, qs2), Ends(tc, tc2, t),
           qs[1] \in Raise, n \notin e.asked, e2.owner = n,
           t = IF n \in e.sharers THEN "UPGRADE_REP" ELSE "UPGRADE_DATA"
    PROVE  LineOK(n, s, tc2, td, qs2, e2)
<1>1. Some(qs, Raise)
  BY DEF Some, Pos
<1>2. s \in {"u", "I"} /\ e.owner # n /\ ~Some(td, Gone) /\ ~Some(td, Wb)
  BY <1>1 DEF LineOK, FreshInv, QueuedInv, GoneInv
<1>3. t \notin Ask /\ t \in Answer /\ t # "SH_REP" /\ t \in Grant
  BY DEF Ask, Answer, Grant
<1>4. ~Some(tc, Grant) /\ ~Some(tc, {"SH_REP"}) /\ ~Some(tc, {"UPGRADE_REP"})
      /\ ~Some(tc, {"SH_REP", "EX_REP", "UPGRADE_DATA"})
  BY KindsApart DEF First, Some
<1>5. s = IF n \in e.sharers THEN "u" ELSE "I"
  BY <1>2 DEF LineOK, KnownInv, Known, First
<1>6. /\ Some(tc2, Answer) /\ Some(tc2, Grant)
      /\ ~Some(tc2, {"SH_REP"})
      /\ Some(tc2, {"UPGRADE_REP"}) <=> n \in e.sharers
      /\ Some(tc2, {"SH_REP", "EX_REP", "UPGRADE_DATA"}) <=> n \notin e.sharers
  BY <1>3, <1>4, EndsKinds
<1>7. ~Some(qs2, Fetch) /\ ~Some(qs2, Raise)
  BY FirstLeaves
<1>8. FreshInv(s, tc2, td, qs2)
  BY <1>5, <1>6, <1>7 DEF FreshInv, First
<1>9. KnownInv(n, s, tc2, td, e2) /\ GoneInv(n, s, tc2, td, e2) /\ QueuedInv(n, td, qs2, e2)
  BY <1>2, <1>6, <1>7 DEF KnownInv, GoneInv, QueuedInv, Known
<1>10. OnceInv(td) /\ SentInv(n, td, e2)
  BY DEF LineOK, SentInv, First, Some
<1>11. AskInv(n, s, tc2, e2)
  <2>1. PICK z \in Pos : /\ \A i \in Pos : i >= z => tc[i] = "none"
                         /\ \A i \in Pos : tc2[i] = IF i = z THEN t ELSE tc[i]
    BY DEF Ends
  <2>2. \A i \in Pos : tc2[i] \in Ask => i < z /\ tc[i] \in Ask
    BY <1>3, <2>1, KindSets DEF Pos
  <2>3. \A j \in Pos : tc2[j] \in Answer => j = z
    BY <2>1 DEF First, Some
  <2>4. \A i, j \in Pos : ~(tc2[i] \in Ask /\ tc2[j] \in Answer /\ j < i)
    BY <2>2, <2>3 DEF Pos
  <2>5. \A i \in Pos : s # "I" => tc[i] \notin Ask
    BY DEF LineOK, AskInv
  <2> QED
    BY <2>2, <2>4, <2>5 DEF AskInv
<1> QED
  BY <1>8, <1>9, <1>10, <1>11 DEF LineOK

\* The only transaction is the reply that comes next.
Answering(tc, td, qs) ==
    /\ ~Some(td, Fetch) /\ ~Some(td, Raise) /\ ~Some(qs, Fetch) /\ ~Some(qs, Raise)
    /\ tc[1] \in Answer /\ \A i \in Pos : tc[i] \in Answer => i = 1

\* The LLC takes what it was granted.
LEMMA AnswerTaken ==
    ASSUME NEW n, NEW s, NEW s2, NEW tc, NEW tc2, NEW td, NEW qs, NEW e,
           LineOK(n, s, tc, td, qs, e), Answering(tc, td, qs), Moved(tc, tc2),
           s2 = IF tc[1] = "SH_REP" THEN "S" ELSE IF tc[1] = "EX_REP" THEN "E" ELSE "M"
    PROVE  LineOK(n, s2, tc2, td, qs, e)
<1>1. /\ \A i \in Pos : i + 1 \in Pos /\ 1 < i + 1 /\ tc2[i] = tc[i + 1]
      /\ 1 \in Pos
  BY DEF Moved, Pos
<1>2. Some(tc, Answer)
  BY <1>1 DEF Some, Answering
<1>3. ~Some(td, Gone) /\ ~Some(td, Wb)
  BY <1>2 DEF LineOK, GoneInv
<1>4. \A i \in Pos : tc2[i] \notin Answer
  BY <1>1 DEF Answering
<1>5. ~Some(tc2, Answer) /\ ~Some(tc2, Grant) /\ ~Some(tc2, {"SH_REP"}) /\ ~Some(tc2, {"UPGRADE_REP"})
      /\ ~Some(tc2, {"SH_REP", "EX_REP", "UPGRADE_DATA"})
  BY <1>4, KindsApart DEF Some
<1>6. /\ tc[1] \in Grant => e.owner = n
      /\ tc[1] = "SH_REP" => s = "I" /\ Known(n, e) /\ ~Some(tc, Grant)
  <2>1. tc[1] \in Grant => Some(tc, Grant)
    BY <1>1 DEF Some
  <2>2. tc[1] = "SH_REP" => /\ Some(tc, {"SH_REP"}) /\ Some(tc, {"SH_REP", "EX_REP", "UPGRADE_DATA"})
                            /\ \A i \in Pos : tc[i] \notin Grant
    BY <1>1, KindsApart DEF Some, Answering, Grant
  <2> QED
    BY <2>1, <2>2 DEF LineOK, KnownInv, FreshInv, Some
<1>7. tc[1] = "SH_REP" => e.owner # n
  BY <1>3, <1>6 DEF LineOK, KnownInv
<1>8. tc[1] = "SH_REP" \/ tc[1] \in Grant
  BY KindsApart DEF Answering
<1>9. s2 # "I" /\ s2 # "u" /\ (s2 \in {"E", "M"} <=> tc[1] # "SH_REP")
  OBVIOUS
<1>10. FreshInv(s2, tc2, td, qs)
  BY <1>5, <1>9 DEF FreshInv, Answering
<1>11. KnownInv(n, s2, tc2, td, e) /\ GoneInv(n, s2, tc2, td, e)
  BY <1>3, <1>5, <1>6, <1>7, <1>8, <1>9 DEF KnownInv, GoneInv, Known
<1>12. OnceInv(td) /\ QueuedInv(n, td, qs, e) /\ SentInv(n, td, e)
  BY DEF LineOK
<1>13. AskInv(n, s2, tc2, e)
  <2> SUFFICES ASSUME NEW i \in Pos, tc2[i] \in Ask
               PROVE  /\ n \in e.asked
                      /\ \A j \in Pos : tc2[j] \in Answer \cup Ask => j <= i
                      /\ tc2[i] = "INV_REQ" => n \in e.sharers
                      /\ tc2[i] \in {"FLUSH_REQ", "WB_REQ"} => e.owner = n
    BY DEF AskInv
  <2>1. i + 1 \in Pos /\ tc[i + 1] = tc2[i] /\ 1 < i + 1 /\ tc[1] \in Answer
    BY <1>1 DEF Answering
  <2>2. /\ n \in e.asked
        /\ \A j \in Pos : tc[j] \in Answer \cup Ask => j <= i + 1
        /\ tc2[i] = "INV_REQ" => n \in e.sharers
        /\ tc2[i] \in {"FLUSH_REQ", "WB_REQ"} => e.owner = n
    BY <1>1, <2>1 DEF LineOK, AskInv
  <2>3. \A j \in Pos : tc2[j] \in Answer \cup Ask => j + 1 <= i + 1
    BY <1>1, <2>2
  <2>4. \A j \in Pos : tc2[j] \in Answer \cup Ask => j <= i
    BY <2>3 DEF Pos
  <2> QED
    BY <2>2, <2>4
<1> QED
  BY <1>10, <1>11, <1>12, <1>13 DEF LineOK

LEMMA GoneOnce ==
    ASSUME NEW td, NEW td2, NEW t, Ends(td, td2, t), t \in Gone, OnceInv(td), ~Some(td, Gone)
    PROVE  OnceInv(td2)
<1>1. PICK z \in Pos : /\ \A i \in Pos : i >= z => td[i] = "none"
                       /\ \A i \in Pos : td2[i] = IF i = z THEN t ELSE td[i]
  BY DEF Ends
<1>2. \A i \in Pos : td2[i] \in Gone => i = z
  BY <1>1 DEF Some
<1>3. \A j \in Pos : td2[j] \in Wb => td[j] \in Wb /\ j < z
  BY <1>1, KindsApart, KindSets DEF Pos
<1> QED
  BY <1>2, <1>3 DEF OnceInv

\* A victim is reported gone.
LEMMA LineEvicted ==
    ASSUME NEW n, NEW s \in {"S", "E", "M"}, NEW tc, NEW td, NEW td2, NEW qs, NEW e, NEW t \in Gone,
           LineOK(n, s, tc, td, qs, e), Ends(td, td2, t)
    PROVE  LineOK(n, "I", tc, td2, qs, e)
<1>1. ~Some(td, Fetch) /\ ~Some(td, Raise) /\ ~Some(qs, Fetch) /\ ~Some(qs, Raise)
  BY DEF LineOK, FreshInv
<1>2. ~Some(tc, {"SH_REP", "EX_REP", "UPGRADE_DATA"}) /\ ~Some(tc, {"UPGRADE_REP"}) /\ ~Some(td, Gone)
  BY DEF LineOK, FreshInv, GoneInv
<1>3. ~Some(tc, Answer)
  BY <1>2, KindsApart DEF Some
<1>4. ~Some(tc, Grant) /\ ~Some(tc, {"SH_REP"})
  BY <1>3, KindsApart DEF Some
<1>5. t \notin Fetch \cup Raise \cup Wb
  BY KindsApart
<1>6. /\ ~Some(td2, Fetch) /\ ~Some(td2, Raise) /\ Some(td2, Gone)
      /\ Some(td2, Wb) <=> Some(td, Wb)
  BY <1>1, <1>5, EndsKinds
<1>7. FreshInv("I", tc, td2, qs)
  BY <1>1, <1>2, <1>6 DEF FreshInv
<1>8. KnownInv(n, "I", tc, td2, e) /\ GoneInv(n, "I", tc, td2, e) /\ QueuedInv(n, td2, qs, e)
  BY <1>1, <1>3, <1>4, <1>6 DEF LineOK, KnownInv, GoneInv, QueuedInv
<1>9. OnceInv(td2)
  BY <1>2, GoneOnce DEF LineOK
<1>10. SentInv(n, td2, e)
  BY <1>6 DEF SentInv, Some
<1>11. AskInv(n, "I", tc, e)
  BY <1>3 DEF AskInv, Some
<1> QED
  BY <1>7, <1>8, <1>9, <1>10, <1>11 DEF LineOK

\* The directory asks for a copy that is gone: the LLC does not answer.
LEMMA AskMissed ==
    ASSUME NEW n, NEW tc, NEW tc2, NEW td, NEW qs, NEW e,
           LineOK(n, "I", tc, td, qs, e), tc[1] \in Ask, Moved(tc, tc2)
    PROVE  LineOK(n, "I", tc2, td, qs, e)
<1>1. \A i \in Pos : i + 1 \in Pos /\ tc2[i] = tc[i + 1]
  BY DEF Moved, Pos
<1>2. tc[1] \notin Answer /\ tc[1] \notin Grant /\ tc[1] # "SH_REP" /\ tc[1] # "UPGRADE_REP"
      /\ tc[1] \notin {"SH_REP", "EX_REP", "UPGRADE_DATA"}
  BY KindsApart
<1>3. /\ Some(tc2, Answer) <=> Some(tc, Answer)
      /\ Some(tc2, Grant) <=> Some(tc, Grant)
      /\ Some(tc2, {"SH_REP"}) <=> Some(tc, {"SH_REP"})
      /\ Some(tc2, {"UPGRADE_REP"}) <=> Some(tc, {"UPGRADE_REP"})
      /\ Some(tc2, {"SH_REP", "EX_REP", "UPGRADE_DATA"}) <=> Some(tc, {"SH_REP", "EX_REP", "UPGRADE_DATA"})
      /\ Some(tc2, Ask) => Some(tc, Ask)
  BY <1>2, MovedKinds
<1>4. FreshInv("I", tc2, td, qs) /\ KnownInv(n, "I", tc2, td, e) /\ GoneInv(n, "I", tc2, td, e)
  BY <1>3 DEF LineOK, FreshInv, KnownInv, GoneInv
<1>5. OnceInv(td) /\ QueuedInv(n, td, qs, e) /\ SentInv(n, td, e)
  BY DEF LineOK
<1>6. AskInv(n, "I", tc2, e)
  <2> SUFFICES ASSUME NEW i \in Pos, tc2[i] \in Ask, NEW h \in Pos, tc2[h] \in Answer, h < i
               PROVE  /\ n \in e.asked
                      /\ \A j \in Pos : tc2[j] \in Answer \cup Ask => j <= i
                      /\ tc2[i] = "INV_REQ" => n \in e.sharers
                      /\ tc2[i] \in {"FLUSH_REQ", "WB_REQ"} => e.owner = n
    BY DEF AskInv
  <2>1. /\ i + 1 \in Pos /\ tc[i + 1] = tc2[i] /\ h + 1 \in Pos /\ tc[h + 1] = tc2[h]
        /\ h + 1 < i + 1
    BY <1>1 DEF Pos
  <2>2. /\ n \in e.asked
        /\ \A j \in Pos : tc[j] \in Answer \cup Ask => j <= i + 1
        /\ tc2[i] = "INV_REQ" => n \in e.sharers
        /\ tc2[i] \in {"FLUSH_REQ", "WB_REQ"} => e.owner = n
    BY <2>1 DEF LineOK, AskInv
  <2>3. \A j \in Pos : tc2[j] \in Answer \cup Ask => j + 1 <= i + 1
    BY <1>1, <2>2
  <2>4. \A j \in Pos : tc2[j] \in Answer \cup Ask => j <= i
    BY <2>3 DEF Pos
  <2> QED
    BY <2>2, <2>4
<1> QED
  BY <1>4, <1>5, <1>6 DEF LineOK

\* What the directory asks of a copy the LLC has.
LEMMA AskFound ==
    ASSUME NEW n, NEW s, NEW tc, NEW tc2, NEW td, NEW qs, NEW e,
           LineOK(n, s, tc, td, qs, e), s # "I", tc[1] \in Ask, Moved(tc, tc2)
    PROVE  /\ n \in e.asked /\ ~Some(tc2, Answer) /\ ~Some(tc2, Ask) /\ ~Some(tc2, Grant)
           /\ ~Some(tc2, {"SH_REP"}) /\ ~Some(tc2, {"UPGRADE_REP"})
           /\ ~Some(tc2, {"SH_REP", "EX_REP", "UPGRADE_DATA"})
           /\ ~Some(td, Gone) /\ ~Some(td, Wb) /\ ~Some(td, Fetch) /\ ~Some(qs, Fetch)
           /\ tc[1] \in {"FLUSH_REQ", "WB_REQ"} => e.owner = n /\ s \in {"E", "M"}
<1>1. /\ \A i \in Pos : i + 1 \in Pos /\ ~(i + 1 <= 1) /\ tc2[i] = tc[i + 1]
      /\ 1 \in Pos
  BY DEF Moved, Pos
<1>2. /\ n \in e.asked /\ \A j \in Pos : tc[j] \in Answer \cup Ask => j <= 1
      /\ tc[1] \in {"FLUSH_REQ", "WB_REQ"} => e.owner = n
  BY <1>1 DEF LineOK, AskInv
<1>3. \A i \in Pos : tc2[i] \notin Answer \cup Ask
  BY <1>1, <1>2
<1>4. /\ ~Some(tc2, Answer) /\ ~Some(tc2, Ask) /\ ~Some(tc2, Grant)
      /\ ~Some(tc2, {"SH_REP"}) /\ ~Some(tc2, {"UPGRADE_REP"})
      /\ ~Some(tc2, {"SH_REP", "EX_REP", "UPGRADE_DATA"})
  BY <1>3, KindsApart DEF Some
<1>5. Some(tc, Ask)
  BY <1>1 DEF Some
<1>6. ~Some(td, Gone) /\ ~Some(td, Wb) /\ ~Some(td, Fetch) /\ ~Some(qs, Fetch)
  BY <1>5 DEF LineOK, GoneInv, FreshInv
<1>7. ~Some(tc, Grant)
  BY <1>4, MovedKinds, KindsApart
<1>8. e.owner = n => s \in {"E", "M"}
  BY <1>6, <1>7 DEF LineOK, KnownInv
<1> QED
  BY <1>2, <1>4, <1>6, <1>8

\* The LLC gives the copy up and answers.
LEMMA CopyLost ==
    ASSUME NEW n, NEW s, NEW tc, NEW tc2, NEW td, NEW td2, NEW qs, NEW e, NEW t \in Gone,
           LineOK(n, s, tc, td, qs, e), s # "I", tc[1] \in Ask, Moved(tc, tc2), Ends(td, td2, t)
    PROVE  LineOK(n, "I", tc2, td2, qs, e)
<1>1. t \notin Fetch \cup Raise \cup Wb
  BY KindsApart
<1>2. /\ ~Some(td2, Fetch) /\ ~Some(td2, Wb) /\ Some(td2, Gone)
      /\ Some(td2, Raise) <=> Some(td, Raise)
  BY <1>1, AskFound, EndsKinds
<1>3. FreshInv("I", tc2, td2, qs)
  BY AskFound DEF FreshInv
<1>4. KnownInv(n, "I", tc2, td2, e) /\ GoneInv(n, "I", tc2, td2, e)
  BY <1>2, AskFound DEF KnownInv, GoneInv
<1>5. QueuedInv(n, td2, qs, e)
  BY <1>2, AskFound DEF LineOK, QueuedInv
<1>6. OnceInv(td2)
  BY AskFound, GoneOnce DEF LineOK
<1>7. SentInv(n, td2, e)
  <2>1. \A i \in Pos : td2[i] \notin Fetch \cup Wb
    BY <1>2 DEF Some
  <2>2. Some(td, Raise) => e.owner # n
    <3>1. \A i \in Pos : td[i] \in Raise => (e.owner = n => Some(td, Wb))
      BY DEF LineOK, SentInv
    <3> QED
      BY <3>1, AskFound DEF Some
  <2>3. n \in e.asked
    BY AskFound
  <2>4. \A i \in Pos : td2[i] \in Raise => Some(td2, Raise)
    BY DEF Some
  <2> QED
    BY <1>2, <2>1, <2>2, <2>3, <2>4 DEF SentInv
<1>8. AskInv(n, "I", tc2, e)
  BY AskFound DEF AskInv, Some
<1> QED
  BY <1>3, <1>4, <1>5, <1>6, <1>7, <1>8 DEF LineOK

\* The owner keeps a SHARED copy and writes the data back.
LEMMA CopyShared ==
    ASSUME NEW n, NEW s, NEW tc, NEW tc2, NEW td, NEW td2, NEW qs, NEW e, NEW t \in Wb,
           LineOK(n, s, tc, td, qs, e), s # "I", tc[1] = "WB_REQ", Moved(tc, tc2), Ends(td, td2, t)
    PROVE  LineOK(n, "S", tc2, td2, qs, e)
<1>0. tc[1] \in Ask
  BY DEF Ask
<1>1. t \notin Fetch \cup Raise \cup Gone
  BY KindsApart
<1>2. s \in {"E", "M"} /\ e.owner = n /\ n \in e.asked
  BY <1>0, AskFound
<1>3. ~Some(td, Raise) /\ ~Some(qs, Raise)
  BY <1>2 DEF LineOK, FreshInv
<1>4. ~Some(td2, Fetch) /\ ~Some(td2, Raise) /\ ~Some(td2, Gone) /\ Some(td2, Wb)
  BY <1>0, <1>1, <1>3, AskFound, EndsKinds
<1>5. FreshInv("S", tc2, td2, qs)
  BY <1>0, <1>3, <1>4, AskFound DEF FreshInv
<1>6. KnownInv(n, "S", tc2, td2, e) /\ GoneInv(n, "S", tc2, td2, e)
  BY <1>0, <1>2, <1>4, AskFound DEF KnownInv, GoneInv, Known
<1>7. QueuedInv(n, td2, qs, e)
  BY <1>0, <1>3, AskFound DEF QueuedInv
<1>8. OnceInv(td2)
  <2>1. PICK z \in Pos : /\ \A i \in Pos : i >= z => td[i] = "none"
                         /\ \A i \in Pos : td2[i] = IF i = z THEN t ELSE td[i]
    BY DEF Ends
  <2>2. \A i \in Pos : td2[i] \notin Gone /\ (td2[i] \in Wb => i = z)
    BY <1>0, <1>4, <2>1, AskFound DEF Some
  <2> QED
    BY <2>2 DEF OnceInv
<1>9. SentInv(n, td2, e)
  BY <1>4 DEF SentInv, Some
<1>10. AskInv(n, "S", tc2, e)
  BY <1>0, AskFound DEF AskInv, Some
<1> QED
  BY <1>5, <1>6, <1>7, <1>8, <1>9, <1>10 DEF LineOK

-----------------------------------------------------------------------------
(* The channels and the queue as views *)

LEMMA KindFacts ==
    ASSUME NEW m \in Message
    PROVE  /\ KindOf(m) \in Answer <=> m.t \in Rep
           /\ KindOf(m) \in Ask <=> m.t \in Ask
           /\ m.t # "UPGRADE_REP" => KindOf(m) = m.t
           /\ m.t = "UPGRADE_REP" => KindOf(m) = IF m.d THEN "UPGRADE_DATA" ELSE "UPGRADE_REP"
<1> DEFINE t == m.t
<1>0. t # "UPGRADE_DATA"
  BY DEF Message, MsgTypes, Requests
<1>1. CASE t = "UPGRADE_REP"
  <2>1. KindOf(m) = IF m.d THEN "UPGRADE_DATA" ELSE "UPGRADE_REP"
    BY <1>1 DEF KindOf
  <2>2. KindOf(m) \in {"UPGRADE_DATA", "UPGRADE_REP"}
    BY <2>1
  <2> QED
    BY <1>1, <2>1, <2>2 DEF Answer, Rep, Ask
<1>2. CASE t # "UPGRADE_REP"
  <2>1. KindOf(m) = t
    BY <1>2 DEF KindOf
  <2> QED
    BY <1>0, <1>2, <2>1 DEF Answer, Rep, Ask
<1> QED
  BY <1>1, <1>2

LEMMA PlacesOfAppend ==
    ASSUME NEW T, NEW q \in Seq(T), NEW m \in T, NEW i \in Pos
    PROVE  /\ i \in DOMAIN q <=> i <= Len(q)
           /\ i \in DOMAIN Append(q, m) <=> i <= Len(q) + 1
           /\ i <= Len(q) => Append(q, m)[i] = q[i]
           /\ i = Len(q) + 1 => Append(q, m)[i] = m
           /\ Len(q) + 1 \in Pos /\ Len(q) \in Nat
BY DEF Pos

LEMMA PlacesOfTail ==
    ASSUME NEW T, NEW q \in Seq(T), q # <<>>, NEW i \in Pos
    PROVE  /\ i + 1 \in Pos
           /\ i \in DOMAIN Tail(q) <=> i + 1 \in DOMAIN q
           /\ i \in DOMAIN Tail(q) => Tail(q)[i] = q[i + 1]
           /\ 1 \in DOMAIN q /\ q[1] = Head(q) /\ 1 \in Pos
<1>1. /\ DOMAIN q = 1 .. Len(q) /\ Len(q) \in Nat \ {0}
      /\ DOMAIN Tail(q) = 1 .. Len(q) - 1
      /\ \A j \in 1 .. Len(q) - 1 : Tail(q)[j] = q[j + 1]
      /\ q[1] = Head(q)
  OBVIOUS
<1>2. i + 1 \in Pos /\ 1 \in Pos /\ i \in Nat \ {0}
  BY DEF Pos
<1> HIDE DEF Pos
<1>3. i \in DOMAIN Tail(q) <=> i + 1 \in DOMAIN q
  BY <1>1, <1>2
<1>4. i \in DOMAIN Tail(q) => Tail(q)[i] = q[i + 1]
  BY <1>1, <1>2
<1> QED
  BY <1>1, <1>2, <1>3, <1>4

LEMMA ViewOfAppend ==
    ASSUME NEW T, NEW q \in Seq(T), NEW m \in T, NEW x
    PROVE  /\ m.a = x => Ends(View(q, x), View(Append(q, m), x), KindOf(m))
           /\ m.a # x => \A i \in Pos : View(Append(q, m), x)[i] = View(q, x)[i]
<1> DEFINE z == Len(q) + 1
           r == Append(q, m)
<1>1. z \in Pos /\ Len(q) \in Nat
  BY PlacesOfAppend DEF Pos
<1>2. \A i \in Pos : /\ i \in DOMAIN q <=> i < z
                     /\ i \in DOMAIN r <=> i <= z
                     /\ i < z => r[i] = q[i]
                     /\ i = z => r[i] = m
  BY <1>1, PlacesOfAppend DEF Pos
<1> HIDE DEF z, r
<1>3. \A i \in Pos : /\ i >= z => View(q, x)[i] = "none"
                     /\ i # z => View(r, x)[i] = View(q, x)[i]
  BY <1>1, <1>2 DEF View, Pos
<1>4. View(r, x)[z] = IF m.a = x THEN KindOf(m) ELSE "none"
  BY <1>1, <1>2 DEF View, Pos
<1>5. m.a = x => Ends(View(q, x), View(r, x), KindOf(m))
  BY <1>1, <1>3, <1>4 DEF Ends
<1>6. m.a # x => \A i \in Pos : View(r, x)[i] = View(q, x)[i]
  BY <1>1, <1>3, <1>4 DEF Pos
<1> QED
  BY <1>5, <1>6 DEF r

LEMMA ViewOfTail ==
    ASSUME NEW T, NEW q \in Seq(T), q # <<>>, NEW x
    PROVE  /\ Moved(View(q, x), View(Tail(q), x))
           /\ View(q, x)[1] = IF Head(q).a = x THEN KindOf(Head(q)) ELSE "none"
<1>1. ASSUME NEW i \in Pos
      PROVE  View(Tail(q), x)[i] = View(q, x)[i + 1]
  BY PlacesOfTail DEF View
<1>2. View(q, x)[1] = IF Head(q).a = x THEN KindOf(Head(q)) ELSE "none"
  <2>1. 1 \in Pos /\ 1 \in DOMAIN q /\ q[1] = Head(q)
    BY PlacesOfTail DEF Pos
  <2> QED
    BY <2>1 DEF View
<1> QED
  BY <1>1, <1>2 DEF Moved

LEMMA ViewOfKinds ==
    ASSUME NEW q, NEW r, SameKinds(q, r), NEW x, NEW i \in Pos
    PROVE  View(r, x)[i] = View(q, x)[i]
BY DEF SameKinds, View, KindOf

LEMMA QueueOfAppend ==
    ASSUME NEW T, NEW q \in Seq(T), NEW m \in T, NEW n
    PROVE  /\ m.n = n => Ends(QueueView(q, n), QueueView(Append(q, m), n), m.t)
           /\ m.n # n => \A i \in Pos : QueueView(Append(q, m), n)[i] = QueueView(q, n)[i]
<1> DEFINE z == Len(q) + 1
           r == Append(q, m)
<1>1. z \in Pos /\ Len(q) \in Nat
  BY PlacesOfAppend DEF Pos
<1>2. \A i \in Pos : /\ i \in DOMAIN q <=> i < z
                     /\ i \in DOMAIN r <=> i <= z
                     /\ i < z => r[i] = q[i]
                     /\ i = z => r[i] = m
  BY <1>1, PlacesOfAppend DEF Pos
<1> HIDE DEF z, r
<1>3. \A i \in Pos : /\ i >= z => QueueView(q, n)[i] = "none"
                     /\ i # z => QueueView(r, n)[i] = QueueView(q, n)[i]
  BY <1>1, <1>2 DEF QueueView, Pos
<1>4. QueueView(r, n)[z] = IF m.n = n THEN m.t ELSE "none"
  BY <1>1, <1>2 DEF QueueView, Pos
<1>5. m.n = n => Ends(QueueView(q, n), QueueView(r, n), m.t)
  BY <1>1, <1>3, <1>4 DEF Ends
<1>6. m.n # n => \A i \in Pos : QueueView(r, n)[i] = QueueView(q, n)[i]
  BY <1>1, <1>3, <1>4 DEF Pos
<1> QED
  BY <1>5, <1>6 DEF r

LEMMA QueueOfTail ==
    ASSUME NEW T, NEW q \in Seq(T), q # <<>>, NEW n
    PROVE  /\ Moved(QueueView(q, n), QueueView(Tail(q), n))
           /\ QueueView(q, n)[1] = IF Head(q).n = n THEN Head(q).t ELSE "none"
<1>1. ASSUME NEW i \in Pos
      PROVE  QueueView(Tail(q), n)[i] = QueueView(q, n)[i + 1]
  BY PlacesOfTail DEF QueueView
<1>2. QueueView(q, n)[1] = IF Head(q).n = n THEN Head(q).t ELSE "none"
  <2>1. 1 \in Pos /\ 1 \in DOMAIN q /\ q[1] = Head(q)
    BY PlacesOfTail DEF Pos
  <2> QED
    BY <2>1 DEF QueueView
<1> QED
  BY <1>1, <1>2 DEF Moved

-----------------------------------------------------------------------------
(* What a single transaction means for the views *)

LEMMA FewPlaces ==
    ASSUME NEW T, NEW q \in Seq(T), NEW X
    PROVE  /\ CountIn(q, X) = 0 => \A i \in DOMAIN q : q[i] \notin X
           /\ CountIn(q, X) = 1 => \A i, j \in DOMAIN q : q[i] \in X /\ q[j] \in X => i = j
<1>1. IsFiniteSet(PlacesIn(q, X))
  BY CountType
<1>2. CountIn(q, X) = 0 => PlacesIn(q, X) = {}
  BY <1>1, FS_EmptySet DEF CountIn
<1>3. CountIn(q, X) = 1 => \E x : PlacesIn(q, X) = {x}
  BY <1>1, FS_Singleton DEF CountIn
<1>4. \A i \in DOMAIN q : q[i] \in X => i \in PlacesIn(q, X)
  BY DEF PlacesIn
<1> QED
  BY <1>2, <1>3, <1>4

Tc(m, x) == View(toCache[m], x)
Td(m, x) == View(toDir[m], x)
Qs(m, x) == QueueView(dir[x].q, m)
Line(m, x) == LineOK(m, stack[m].llc[x].s, Tc(m, x), Td(m, x), Qs(m, x), dir[x])

\* A word in a view is a message in the channel.
LEMMA ViewMessages ==
    ASSUME Types, NEW m \in Nodes, NEW x \in Addrs, NEW i \in Pos
    PROVE  /\ Td(m, x)[i] \in Requests => i \in DOMAIN toDir[m] /\ toDir[m][i] \in Reqs(x)
           /\ Tc(m, x)[i] \in Answer => i \in DOMAIN toCache[m] /\ toCache[m][i] \in Reps(x)
           /\ Qs(m, x)[i] \in Requests => i \in DOMAIN dir[x].q /\ dir[x].q[i] \in FromNode(m)
<1> DEFINE qd == toDir[m]
           qc == toCache[m]
           q == dir[x].q
           R == [t : Requests, n : Nodes]
<1>1. qd \in Seq(ToDir) /\ qc \in Seq(ToCache) /\ q \in Seq(R)
  BY ChannelTypes
<1>2. "none" \notin Requests \cup Answer
  BY KindSets
<1> HIDE DEF qd, qc, q, R
<1>3. \A j \in DOMAIN qd : qd[j] \in ToDir
  BY <1>1
<1>4. \A j \in DOMAIN qc : qc[j] \in ToCache
  BY <1>1
<1>5. \A j \in DOMAIN q : q[j] \in R
  BY <1>1
<1>6. ASSUME View(qd, x)[i] \in Requests
      PROVE  i \in DOMAIN qd /\ qd[i] \in Reqs(x)
  <2>1. i \in DOMAIN qd /\ qd[i].a = x /\ KindOf(qd[i]) \in Requests
    BY <1>2, <1>6 DEF View
  <2>2. qd[i].t \in Requests
    BY <2>1 DEF KindOf, Requests
  <2> QED
    BY <1>3, <2>1, <2>2 DEF Reqs
<1>7. ASSUME View(qc, x)[i] \in Answer
      PROVE  i \in DOMAIN qc /\ qc[i] \in Reps(x)
  <2>1. i \in DOMAIN qc /\ qc[i].a = x /\ KindOf(qc[i]) \in Answer
    BY <1>2, <1>7 DEF View
  <2>2. qc[i] \in Message
    BY <1>4, <2>1 DEF ToCache
  <2>3. qc[i].t \in Rep
    BY <2>1, <2>2, KindFacts
  <2> QED
    BY <1>4, <2>1, <2>3 DEF Reps
<1>8. ASSUME QueueView(q, m)[i] \in Requests
      PROVE  i \in DOMAIN q /\ q[i] \in FromNode(m)
  <2>1. i \in DOMAIN q /\ q[i].n = m
    BY <1>2, <1>8 DEF QueueView
  <2> QED
    BY <1>5, <2>1 DEF FromNode, R
<1> QED
  BY <1>6, <1>7, <1>8 DEF Td, Tc, Qs, qd, qc, q

LEMMA OneUnderWay ==
    ASSUME Types, TransactionInv, NEW m \in Nodes, NEW x \in Addrs
    PROVE  /\ waiters[m][x] = <<>> \/ net[m].a = x => Unasked(Tc(m, x), Td(m, x), Qs(m, x))
           /\ Td(m, x)[1] \in Requests => Sent(Tc(m, x), Td(m, x), Qs(m, x))
           /\ Qs(m, x)[1] \in Requests => First(Tc(m, x), Td(m, x), Qs(m, x))
           /\ Tc(m, x)[1] \in Answer => Answering(Tc(m, x), Td(m, x), Qs(m, x))
<1> DEFINE qd == toDir[m]
           qc == toCache[m]
           q == dir[x].q
           R == [t : Requests, n : Nodes]
           A == Asking(m, x)
           Q == Queueing(m, x)
           C == Coming(m, x)
           W == Working(m, x)
           td == Td(m, x)
           tc == Tc(m, x)
           qs == Qs(m, x)
<1>1. qd \in Seq(ToDir) /\ qc \in Seq(ToCache) /\ q \in Seq(R)
  BY ChannelTypes
<1>2. /\ A \in Nat /\ Q \in Nat /\ C \in Nat /\ W \in {0, 1}
      /\ A + Q + C + W = Waited(m, x) /\ Waited(m, x) \in {0, 1}
  BY CountsType DEF TransactionInv, Single
<1>3. A = CountIn(qd, Reqs(x)) /\ C = CountIn(qc, Reps(x)) /\ Q = CountIn(q, FromNode(m))
  BY DEF Asking, Coming, Queueing
<1>4. waiters[m][x] = <<>> \/ net[m].a = x => A = 0 /\ Q = 0 /\ C = 0
  <2>1. waiters[m][x] = <<>> => Waited(m, x) = 0
    BY DEF Waited
  <2>2. net[m].a = x => W = 1
    BY DEF Working
  <2> HIDE DEF A, Q, C, W
  <2> QED
    BY <1>2, <2>1, <2>2
<1>5. \A i \in Pos : /\ td[i] \in Requests => i \in DOMAIN qd /\ qd[i] \in Reqs(x)
                     /\ tc[i] \in Answer => i \in DOMAIN qc /\ qc[i] \in Reps(x)
                     /\ qs[i] \in Requests => i \in DOMAIN q /\ q[i] \in FromNode(m)
  BY ViewMessages
<1> HIDE DEF qd, qc, q, R, A, Q, C, W, td, tc, qs
<1>6. /\ A = 0 => \A i \in Pos : td[i] \notin Requests
      /\ A = 1 => \A i, j \in Pos : td[i] \in Requests /\ td[j] \in Requests => i = j
  BY <1>1, <1>3, <1>5, FewPlaces
<1>7. /\ C = 0 => \A i \in Pos : tc[i] \notin Answer
      /\ C = 1 => \A i, j \in Pos : tc[i] \in Answer /\ tc[j] \in Answer => i = j
  BY <1>1, <1>3, <1>5, FewPlaces
<1>8. /\ Q = 0 => \A i \in Pos : qs[i] \notin Requests
      /\ Q = 1 => \A i, j \in Pos : qs[i] \in Requests /\ qs[j] \in Requests => i = j
  BY <1>1, <1>3, <1>5, FewPlaces
<1>9. /\ A = 0 => ~Some(td, Fetch) /\ ~Some(td, Raise)
      /\ Q = 0 => ~Some(qs, Fetch) /\ ~Some(qs, Raise)
      /\ C = 0 => ~Some(tc, Answer)
  BY <1>6, <1>7, <1>8, KindsApart DEF Some
<1>10. 1 \in Pos
  BY DEF Pos
<1>11. waiters[m][x] = <<>> \/ net[m].a = x => Unasked(tc, td, qs)
  BY <1>4, <1>9 DEF Unasked
<1>12. td[1] \in Requests => Sent(tc, td, qs)
  <2> SUFFICES ASSUME td[1] \in Requests PROVE Sent(tc, td, qs)
    OBVIOUS
  <2>1. A # 0
    BY <1>6, <1>10
  <2>2. A = 1 /\ Q = 0 /\ C = 0
    BY <1>2, <2>1
  <2> QED
    BY <1>6, <1>9, <2>2 DEF Sent
<1>13. qs[1] \in Requests => First(tc, td, qs)
  <2> SUFFICES ASSUME qs[1] \in Requests PROVE First(tc, td, qs)
    OBVIOUS
  <2>1. Q # 0
    BY <1>8, <1>10
  <2>2. A = 0 /\ Q = 1 /\ C = 0
    BY <1>2, <2>1
  <2> QED
    BY <1>8, <1>9, <1>10, <2>2 DEF First
<1>14. tc[1] \in Answer => Answering(tc, td, qs)
  <2> SUFFICES ASSUME tc[1] \in Answer PROVE Answering(tc, td, qs)
    OBVIOUS
  <2>1. C # 0
    BY <1>7, <1>10
  <2>2. A = 0 /\ Q = 0 /\ C = 1
    BY <1>2, <2>1
  <2> QED
    BY <1>7, <1>9, <1>10, <2>2 DEF Answering
<1> QED
  BY <1>11, <1>12, <1>13, <1>14 DEF td, tc, qs

-----------------------------------------------------------------------------
(* What a core's step does to the lines of its LLC: it sends nothing and   *)
(* keeps every permission, or it sends the first request for one line.     *)

\* A state that stays, or a silent upgrade.
Kept(s, r) == r = s \/ (s \in {"E", "M"} /\ r \in {"E", "M"})
CalmStep(n) ==
    /\ dir' = dir
    /\ \A m \in Nodes : SameKinds(toDir[m], toDir'[m]) /\ SameKinds(toCache[m], toCache'[m])
    /\ \A m \in Nodes \ {n}, x \in Addrs : stack'[m].llc[x].s = stack[m].llc[x].s
    /\ ~cfg.direct => \A x \in Addrs : Kept(stack[n].llc[x].s, stack'[n].llc[x].s)
AskStep(n) ==
    /\ dir' = dir /\ ~cfg.direct
    /\ \E t : \E a \in Addrs, k \in Stack(n) :
          /\ Initiated(n, t, a, k) /\ ~Permissible(k.llc[a], t)
          /\ \A x \in Addrs : k.llc[x].s = stack[n].llc[x].s

LEMMA FilledCalm ==
    ASSUME Types, NEW n \in Nodes, NEW c, NEW o, NEW st, Filled(n, c, o, st), dir' = dir,
           ~cfg.direct => \A x \in Addrs : Kept(stack[n].llc[x].s, st.llc[x].s)
    PROVE  CalmStep(n)
<1>1. PICK v \in Addrs \cup {None}, r \in Stack(n) :
           Copied(n, st, c, o.t, o.a, v, r) /\ Accessed(n, c, o, r)
  BY DEF Filled
<1>2. \A x \in Addrs : stack'[n].llc[x].s = st.llc[x].s
  <2>1. SameStates(n, r, stack'[n])
    BY <1>1 DEF Accessed
  <2> QED
    BY <1>1, <2>1 DEF SameStates, Copied
<1>3. \A m \in Nodes \ {n}, x \in Addrs : stack'[m].llc[x].s = stack[m].llc[x].s
  <2>1. \A m \in Nodes \ {n} : SameStates(m, stack[m], stack'[m])
    BY <1>1 DEF Accessed
  <2> QED
    BY <2>1 DEF SameStates
<1>4. \A m \in Nodes : SameKinds(toDir[m], toDir'[m]) /\ SameKinds(toCache[m], toCache'[m])
  BY <1>1 DEF Accessed
<1> QED
  BY <1>2, <1>3, <1>4 DEF CalmStep

LEMMA UpgradedKept ==
    ASSUME NEW n \in Nodes, NEW st, NEW C, NEW a \in Addrs, NEW r, Upgraded(n, st, C, a, r), ~cfg.direct
    PROVE  /\ \A x \in Addrs : Kept(st.llc[x].s, r.llc[x].s)
           /\ (\A x \in Addrs : r.llc[x].s = st.llc[x].s) \/ \A t : Permissible(r.llc[a], t)
<1>1. r.llc[a].s = IF st.llc[a].s = "E" THEN "M" ELSE st.llc[a].s
  BY DEF Upgraded
<1>2. \A x \in Addrs : x # a => r.llc[x].s = st.llc[x].s
  BY DEF Upgraded
<1> QED
  BY <1>1, <1>2 DEF Kept, Permissible

LEMMA ServedKept ==
    ASSUME NEW n \in Nodes, NEW st, NEW C, NEW t, NEW a \in Addrs, NEW r, AnyServed(n, st, C, t, a, r),
           ~cfg.direct
    PROVE  \A x \in Addrs : Kept(st.llc[x].s, r.st.llc[x].s)
<1>1. CASE ServedHit(n, st, C, t, a, r)
  BY <1>1 DEF ServedHit, HitServed, Kept
<1>2. CASE ServedUpgrade(n, st, C, t, a, r)
  BY <1>2, UpgradedKept DEF ServedUpgrade
<1> QED
  BY <1>1, <1>2 DEF AnyServed, ServedDirect

LEMMA QueuedAsks ==
    ASSUME Types, NEW n \in Nodes, NEW st, NEW C, NEW t, NEW a \in Addrs, Queued(n, st, C, t, a), dir' = dir,
           \A x \in Addrs : st.llc[x].s = stack[n].llc[x].s
    PROVE  AskStep(n)
<1>1. PICK k \in Stack(n) : Upgraded(n, st, C, a, k) /\ ~Permissible(k.llc[a], t) /\ Initiated(n, t, a, k)
  BY DEF Queued
<1>2. ~cfg.direct
  BY DEF Queued
<1>3. \A x \in Addrs : k.llc[x].s = stack[n].llc[x].s
  <2>1. (\A x \in Addrs : k.llc[x].s = st.llc[x].s) \/ Permissible(k.llc[a], t)
    BY <1>1, <1>2, UpgradedKept
  <2> QED
    BY <1>1, <2>1
<1> QED
  BY <1>1, <1>2, <1>3 DEF AskStep

LEMMA ReplacedCalm ==
    ASSUME Types, NEW n \in Nodes, NEW r, Replaced(n, r), UNCHANGED <<toDir, toCache, dir>>,
           ~cfg.direct => \A x \in Addrs : Kept(stack[n].llc[x].s, r.llc[x].s)
    PROVE  CalmStep(n)
<1>1. stack'[n] = r /\ \A m \in Nodes \ {n} : stack'[m] = stack[m]
  BY DEF Replaced, Types, StacksOK
<1>2. \A m \in Nodes : SameKinds(toDir[m], toDir'[m]) /\ SameKinds(toCache[m], toCache'[m])
  BY SameKindsReflexive
<1> QED
  BY <1>1, <1>2 DEF CalmStep

LEMMA FirstLevelCalm ==
    ASSUME Types, NEW n \in Nodes, NEW c \in CoresOf(n), NEW o \in Op, o.a \in Addrs, FirstLevel(n, c, o)
    PROVE  CalmStep(n)
<1>1. FirstLevelData(n, c, o) /\ dir' = dir
  BY FirstLevelFacts DEF FirstLevel
<1>2. CASE Permissible(stack[n].l1[c][o.a], o.t)
  <2>1. Accessed(n, c, o, stack[n])
    BY <1>1, <1>2 DEF FirstLevelData
  <2>2. \A m \in Nodes : SameStates(m, stack[m], stack'[m])
    BY <2>1 DEF Accessed
  <2>3. \A m \in Nodes, x \in Addrs : stack'[m].llc[x].s = stack[m].llc[x].s
    BY <2>2 DEF SameStates
  <2> QED
    BY <1>1, <2>1, <2>3 DEF CalmStep, Kept, Accessed
<1>3. CASE ~Permissible(stack[n].l1[c][o.a], o.t)
  <2>1. UNCHANGED <<stack, toDir, toCache>>
    BY <1>1, <1>3 DEF FirstLevelData
  <2> QED
    BY <1>1, <2>1, SameKindsReflexive DEF CalmStep, Kept
<1> QED
  BY <1>2, <1>3

LEMMA UserLines ==
    ASSUME Types, OpsUsed, NEW c \in Cores, UserStep(c)
    PROVE  CalmStep(NodeOf[c]) \/ AskStep(NodeOf[c])
<1> DEFINE n == NodeOf[c]
<1>1. n \in Nodes /\ c \in CoresOf(n) /\ op \in [Cores -> Op] /\ stack[n] \in Stack(n)
  BY NodeOfCore DEF Types, ThreadsOK, StacksOK
<1>2. ASSUME NEW t \in Kinds[c], NEW a \in Addrs, Issue(c, Operation(t, a))
      PROVE  CalmStep(n)
  <2>1. Operation(t, a) \in Op /\ Operation(t, a).a \in Addrs
    <3>1. t \in {"R", "W", "X"}
      BY CacheAssumption
    <3> QED
      BY <3>1 DEF Operation, Op
  <2>2. FirstLevel(n, c, Operation(t, a))
    BY <1>2 DEF Issue
  <2> QED
    BY <1>1, <2>1, <2>2, FirstLevelCalm
<1>3. ASSUME pc[c] # "idle"
      PROVE  op[c].a \in Addrs /\ op[c] \in Op
  BY <1>1, <1>3 DEF OpsUsed
<1>4. CASE IssueUnlock(c)
  <2> DEFINE o == [t |-> "W", a |-> op[c].a, sig |-> "UNLOCK"]
  <2>1. pc[c] = "locked" /\ FirstLevel(n, c, o)
    BY <1>4 DEF IssueUnlock
  <2>2. o \in Op /\ o.a \in Addrs
    BY <1>3, <2>1 DEF Op
  <2> QED
    BY <1>1, <2>1, <2>2, FirstLevelCalm
<1>5. CASE NextLevel(c)
  <2>1. op[c].a \in Addrs /\ dir' = dir
    BY <1>3, <1>5, Zenon DEF NextLevel
  <2>2. NextLevelData(n, c, op[c])
    BY <1>5, <2>1, NextLevelFacts
  <2> HIDE DEF n
  <2>3. PICK st \in Stack(n) :
           /\ Invalidated(n, stack[n], c, op[c].a, st)
           /\ \/ \E r : AnyServed(n, st, CoresOf(n) \ {c}, op[c].t, op[c].a, r) /\ Filled(n, c, op[c], r.st)
              \/ Queued(n, st, CoresOf(n) \ {c}, op[c].t, op[c].a)
    BY <2>2 DEF NextLevelData
  <2>4. \A x \in Addrs : st.llc[x].s = stack[n].llc[x].s
    BY <2>3 DEF Invalidated
  <2>5. ASSUME NEW r, AnyServed(n, st, CoresOf(n) \ {c}, op[c].t, op[c].a, r), Filled(n, c, op[c], r.st)
        PROVE  CalmStep(n)
    <3>1. ~cfg.direct => \A x \in Addrs : Kept(st.llc[x].s, r.st.llc[x].s)
      BY <1>1, <2>1, <2>5, ServedKept
    <3>2. ~cfg.direct => \A x \in Addrs : Kept(stack[n].llc[x].s, r.st.llc[x].s)
      BY <2>4, <3>1
    <3> QED
      BY <1>1, <2>1, <2>5, <3>2, FilledCalm
  <2>6. ASSUME Queued(n, st, CoresOf(n) \ {c}, op[c].t, op[c].a)
        PROVE  AskStep(n)
    BY <1>1, <2>1, <2>4, <2>6, QueuedAsks
  <2>7. CalmStep(n) \/ AskStep(n)
    BY <2>3, <2>5, <2>6
  <2> QED
    BY <2>7, Zenon DEF n
<1>6. CASE Refill(c)
  <2>1. op[c].a \in Addrs
    BY <1>3, <1>6 DEF Refill
  <2>2. RefillData(n, c, op[c]) /\ dir' = dir
    BY <1>6, <2>1, RefillDataFacts, RefillParts
  <2> DEFINE o == op[c]
             C == CoresOf(n) \ {c}
  <2> HIDE DEF n, C
  <2>3. PICK r \in Stack(n) : RefillStack(n, c, o, r) /\ Filled(n, c, o, r)
    BY <2>2 DEF RefillData
  <2>4. PICK k \in Stack(n) :
           /\ HitServed(n, stack[n], C, o.t, o.a, k) \/ Upgraded(n, stack[n], C, o.a, k)
           /\ r.llc = k.llc
    BY <2>3 DEF RefillStack, C
  <2>5. ~cfg.direct => \A x \in Addrs : Kept(stack[n].llc[x].s, r.llc[x].s)
    <3>1. CASE HitServed(n, stack[n], C, o.t, o.a, k)
      BY <2>4, <3>1, Zenon DEF HitServed, Kept
    <3>2. CASE Upgraded(n, stack[n], C, o.a, k)
      <4>1. ASSUME ~cfg.direct PROVE \A x \in Addrs : Kept(stack[n].llc[x].s, k.llc[x].s)
        BY <1>1, <2>1, <3>2, <4>1, UpgradedKept
      <4> QED
        BY <2>4, <4>1
    <3> QED
      BY <2>4, <3>1, <3>2, Zenon
  <2>6. CalmStep(n)
    BY <1>1, <2>2, <2>3, <2>5, FilledCalm
  <2> QED
    BY <2>6 DEF n
<1>7. CASE Prefetch(c)
  <2>1. UNCHANGED <<stack, toDir, toCache, dir>>
    BY <1>7, PrefetchParts DEF dirVars
  <2> QED
    BY <2>1, SameKindsReflexive DEF CalmStep, Kept
<1>8. CASE DoPrefetch(c)
  <2> DEFINE a == op[c].a
  <2>1. a \in Addrs /\ dir' = dir
    BY <1>3, <1>8, DoPrefetchParts
  <2>2. DoPrefetchData(n, a)
    BY <1>8, <2>1, DoPrefetchFacts
  <2> HIDE DEF n, a
  <2>3. ASSUME NEW r, AnyServed(n, stack[n], CoresOf(n), "P", a, r), Replaced(n, r.st),
               UNCHANGED <<toDir, toCache>>
        PROVE  CalmStep(n)
    <3>1. ~cfg.direct => \A x \in Addrs : Kept(stack[n].llc[x].s, r.st.llc[x].s)
      BY <1>1, <2>1, <2>3, ServedKept
    <3> QED
      BY <1>1, <2>1, <2>3, <3>1, ReplacedCalm
  <2>4. ASSUME Queued(n, stack[n], CoresOf(n), "P", a)
        PROVE  AskStep(n)
    BY <1>1, <2>1, <2>4, QueuedAsks
  <2>5. CalmStep(n) \/ AskStep(n)
    BY <2>2, <2>3, <2>4 DEF DoPrefetchData
  <2> QED
    BY <2>5 DEF n
<1>9. CASE RefillPrefetch(c)
  <2>1. PICK r \in Stack(n) : EndPrefetch(n, c, r, dram) /\ PrefetchRefilled(c, r)
    BY <1>9, RefillPrefetchParts
  <2>2. dir' = dir
    BY <1>9, RefillPrefetchParts
  <2>3. \A x \in Addrs : r.llc[x].s = stack[n].llc[x].s
    BY <2>1 DEF PrefetchRefilled, HitServed
  <2> HIDE DEF n
  <2>4. Replaced(n, r) /\ UNCHANGED <<toDir, toCache>>
    BY <2>1 DEF EndPrefetch, Replaced
  <2>5. CalmStep(n)
    BY <1>1, <2>2, <2>3, <2>4, ReplacedCalm DEF Kept
  <2> QED
    BY <2>5 DEF n
<1> QED
  BY <1>2, <1>4, <1>5, <1>6, <1>7, <1>8, <1>9 DEF UserStep

-----------------------------------------------------------------------------
(* The lines after a step                                                  *)

Lines == \A m \in Nodes, x \in Addrs : Line(m, x)
Same(v, w) == \A i \in Pos : w[i] = v[i]
\* Line(m, x) in the next state, with the views written out.
NextLine(m, x) ==
    LineOK(m, stack'[m].llc[x].s, View(toCache'[m], x), View(toDir'[m], x),
           QueueView(dir'[x].q, m), dir'[x])

LEMMA LinesNext ==
    ASSUME \A m \in Nodes, x \in Addrs : NextLine(m, x)
    PROVE  Lines'
BY DEF Lines, Line, NextLine, Tc, Td, Qs, LineOK, FreshInv, KnownInv, GoneInv, OnceInv, QueuedInv,
       SentInv, AskInv, Some, Known, View, QueueView, KindOf

LEMMA SameQuiet ==
    ASSUME NEW v, NEW w, Same(v, w)
    PROVE  Quiet(v, w)
BY DEF Same, Quiet

LEMMA EqualSame == \A v : Same(v, v)
BY DEF Same

LEMMA EqualEntry == \A n, e : SameEntry(n, e, e)
BY DEF SameEntry

\* Two records of one line: nothing said of it, the copy with the permission it had.
LEMMA LineStays ==
    ASSUME NEW m \in Nodes, NEW x \in Addrs, Line(m, x), Kept(stack[m].llc[x].s, stack'[m].llc[x].s),
           Quiet(Tc(m, x), View(toCache'[m], x)), Quiet(Td(m, x), View(toDir'[m], x)),
           Quiet(Qs(m, x), QueueView(dir'[x].q, m)), SameEntry(m, dir[x], dir'[x])
    PROVE  NextLine(m, x)
<1> DEFINE s == stack[m].llc[x].s
           s2 == stack'[m].llc[x].s
           tc == Tc(m, x)
           td == Td(m, x)
           qs == Qs(m, x)
           e == dir[x]
           tc2 == View(toCache'[m], x)
           td2 == View(toDir'[m], x)
           qs2 == QueueView(dir'[x].q, m)
           e2 == dir'[x]
<1>1. LineOK(m, s, tc, td, qs, e)
  BY DEF Line
<1>2. Quiet(tc, tc2) /\ Quiet(td, td2) /\ Quiet(qs, qs2) /\ SameEntry(m, e, e2) /\ Kept(s, s2)
  OBVIOUS
<1> HIDE DEF s, s2, tc, td, qs, e, tc2, td2, qs2, e2
<1>3. s2 = s \/ (s \in {"E", "M"} /\ s2 \in {"E", "M"})
  BY <1>2 DEF Kept
<1>4. LineOK(m, s2, tc2, td2, qs2, e2)
  BY <1>1, <1>2, <1>3, LineQuiet
<1> QED
  BY <1>4 DEF NextLine, s2, tc2, td2, qs2, e2

LEMMA KindsSame ==
    ASSUME NEW q, NEW r, SameKinds(q, r), NEW x
    PROVE  Same(View(q, x), View(r, x))
BY ViewOfKinds DEF Same

LEMMA CalmLines ==
    ASSUME Types, Lines, ~cfg.direct, NEW n \in Nodes, CalmStep(n)
    PROVE  \A m \in Nodes, x \in Addrs : NextLine(m, x)
<1> SUFFICES ASSUME NEW m \in Nodes, NEW x \in Addrs PROVE NextLine(m, x)
  OBVIOUS
<1>1. Line(m, x) /\ Kept(stack[m].llc[x].s, stack'[m].llc[x].s) /\ dir' = dir
  BY DEF Lines, CalmStep, Kept
<1>2. Quiet(Tc(m, x), View(toCache'[m], x))
  <2>1. SameKinds(toCache[m], toCache'[m])
    BY DEF CalmStep
  <2> QED
    BY <2>1, KindsSame, SameQuiet DEF Tc
<1>3. Quiet(Td(m, x), View(toDir'[m], x))
  <2>1. SameKinds(toDir[m], toDir'[m])
    BY DEF CalmStep
  <2> QED
    BY <2>1, KindsSame, SameQuiet DEF Td
<1>4. Quiet(Qs(m, x), QueueView(dir'[x].q, m)) /\ SameEntry(m, dir[x], dir'[x])
  BY <1>1, EqualSame, EqualEntry, SameQuiet DEF Qs
<1> QED
  BY <1>1, <1>2, <1>3, <1>4, LineStays

\* The first request for a line: the copy is INVALID, or SHARED and now upgrading.
LEMMA AskLines ==
    ASSUME Types, TransactionInv, Lines, NEW n \in Nodes, AskStep(n), failed' = "no"
    PROVE  \A m \in Nodes, x \in Addrs : NextLine(m, x)
<1> SUFFICES ASSUME NEW m \in Nodes, NEW x \in Addrs PROVE NextLine(m, x)
  OBVIOUS
<1>0. PICK t : \E a \in Addrs, k \in Stack(n) :
          /\ Initiated(n, t, a, k) /\ ~Permissible(k.llc[a], t)
          /\ \A y \in Addrs : k.llc[y].s = stack[n].llc[y].s
  BY DEF AskStep
<1>1. PICK a \in Addrs, k \in Stack(n) :
          /\ Initiated(n, t, a, k) /\ ~Permissible(k.llc[a], t)
          /\ \A y \in Addrs : k.llc[y].s = stack[n].llc[y].s
  BY <1>0
<1>2. Line(m, x) /\ dir' = dir /\ toCache' = toCache
  BY <1>1 DEF Lines, AskStep, Initiated
<1> DEFINE r == Msg(RequestOf(n, t, a, k), a, FALSE, FALSE)
           q == toDir[n]
<1>3. q \in Seq(ToDir) /\ r \in ToDir /\ r.a = a /\ KindOf(r) = RequestOf(n, t, a, k)
  <2>1. RequestOf(n, t, a, k) \in {"UPGRADE_REQ", "EX_REQ", "SH_REQ"}
    BY DEF RequestOf
  <2>2. RequestOf(n, t, a, k) \in Requests /\ RequestOf(n, t, a, k) # "UPGRADE_REP"
    BY <2>1 DEF Requests
  <2>3. r.t = RequestOf(n, t, a, k) /\ r.a = a /\ r \in ToDir
    BY <2>2, MsgFacts
  <2> QED
    BY <2>2, <2>3, ChannelTypes DEF KindOf
<1>4. toDir'[n] = IF FirstWaiter(n, a) THEN Append(q, r) ELSE q
  <2>1. \E ms \in Seq(ToDir) : ms = (IF FirstWaiter(n, a) THEN <<r>> ELSE <<>>) /\ toDir'[n] = q \o ms
    BY <1>1 DEF Initiated
  <2> HIDE DEF q, r
  <2> QED
    BY <1>3, <2>1, SendOne
<1>5. ~FirstWaiter(n, a) => ~Sends(n, t, a, k)
  BY DEF Sends
<1>6. stack'[n].llc[a].s = IF Sends(n, t, a, k) THEN "u" ELSE stack[n].llc[a].s
  BY <1>1 DEF Initiated
<1>7. \A l \in Nodes, y \in Addrs : l # n \/ y # a => stack'[l].llc[y].s = stack[l].llc[y].s
  BY <1>1 DEF Initiated
<1>8. \A l \in Nodes \ {n} : toDir'[l] = toDir[l]
  BY <1>1 DEF Initiated
<1>9. /\ Quiet(Tc(m, x), View(toCache'[m], x))
      /\ Quiet(Qs(m, x), QueueView(dir'[x].q, m)) /\ SameEntry(m, dir[x], dir'[x])
  BY <1>2, EqualSame, EqualEntry, SameQuiet DEF Qs, Tc
<1> HIDE DEF r, q
<1>10. CASE m # n \/ x # a \/ ~FirstWaiter(n, a)
  <2>1. Kept(stack[m].llc[x].s, stack'[m].llc[x].s)
    BY <1>5, <1>6, <1>7, <1>10 DEF Kept
  <2>2. Same(Td(m, x), View(toDir'[m], x))
    <3>1. CASE m # n \/ ~FirstWaiter(n, a)
      BY <1>4, <1>8, <3>1, EqualSame DEF Td, q
    <3>2. CASE m = n /\ FirstWaiter(n, a)
      <4>1. x # a
        BY <1>10, <3>2
      <4>2. Same(View(q, x), View(Append(q, r), x))
        BY <1>3, <4>1, ViewOfAppend DEF Same
      <4> QED
        BY <1>4, <3>2, <4>2 DEF Td, q
    <3> QED
      BY <3>1, <3>2
  <2> QED
    BY <1>2, <1>9, <2>1, <2>2, SameQuiet, LineStays
<1>11. CASE m = n /\ x = a /\ FirstWaiter(n, a)
  <2> DEFINE s == stack[n].llc[a].s
             tc == Tc(n, a)
             td == Td(n, a)
             td2 == View(toDir'[n], a)
             qs == Qs(n, a)
             e == dir[a]
  <2>1. LineOK(n, s, tc, td, qs, e)
    BY <1>2, <1>11 DEF Line
  <2>2. Unasked(tc, td, qs)
    BY <1>11, OneUnderWay DEF FirstWaiter
  <2>3. Ends(td, td2, RequestOf(n, t, a, k))
    <3>1. Ends(View(q, a), View(Append(q, r), a), KindOf(r))
      BY <1>3, ViewOfAppend
    <3> QED
      BY <1>3, <1>4, <1>11, <3>1 DEF Td, q
  <2>4. k.llc[a].s = s
    BY <1>1
  <2>5. IsWriter(t) => s \in {"I", "u", "S"}
    BY <1>1, <1>11, <2>4 DEF Initiated
  <2>6. s \in States
    BY <1>1, <2>4, StackFields
  <2>7. ~IsWriter(t) => s \in {"I", "u"}
    BY <1>1, <2>4, <2>6 DEF Permissible, IsWriter, States
  <2>8. Sends(n, t, a, k) <=> IsWriter(t) /\ s = "S"
    BY <1>11, <2>4 DEF Sends
  <2> DEFINE s2 == stack'[n].llc[a].s
  <2>9. s2 = IF IsWriter(t) /\ s = "S" THEN "u" ELSE s
    BY <1>6, <2>8
  <2>10. RequestOf(n, t, a, k) = IF IsWriter(t) /\ s = "S" THEN "UPGRADE_REQ"
                                 ELSE IF IsWriter(t) THEN "EX_REQ" ELSE "SH_REQ"
    BY <2>8 DEF RequestOf
  <2> HIDE DEF s, tc, td, td2, qs, e, s2
  <2>11. s # "u"
    BY <2>1, <2>2, UnaskedKinds DEF LineOK, FreshInv, Unasked
  <2>12. LineOK(n, s2, tc, td2, qs, e)
    <3>1. CASE IsWriter(t) /\ s = "S"
      <4>1. "UPGRADE_REQ" \in Raise /\ Ends(td, td2, "UPGRADE_REQ") /\ s2 = "u" /\ LineOK(n, "S", tc, td, qs, e)
        BY <2>1, <2>3, <2>9, <2>10, <3>1 DEF Raise
      <4> QED
        BY <2>2, <4>1, RaiseSent
    <3>2. CASE ~(IsWriter(t) /\ s = "S")
      <4>1. s = "I"
        BY <2>5, <2>7, <2>11, <3>2
      <4>2. /\ RequestOf(n, t, a, k) \in Fetch /\ Ends(td, td2, RequestOf(n, t, a, k)) /\ s2 = "I"
            /\ LineOK(n, "I", tc, td, qs, e)
        BY <2>1, <2>3, <2>9, <2>10, <3>2, <4>1 DEF Fetch
      <4> QED
        BY <2>2, <4>2, FetchSent
    <3> QED
      BY <3>1, <3>2
  <2>13. NextLine(n, a)
    BY <1>2, <2>12 DEF NextLine, s2, tc, td2, qs, e, Tc, Qs
  <2> QED
    BY <1>11, <2>13
<1> QED
  BY <1>10, <1>11

-----------------------------------------------------------------------------
(* The directory's steps                                                   *)

\* A line with an owner has no sharers, and only caches in the way of the
\* first request are asked.
EntryOK(e) ==
    /\ e.owner # None => e.sharers = {}
    /\ \A k \in e.asked : e.q # <<>> /\ k \in Targets(e, Head(e.q))
EntryInv == \A x \in Addrs : EntryOK(dir[x])

LEMMA TailQuiet ==
    ASSUME NEW T, NEW q \in Seq(T), q # <<>>, NEW x
    PROVE  /\ Head(q).a # x => Quiet(View(q, x), View(Tail(q), x))
           /\ Head(q).n # x => Quiet(QueueView(q, x), QueueView(Tail(q), x))
BY ViewOfTail, QueueOfTail DEF Quiet

LEMMA AppendSame ==
    ASSUME NEW T, NEW q \in Seq(T), NEW m \in T, NEW x
    PROVE  /\ m.a # x => Same(View(q, x), View(Append(q, m), x))
           /\ m.n # x => Same(QueueView(q, x), QueueView(Append(q, m), x))
BY ViewOfAppend, QueueOfAppend DEF Same

LEMMA HeadOfReports ==
    ASSUME Types, NEW n \in Nodes, toDir[n] # <<>>
    PROVE  /\ Head(toDir[n]) \in ToDir /\ Head(toDir[n]).a \in Addrs
           /\ Head(toDir[n]).t \in Requests \cup Gone \cup Wb
           /\ KindOf(Head(toDir[n])) = Head(toDir[n]).t
<1> DEFINE q == toDir[n]
<1>1. q \in Seq(ToDir) /\ q # <<>>
  BY DEF Types, ChannelsOK
<1> HIDE DEF q
<1>2. Head(q) \in ToDir
  BY <1>1
<1>3. Head(q).a \in Addrs /\ Head(q).t \in Requests \cup Gone \cup Wb
  BY <1>2 DEF ToDir, Message
<1>4. Head(q).t # "UPGRADE_REP"
  BY <1>3 DEF Requests, Gone, Wb
<1> QED
  BY <1>2, <1>3, <1>4 DEF KindOf, q

\* What DirReceive does to the entry of the line.
Received(n, m, e, f) ==
    /\ m.t \in Requests => f = [e EXCEPT !.q = Append(@, [t |-> m.t, n |-> n])]
    /\ m.t \in Gone \cup Wb =>
          /\ f.q = e.q /\ f.asked = e.asked \ {n}
          /\ f.owner = IF e.owner = n THEN None ELSE e.owner
          /\ f.sharers = IF m.t \in Wb THEN e.sharers \cup {n} ELSE e.sharers \ {n}

LEMMA ReceivedFacts ==
    ASSUME Types, NEW n \in Nodes, DirReceive(n)
    PROVE  LET m == Head(toDir[n]) IN
           /\ toDir[n] # <<>> /\ toDir'[n] = Tail(toDir[n]) /\ \A k \in Nodes \ {n} : toDir'[k] = toDir[k]
           /\ UNCHANGED <<stack, toCache>> /\ \A x \in Addrs \ {m.a} : dir'[x] = dir[x]
           /\ Received(n, m, dir[m.a], dir'[m.a])
<1> DEFINE m == Head(toDir[n])
           a == m.a
           e == dir[a]
           gone == [e EXCEPT !.owner = IF @ = n THEN None ELSE @, !.sharers = @ \ {n}, !.asked = @ \ {n}]
           f == CASE m.t \in Requests -> [e EXCEPT !.q = Append(@, [t |-> m.t, n |-> n])]
                  [] m.t = "WB_REP" -> [gone EXCEPT !.sharers = @ \cup {n}]
                  [] OTHER -> gone
<1>1. toDir[n] # <<>> /\ toDir' = [toDir EXCEPT ![n] = Tail(@)] /\ dir' = [dir EXCEPT ![a] = f]
      /\ UNCHANGED <<stack, toCache>>
  BY Zenon DEF DirReceive, cacheVars
<1>2. a \in Addrs /\ m.t \in Requests \cup Gone \cup Wb
  BY <1>1, HeadOfReports, Zenon
<1>3. DOMAIN toDir = Nodes /\ DOMAIN dir = Addrs /\ e \in Entry
  BY <1>2 DEF Types, ChannelsOK
<1> HIDE DEF m
<1>4. /\ gone.q = e.q /\ gone.asked = e.asked \ {n} /\ gone.sharers = e.sharers \ {n}
      /\ gone.owner = IF e.owner = n THEN None ELSE e.owner
      /\ [gone EXCEPT !.sharers = @ \cup {n}].q = e.q
      /\ [gone EXCEPT !.sharers = @ \cup {n}].asked = e.asked \ {n}
      /\ [gone EXCEPT !.sharers = @ \cup {n}].sharers = e.sharers \cup {n}
      /\ [gone EXCEPT !.sharers = @ \cup {n}].owner = IF e.owner = n THEN None ELSE e.owner
  BY <1>3 DEF Entry
<1> HIDE DEF gone, e
<1>5. Received(n, m, e, f)
  BY <1>2, <1>4 DEF Received, Requests, Gone, Wb
<1> HIDE DEF f
<1>6. dir'[a] = f /\ \A x \in Addrs \ {a} : dir'[x] = dir[x]
  BY <1>1, <1>2, <1>3
<1>7. toDir'[n] = Tail(toDir[n]) /\ \A k \in Nodes \ {n} : toDir'[k] = toDir[k]
  BY <1>1, <1>3
<1> QED
  BY <1>1, <1>5, <1>6, <1>7, Zenon DEF m, e

\* A report comes from a copy the directory knows; one written back from the owner.
LEMMA ReportFacts ==
    ASSUME Lines, EntryInv, Types, NEW n \in Nodes, toDir[n] # <<>>, Head(toDir[n]).t \in Wb
    PROVE  dir[Head(toDir[n]).a].owner = n /\ dir[Head(toDir[n]).a].sharers = {}
<1> DEFINE m == Head(toDir[n])
           a == m.a
           q == toDir[n]
<1>1. m \in ToDir /\ a \in Addrs /\ KindOf(m) = m.t /\ q \in Seq(ToDir) /\ q # <<>>
  BY HeadOfReports, ChannelTypes
<1>2. Line(n, a) /\ EntryOK(dir[a]) /\ None \notin Nodes
  BY <1>1, CacheAssumption DEF Lines, EntryInv
<1>3. Td(n, a)[1] = m.t
  <2> HIDE DEF q
  <2>1. View(q, Head(q).a)[1] = KindOf(Head(q))
    BY <1>1, ViewOfTail
  <2> QED
    BY <1>1, <2>1 DEF Td, q
<1>4. Some(Td(n, a), Wb)
  BY <1>3 DEF Some, Pos
<1>5. dir[a].owner = n
  BY <1>2, <1>4, Zenon DEF Line, LineOK, GoneInv
<1> QED
  BY <1>2, <1>5 DEF EntryOK

LEMMA ReceiveOtherEntry ==
    ASSUME NEW n, NEW m, NEW e, NEW f, Received(n, m, e, f), m.t \in Requests \cup Gone \cup Wb,
           e \in Entry, None \notin Nodes, NEW k \in Nodes
    PROVE  k # n \/ m.t \in Requests => SameEntry(k, e, f)
<1>1. CASE m.t \in Requests
  BY <1>1 DEF Received, Entry, SameEntry
<1>2. CASE m.t \in Gone \cup Wb
  BY <1>2, KindsApart DEF Received, SameEntry
<1> QED
  BY <1>1, <1>2

LEMMA ReceiveLines ==
    ASSUME Types, TransactionInv, Lines, EntryInv, NEW n \in Nodes, DirReceive(n)
    PROVE  \A k \in Nodes, x \in Addrs : NextLine(k, x)
<1> SUFFICES ASSUME NEW k \in Nodes, NEW x \in Addrs PROVE NextLine(k, x)
  OBVIOUS
<1> DEFINE m == Head(toDir[n])
           a == m.a
           q == toDir[n]
<1>1. /\ q # <<>> /\ toDir'[n] = Tail(q) /\ \A l \in Nodes \ {n} : toDir'[l] = toDir[l]
      /\ UNCHANGED <<stack, toCache>> /\ \A y \in Addrs \ {a} : dir'[y] = dir[y]
      /\ Received(n, m, dir[a], dir'[a])
  BY ReceivedFacts
<1>2. /\ m \in ToDir /\ a \in Addrs /\ KindOf(m) = m.t /\ q \in Seq(ToDir)
      /\ m.t \in Requests \cup Gone \cup Wb
  BY <1>1, HeadOfReports, ChannelTypes
<1>3. Line(k, x) /\ None \notin Nodes /\ dir[a] \in Entry
  BY <1>2, CacheAssumption DEF Lines, Types, ChannelsOK
<1>4. /\ Quiet(Tc(k, x), View(toCache'[k], x)) /\ stack'[k].llc[x].s = stack[k].llc[x].s
      /\ Kept(stack[k].llc[x].s, stack'[k].llc[x].s)
  BY <1>1, EqualSame, SameQuiet DEF Tc, Kept
<1>5. k # n => Quiet(Td(k, x), View(toDir'[k], x))
  BY <1>1, EqualSame, SameQuiet DEF Td
<1>6. x # a => /\ Quiet(Qs(k, x), QueueView(dir'[x].q, k)) /\ SameEntry(k, dir[x], dir'[x])
               /\ Quiet(Td(k, x), View(toDir'[k], x))
  <2> SUFFICES ASSUME x # a
               PROVE  /\ Quiet(Qs(k, x), QueueView(dir'[x].q, k)) /\ SameEntry(k, dir[x], dir'[x])
                      /\ (k = n => Quiet(Td(k, x), View(toDir'[k], x)))
    BY <1>5
  <2>1. dir'[x] = dir[x]
    BY <1>1
  <2>2. Quiet(Qs(k, x), QueueView(dir'[x].q, k)) /\ SameEntry(k, dir[x], dir'[x])
    BY <2>1, EqualSame, EqualEntry, SameQuiet DEF Qs
  <2>3. Quiet(View(q, x), View(Tail(q), x))
    <3> HIDE DEF q
    <3>1. Head(q).a # x
      BY DEF q
    <3> QED
      BY <1>1, <1>2, <3>1, TailQuiet
  <2> QED
    BY <1>1, <2>2, <2>3 DEF Td
<1>7. CASE x # a
  BY <1>3, <1>4, <1>6, <1>7, LineStays
<1> DEFINE w == [t |-> m.t, n |-> n]
           dq == dir[a].q
           R == [t : Requests, n : Nodes]
<1>8. dq \in Seq(R) /\ (m.t \in Requests => w \in R)
  BY <1>2, ChannelTypes
<1>9. dir'[a].q = IF m.t \in Requests THEN Append(dq, w) ELSE dq
  <2>1. m.t \in Requests => dir'[a].q = Append(dq, w)
    BY <1>1, <1>3, Zenon DEF Received, Entry
  <2>2. m.t \notin Requests => dir'[a].q = dq
    BY <1>1, <1>2 DEF Received
  <2> QED
    BY <2>1, <2>2
<1>10. w.n = n /\ w.t = m.t
  BY Zenon
<1> HIDE DEF R, w, dq
<1>11. CASE x = a /\ k # n
  <2>1. SameEntry(k, dir[a], dir'[a])
    BY <1>1, <1>2, <1>3, <1>11, ReceiveOtherEntry
  <2>2. Same(QueueView(dq, k), QueueView(dir'[a].q, k))
    <3>1. CASE m.t \in Requests
      BY <1>8, <1>9, <1>10, <1>11, <3>1, AppendSame
    <3>2. CASE m.t \notin Requests
      BY <1>9, <3>2, EqualSame
    <3> QED
      BY <3>1, <3>2
  <2>3. Quiet(Qs(k, x), QueueView(dir'[x].q, k))
    BY <1>11, <2>2, SameQuiet DEF Qs, dq
  <2> QED
    BY <1>3, <1>4, <1>5, <1>11, <2>1, <2>3, LineStays, Zenon
<1>12. CASE x = a /\ k = n
  <2> DEFINE s == stack[n].llc[a].s
             tc == Tc(n, a)
             td == Td(n, a)
             td2 == View(toDir'[n], a)
             qs == Qs(n, a)
             qs2 == QueueView(dir'[a].q, n)
             e == dir[a]
             e2 == dir'[a]
  <2>1. LineOK(n, s, tc, td, qs, e)
    BY <1>3, <1>12 DEF Line
  <2>2. td[1] = m.t /\ Moved(td, td2)
    <3> HIDE DEF q
    <3>1. Head(q) = m
      BY DEF q
    <3> HIDE DEF m
    <3>2. Moved(View(q, a), View(Tail(q), a)) /\ View(q, a)[1] = IF Head(q).a = a THEN KindOf(Head(q)) ELSE "none"
      BY <1>1, <1>2, ViewOfTail
    <3>3. td = View(q, a) /\ td2 = View(Tail(q), a)
      BY <1>1 DEF Td, q
    <3> QED
      BY <1>2, <3>1, <3>2, <3>3
  <2>3. td[1] \in Requests => Sent(tc, td, qs)
    BY <1>2, OneUnderWay, Zenon
  <2>4. m.t \in Requests => Ends(qs, qs2, m.t) /\ SameEntry(n, e, e2)
    <3> SUFFICES ASSUME m.t \in Requests PROVE Ends(qs, qs2, m.t) /\ SameEntry(n, e, e2)
      OBVIOUS
    <3>1. SameEntry(n, e, e2)
      BY <1>1, <1>2, <1>3, ReceiveOtherEntry
    <3>2. Ends(QueueView(dq, n), QueueView(Append(dq, w), n), w.t)
      BY <1>8, <1>10, QueueOfAppend
    <3> QED
      BY <1>9, <1>10, <3>1, <3>2, Zenon DEF Qs, dq
  <2>5. m.t \notin Requests => qs2 = qs
    BY <1>9 DEF Qs, dq
  <2>6. m.t \in Gone => e2.owner # n /\ n \notin e2.sharers
    BY <1>1, <1>3, KindsApart DEF Received
  <2>7. m.t \in Wb => e2.owner # n /\ n \in e2.sharers
    BY <1>1, <1>3 DEF Received
  <2>8. s = stack'[n].llc[a].s /\ tc = View(toCache'[n], a)
    BY <1>1 DEF Tc
  <2> HIDE DEF s, tc, td, td2, qs, qs2, e, e2, m
  <2>9. LineOK(n, s, tc, td2, qs2, e2)
    <3>1. CASE m.t \in Requests
      BY <2>1, <2>2, <2>3, <2>4, <3>1, RequestQueued
    <3>2. CASE m.t \in Gone
      <4>1. qs2 = qs
        BY <2>5, <3>2, KindsApart
      <4>2. LineOK(n, s, tc, td2, qs, e2)
        BY <2>1, <2>2, <2>6, <3>2, GoneReceived
      <4> QED
        BY <4>1, <4>2
    <3>3. CASE m.t \in Wb
      <4>1. qs2 = qs
        BY <2>5, <3>3, KindsApart
      <4>2. LineOK(n, s, tc, td2, qs, e2)
        BY <2>1, <2>2, <2>7, <3>3, WbReceived
      <4> QED
        BY <4>1, <4>2
    <3> QED
      BY <1>2, <3>1, <3>2, <3>3
  <2>10. NextLine(n, a)
    BY <2>8, <2>9 DEF NextLine, td2, qs2, e2
  <2> QED
    BY <1>12, <2>10
<1> QED
  BY <1>7, <1>11, <1>12

LEMMA HeadOfAppend ==
    ASSUME NEW T, NEW q \in Seq(T), q # <<>>, NEW w \in T
    PROVE  Append(q, w) # <<>> /\ Head(Append(q, w)) = Head(q)
OBVIOUS

LEMMA EntriesNext ==
    ASSUME \A x \in Addrs : EntryOK(dir'[x])
    PROVE  EntryInv'
BY DEF EntryInv, EntryOK, Targets, Owner

LEMMA ReceiveEntries ==
    ASSUME Types, Lines, EntryInv, NEW n \in Nodes, DirReceive(n)
    PROVE  EntryInv'
<1> DEFINE m == Head(toDir[n])
           a == m.a
           e == dir[a]
           f == dir'[a]
           R == [t : Requests, n : Nodes]
           w == [t |-> m.t, n |-> n]
<1>1. toDir[n] # <<>> /\ (\A x \in Addrs \ {a} : dir'[x] = dir[x]) /\ Received(n, m, e, f)
  BY ReceivedFacts
<1>2. a \in Addrs /\ m.t \in Requests \cup Gone \cup Wb
  BY <1>1, HeadOfReports
<1>3. e \in Entry /\ EntryOK(e) /\ e.q \in Seq(R) /\ None \notin Nodes
  BY <1>2, ChannelTypes, CacheAssumption DEF EntryInv, Types, ChannelsOK
<1>4. m.t \in Wb => e.owner = n /\ e.sharers = {}
  BY <1>1, ReportFacts
<1>5. \A k \in e.asked : e.q # <<>> => Head(e.q).t \in Requests
  <2> DEFINE q == e.q
  <2>1. q \in Seq(R)
    BY <1>3
  <2>2. q # <<>> => Head(q) \in R
    <3> HIDE DEF q, R
    <3> QED
      BY <2>1
  <2> QED
    BY <2>2
<1>6. m.t \in Requests => w \in R
  OBVIOUS
<1> HIDE DEF m, e, f, R, w
<1>7. CASE m.t \in Requests
  <2>1. f = [e EXCEPT !.q = Append(@, w)]
    BY <1>1, <1>7 DEF Received, w
  <2>2. f.owner = e.owner /\ f.sharers = e.sharers /\ f.asked = e.asked /\ f.q = Append(e.q, w)
    BY <1>3, <2>1 DEF Entry
  <2>3. e.q # <<>> => f.q # <<>> /\ Head(f.q) = Head(e.q)
    BY <1>3, <1>6, <1>7, <2>2, HeadOfAppend
  <2>4. \A r : Targets(f, r) = Targets(e, r)
    BY <2>2 DEF Targets, Owner
  <2> QED
    <3>1. EntryOK(f)
      BY <1>3, <2>2, <2>3, <2>4 DEF EntryOK
    <3> QED
      BY <1>1, <3>1, EntriesNext DEF EntryInv, f
<1>8. CASE m.t \notin Requests
  <2>1. /\ f.q = e.q /\ f.asked = e.asked \ {n}
        /\ f.owner = IF e.owner = n THEN None ELSE e.owner
        /\ f.sharers = IF m.t \in Wb THEN e.sharers \cup {n} ELSE e.sharers \ {n}
    BY <1>1, <1>2, <1>8 DEF Received
  <2>2. f.owner # None => f.sharers = {}
    BY <1>3, <1>4, <2>1 DEF EntryOK
  <2>3. ASSUME NEW k \in f.asked
        PROVE  f.q # <<>> /\ k \in Targets(f, Head(f.q))
    <3>1. k # n /\ e.q # <<>> /\ k \in Targets(e, Head(e.q)) /\ Head(e.q).t \in Requests
      BY <1>3, <1>5, <2>1, <2>3 DEF EntryOK
    <3>2. k \in Owner(e) => k \in Owner(f)
      BY <2>1, <3>1 DEF Owner
    <3>3. k \in e.sharers => k \in f.sharers
      BY <2>1, <3>1
    <3> DEFINE r == Head(e.q)
    <3>4. r.t \in {"SH_REQ", "EX_REQ", "UPGRADE_REQ"} /\ k \in Targets(e, r)
      BY <3>1 DEF Requests
    <3> HIDE DEF r
    <3>5. k \in Targets(f, r)
      BY <3>2, <3>3, <3>4 DEF Targets
    <3> QED
      BY <2>1, <3>1, <3>5 DEF r
  <2>4. EntryOK(f)
    BY <2>2, <2>3 DEF EntryOK
  <2> QED
    BY <1>1, <2>4, EntriesNext DEF EntryInv, f
<1> QED
  BY <1>7, <1>8

-----------------------------------------------------------------------------
AskedOf(a) == Targets(dir[a], Head(dir[a].q)) \ dir[a].asked

LEMMA AskedFacts ==
    ASSUME Types, NEW a \in Addrs, DirAsk(a)
    PROVE  /\ dir[a].q # <<>> /\ UNCHANGED <<stack, toDir>> /\ AskedOf(a) \subseteq Nodes
           /\ \A x \in Addrs \ {a} : dir'[x] = dir[x]
           /\ dir'[a].owner = dir[a].owner /\ dir'[a].sharers = dir[a].sharers /\ dir'[a].q = dir[a].q
           /\ dir'[a].asked = dir[a].asked \cup AskedOf(a)
           /\ \A k \in Nodes \ AskedOf(a) : toCache'[k] = toCache[k]
           /\ \A k \in AskedOf(a) : \E t \in Ask :
                 /\ toCache'[k] = Append(toCache[k], Msg(t, a, FALSE, FALSE))
                 /\ t = "INV_REQ" => k # dir[a].owner
                 /\ t \in {"FLUSH_REQ", "WB_REQ"} => k = dir[a].owner
<1> DEFINE e == dir[a]
           r == Head(e.q)
           ask == Targets(e, r) \ e.asked
           kind(k) == IF k # e.owner THEN "INV_REQ"
                      ELSE IF r.t = "SH_REQ" THEN "WB_REQ" ELSE "FLUSH_REQ"
<1>1. /\ e.q # <<>> /\ UNCHANGED <<stack, toDir>>
      /\ dir' = [dir EXCEPT ![a].asked = @ \cup ask]
      /\ toCache' = [k \in Nodes |-> IF k \in ask THEN Append(toCache[k], Msg(kind(k), a, FALSE, FALSE))
                                                  ELSE toCache[k]]
  BY DEF DirAsk, cacheVars
<1>2. ask \subseteq Nodes /\ e \in Entry /\ DOMAIN dir = Addrs
  BY <1>1, FirstRequest DEF Types, ChannelsOK
<1>3. \A k \in ask : kind(k) \in Ask
  BY DEF Ask
<1> HIDE DEF ask
<1>4. /\ \A x \in Addrs \ {a} : dir'[x] = dir[x]
      /\ dir'[a] = [e EXCEPT !.asked = @ \cup ask]
  BY <1>1, <1>2
<1> HIDE DEF e
<1>5. /\ dir'[a].owner = e.owner /\ dir'[a].sharers = e.sharers /\ dir'[a].q = e.q
      /\ dir'[a].asked = e.asked \cup ask
  BY <1>2, <1>4 DEF Entry
<1>6. \A k \in ask : /\ kind(k) = "INV_REQ" => k # e.owner
                     /\ kind(k) \in {"FLUSH_REQ", "WB_REQ"} => k = e.owner
  OBVIOUS
<1>7. \A k \in Nodes \ ask : toCache'[k] = toCache[k]
  BY <1>1
<1>8. \A k \in ask : toCache'[k] = Append(toCache[k], Msg(kind(k), a, FALSE, FALSE))
  BY <1>1, <1>2
<1>9. ask = AskedOf(a)
  BY DEF ask, AskedOf, e
<1> HIDE DEF kind
<1>10. \A k \in ask : \E t \in Ask :
                 /\ toCache'[k] = Append(toCache[k], Msg(t, a, FALSE, FALSE))
                 /\ t = "INV_REQ" => k # e.owner
                 /\ t \in {"FLUSH_REQ", "WB_REQ"} => k = e.owner
  BY <1>3, <1>6, <1>8
<1> QED
  BY <1>1, <1>2, <1>4, <1>5, <1>7, <1>9, <1>10 DEF e

LEMMA AskEntries ==
    ASSUME Types, EntryInv, NEW a \in Addrs, DirAsk(a)
    PROVE  EntryInv'
<1> DEFINE e == dir[a]
           f == dir'[a]
<1>1. /\ e.q # <<>> /\ f.owner = e.owner /\ f.sharers = e.sharers /\ f.q = e.q
      /\ f.asked = e.asked \cup AskedOf(a) /\ \A x \in Addrs \ {a} : dir'[x] = dir[x]
  BY AskedFacts
<1>2. \A r : Targets(f, r) = Targets(e, r)
  BY <1>1 DEF Targets, Owner
<1>3. EntryOK(e) /\ AskedOf(a) \subseteq Targets(e, Head(e.q))
  BY DEF EntryInv, AskedOf
<1> HIDE DEF e, f
<1>4. EntryOK(f)
  BY <1>1, <1>2, <1>3 DEF EntryOK
<1> QED
  BY <1>1, <1>4, EntriesNext DEF EntryInv, f

LEMMA DirAskLines ==
    ASSUME Types, Lines, EntryInv, NEW a \in Addrs, DirAsk(a)
    PROVE  \A k \in Nodes, x \in Addrs : NextLine(k, x)
<1> SUFFICES ASSUME NEW k \in Nodes, NEW x \in Addrs PROVE NextLine(k, x)
  OBVIOUS
<1>1. Line(k, x) /\ UNCHANGED <<stack, toDir>> /\ dir'[x].q = dir[x].q
  BY AskedFacts DEF Lines
<1>2. /\ Quiet(Td(k, x), View(toDir'[k], x)) /\ Quiet(Qs(k, x), QueueView(dir'[x].q, k))
      /\ Kept(stack[k].llc[x].s, stack'[k].llc[x].s)
  BY <1>1, EqualSame, SameQuiet DEF Td, Qs, Kept
<1>3. toCache[k] \in Seq(ToCache)
  BY ChannelTypes
<1>4. \A t \in Ask : Msg(t, a, FALSE, FALSE) \in ToCache /\ Msg(t, a, FALSE, FALSE).a = a
                     /\ Msg(t, a, FALSE, FALSE).t = t /\ KindOf(Msg(t, a, FALSE, FALSE)) = t
  <2> SUFFICES ASSUME NEW t \in Ask
               PROVE  Msg(t, a, FALSE, FALSE) \in ToCache /\ Msg(t, a, FALSE, FALSE).a = a
                     /\ Msg(t, a, FALSE, FALSE).t = t /\ KindOf(Msg(t, a, FALSE, FALSE)) = t
    OBVIOUS
  <2>1. Msg(t, a, FALSE, FALSE) \in ToCache /\ Msg(t, a, FALSE, FALSE).a = a /\ Msg(t, a, FALSE, FALSE).t = t
    BY MsgFacts
  <2>2. t # "UPGRADE_REP"
    BY DEF Ask
  <2> QED
    BY <2>1, <2>2 DEF KindOf
<1>5. k \in AskedOf(a) => \E t \in Ask :
                 /\ toCache'[k] = Append(toCache[k], Msg(t, a, FALSE, FALSE))
                 /\ t = "INV_REQ" => k # dir[a].owner
                 /\ t \in {"FLUSH_REQ", "WB_REQ"} => k = dir[a].owner
  BY AskedFacts
<1>6. CASE x # a \/ k \notin AskedOf(a)
  <2>1. Same(Tc(k, x), View(toCache'[k], x))
    <3>1. CASE k \notin AskedOf(a)
      <4>1. toCache'[k] = toCache[k]
        BY <3>1, AskedFacts
      <4> QED
        BY <4>1, EqualSame DEF Tc
    <3>2. CASE k \in AskedOf(a) /\ x # a
      <4>1. PICK t \in Ask : toCache'[k] = Append(toCache[k], Msg(t, a, FALSE, FALSE))
        BY <1>5, <3>2
      <4> DEFINE g == Msg(t, a, FALSE, FALSE)
                 q == toCache[k]
      <4>2. g \in ToCache /\ g.a # x /\ q \in Seq(ToCache) /\ toCache'[k] = Append(q, g)
        BY <1>3, <1>4, <3>2, <4>1
      <4> HIDE DEF g, q
      <4>3. Same(View(q, x), View(Append(q, g), x))
        BY <4>2, AppendSame
      <4> QED
        BY <4>2, <4>3 DEF Tc, q
    <3> QED
      BY <1>6, <3>1, <3>2
  <2>2. SameEntry(k, dir[x], dir'[x])
    <3>1. CASE x # a
      BY <3>1, AskedFacts, EqualEntry
    <3>2. CASE x = a
      BY <1>6, <3>2, AskedFacts DEF SameEntry
    <3> QED
      BY <3>1, <3>2
  <2> QED
    BY <1>1, <1>2, <2>1, <2>2, SameQuiet, LineStays
<1>7. CASE x = a /\ k \in AskedOf(a)
  <2>1. PICK t \in Ask :
                 /\ toCache'[k] = Append(toCache[k], Msg(t, a, FALSE, FALSE))
                 /\ t = "INV_REQ" => k # dir[a].owner
                 /\ t \in {"FLUSH_REQ", "WB_REQ"} => k = dir[a].owner
    BY <1>5, <1>7
  <2> DEFINE g == Msg(t, a, FALSE, FALSE)
             q == toCache[k]
             s == stack[k].llc[a].s
             tc == Tc(k, a)
             tc2 == View(toCache'[k], a)
             td == Td(k, a)
             qs == Qs(k, a)
             e == dir[a]
             f == dir'[a]
  <2>2. g \in ToCache /\ g.a = a /\ KindOf(g) = t /\ q \in Seq(ToCache) /\ toCache'[k] = Append(q, g)
    BY <1>3, <1>4, <2>1
  <2>3. Ends(tc, tc2, t)
    <3> HIDE DEF g, q
    <3>1. Ends(View(q, a), View(Append(q, g), a), KindOf(g))
      BY <2>2, ViewOfAppend
    <3> QED
      BY <2>2, <3>1 DEF Tc, q
  <2>4. LineOK(k, s, tc, td, qs, e)
    BY <1>1, <1>7 DEF Line
  <2>5. k \notin e.asked /\ k \in Targets(e, Head(e.q)) /\ k \in f.asked
        /\ f.owner = e.owner /\ f.sharers = e.sharers
    BY <1>7, AskedFacts DEF AskedOf
  <2>6. k \in Owner(e) \cup e.sharers
    <3>1. Head(e.q).t \in Requests
      BY AskedFacts, FirstRequest DEF Types
    <3> HIDE DEF e
    <3> QED
      BY <2>5, <3>1 DEF Targets, Requests
  <2>7. t = "INV_REQ" => k \in e.sharers
    BY <2>1, <2>6 DEF Owner
  <2>8. t \in {"FLUSH_REQ", "WB_REQ"} => e.owner = k
    BY <2>1
  <2>9. s = stack'[k].llc[a].s /\ td = View(toDir'[k], a) /\ qs = QueueView(dir'[a].q, k)
    BY <1>1, <1>7 DEF Td, Qs
  <2> HIDE DEF s, tc, tc2, td, qs, e, f, g, q
  <2>10. LineOK(k, s, tc2, td, qs, f)
    BY <2>3, <2>4, <2>5, <2>7, <2>8, CopyAsked
  <2>11. NextLine(k, a)
    BY <2>9, <2>10 DEF NextLine, tc2, f
  <2> QED
    BY <1>7, <2>11
<1> QED
  BY <1>6, <1>7

\* The directory answers the first request of line a: g is the reply, f the
\* entry after it.
Granting(r, e, f, g) ==
    /\ f.q = Tail(e.q) /\ f.asked = {} /\ g.t \in Rep
    /\ r.t \in Fetch =>
          \/ g.t = "SH_REP" /\ f.owner = e.owner /\ f.sharers = e.sharers \cup {r.n}
          \/ /\ g.t = "EX_REP" /\ f.owner = r.n /\ f.sharers = {}
             /\ r.t # "EX_REQ" => e.sharers = {}
    /\ r.t = "EX_REQ" => g.t = "EX_REP"
    /\ r.t \in Raise => /\ g.t = "UPGRADE_REP" /\ (g.d <=> r.n \notin e.sharers)
                        /\ f.owner = r.n /\ f.sharers = {}

LEMMA GrantFacts ==
    ASSUME Types, NEW a \in Addrs, DirReply(a)
    PROVE  LET e == dir[a]
               r == Head(e.q)
           IN /\ e.q # <<>> /\ Targets(e, r) = {} /\ r.t \in Requests /\ r.n \in Nodes
              /\ UNCHANGED <<stack, toDir>> /\ \A x \in Addrs \ {a} : dir'[x] = dir[x]
              /\ \A k \in Nodes \ {r.n} : toCache'[k] = toCache[k]
              /\ \E g \in ToCache : /\ g.a = a /\ toCache'[r.n] = Append(toCache[r.n], g)
                                    /\ Granting(r, e, dir'[a], g)
<1> DEFINE e == dir[a]
           r == Head(e.q)
           own == [e EXCEPT !.owner = r.n, !.sharers = {}, !.q = Tail(@), !.asked = {}]
           share == [e EXCEPT !.sharers = @ \cup {r.n}, !.q = Tail(@), !.asked = {}]
<1>1. ChannelsOK
  BY Zenon DEF Types
<1>2. /\ e.q # <<>> /\ Targets(e, r) = {}
      /\ UNCHANGED <<cfg, cacheVars, userVars, toDir, dram, failed>>
      /\ \E m \in ToCache :
                    /\ toCache' = [toCache EXCEPT ![r.n] = Append(@, m)] /\ m.a = a
                    /\ \/ r.t = "SH_REQ" /\ m.t = "SH_REP" /\ dir' = [dir EXCEPT ![a] = share]
                       \/ r.t = "SH_REQ" /\ m.t = "EX_REP" /\ e.sharers = {}
                             /\ dir' = [dir EXCEPT ![a] = own]
                       \/ r.t = "EX_REQ" /\ m.t = "EX_REP" /\ dir' = [dir EXCEPT ![a] = own]
                       \/ r.t = "UPGRADE_REQ" /\ m.t = "UPGRADE_REP" /\ (m.d <=> r.n \notin e.sharers)
                             /\ dir' = [dir EXCEPT ![a] = own]
  BY <1>1, DirReplyParts, Zenon
<1>3. r.t \in Requests /\ r.n \in Nodes /\ e \in Entry
  BY <1>1, <1>2, FirstRequest
<1>4. DOMAIN dir = Addrs /\ DOMAIN toCache = Nodes
  BY <1>1 DEF ChannelsOK
<1>5. UNCHANGED <<stack, toDir>>
  BY <1>2 DEF cacheVars
<1> HIDE DEF r, own, share
<1>6. PICK g \in ToCache :
                    /\ toCache' = [toCache EXCEPT ![r.n] = Append(@, g)] /\ g.a = a
                    /\ \/ r.t = "SH_REQ" /\ g.t = "SH_REP" /\ dir' = [dir EXCEPT ![a] = share]
                       \/ r.t = "SH_REQ" /\ g.t = "EX_REP" /\ e.sharers = {}
                             /\ dir' = [dir EXCEPT ![a] = own]
                       \/ r.t = "EX_REQ" /\ g.t = "EX_REP" /\ dir' = [dir EXCEPT ![a] = own]
                       \/ r.t = "UPGRADE_REQ" /\ g.t = "UPGRADE_REP" /\ (g.d <=> r.n \notin e.sharers)
                             /\ dir' = [dir EXCEPT ![a] = own]
  BY <1>2
<1>7. /\ \A x \in Addrs \ {a} : dir'[x] = dir[x]
      /\ \A k \in Nodes \ {r.n} : toCache'[k] = toCache[k]
      /\ toCache'[r.n] = Append(toCache[r.n], g)
  BY <1>3, <1>4, <1>6
<1>8. /\ own.owner = r.n /\ own.sharers = {} /\ own.q = Tail(e.q) /\ own.asked = {}
      /\ share.owner = e.owner /\ share.sharers = e.sharers \cup {r.n} /\ share.q = Tail(e.q)
      /\ share.asked = {}
  BY <1>3 DEF own, share, Entry
<1>9. \/ r.t = "SH_REQ" /\ g.t = "SH_REP" /\ dir'[a] = share
      \/ r.t = "SH_REQ" /\ g.t = "EX_REP" /\ e.sharers = {} /\ dir'[a] = own
      \/ r.t = "EX_REQ" /\ g.t = "EX_REP" /\ dir'[a] = own
      \/ r.t = "UPGRADE_REQ" /\ g.t = "UPGRADE_REP" /\ (g.d <=> r.n \notin e.sharers) /\ dir'[a] = own
  BY <1>4, <1>6
<1> HIDE DEF e
<1>10. Granting(r, e, dir'[a], g)
  BY <1>8, <1>9 DEF Granting, Rep, Fetch, Raise
<1> QED
  BY <1>2, <1>3, <1>5, <1>6, <1>7, <1>10, Zenon DEF e, r

\* Nobody but the requester stands in the way of a request that is answered.
LEMMA GrantTargets ==
    ASSUME NEW e, NEW r, NEW f, NEW g, Targets(e, r) = {}, r.t \in Requests, r.n \in Nodes, e \in Entry,
           EntryOK(e), r = Head(e.q), Granting(r, e, f, g), None \notin Nodes
    PROVE  /\ e.asked = {} /\ f.asked = {}
           /\ r.t \in Fetch => e.owner = None
           /\ r.t = "EX_REQ" => e.sharers = {}
           /\ \A k \in Nodes \ {r.n} : SameEntry(k, e, f)
           /\ EntryOK(f)
<1>1. e.asked = {} /\ f.asked = {}
  BY DEF EntryOK, Granting
<1>2. r.t = "SH_REQ" \/ r.t = "EX_REQ" \/ r.t = "UPGRADE_REQ"
  BY DEF Requests
<1>3. r.t \in Fetch => e.owner = None
  BY DEF Targets, Owner, Fetch
<1>4. r.t = "EX_REQ" => e.sharers = {}
  BY DEF Targets
<1>5. r.t = "UPGRADE_REQ" => \A k \in Nodes \ {r.n} : e.owner # k /\ k \notin e.sharers
  BY DEF Targets, Owner
<1>6. ASSUME NEW k \in Nodes \ {r.n}
      PROVE  SameEntry(k, e, f)
  <2>1. CASE r.t \in Raise
    BY <1>1, <1>5, <1>6, <2>1 DEF Granting, SameEntry, Raise
  <2>2. CASE r.t \in Fetch
    <3>1. CASE g.t = "SH_REP"
      BY <1>1, <1>6, <2>2, <3>1 DEF Granting, SameEntry
    <3>2. CASE g.t = "EX_REP"
      <4>1. f.owner = r.n /\ f.sharers = {} /\ (r.t # "EX_REQ" => e.sharers = {})
        BY <2>2, <3>2 DEF Granting
      <4> QED
        BY <1>1, <1>3, <1>4, <1>6, <2>2, <4>1 DEF SameEntry
    <3> QED
      BY <2>2, <3>1, <3>2 DEF Granting
  <2> QED
    BY <1>2, <2>1, <2>2 DEF Raise, Fetch
<1>7. EntryOK(f)
  <2>1. CASE r.t \in Raise
    BY <1>1, <2>1 DEF Granting, EntryOK
  <2>2. CASE r.t \in Fetch
    BY <1>1, <1>3, <2>2 DEF Granting, EntryOK
  <2> QED
    BY <1>2, <2>1, <2>2 DEF Raise, Fetch
<1> QED
  BY <1>1, <1>3, <1>4, <1>6, <1>7

LEMMA ReplyEntries ==
    ASSUME Types, EntryInv, NEW a \in Addrs, DirReply(a)
    PROVE  EntryInv'
<1> DEFINE e == dir[a]
           f == dir'[a]
           r == Head(e.q)
<1>1. /\ Targets(e, r) = {} /\ r.t \in Requests /\ r.n \in Nodes
      /\ (\A x \in Addrs \ {a} : dir'[x] = dir[x]) /\ \E g : Granting(r, e, f, g)
  BY GrantFacts
<1>2. e \in Entry /\ EntryOK(e) /\ None \notin Nodes /\ r = Head(e.q)
  BY CacheAssumption DEF EntryInv, Types, ChannelsOK
<1> HIDE DEF e, f, r
<1>3. EntryOK(f)
  BY <1>1, <1>2, GrantTargets
<1> QED
  BY <1>1, <1>3, EntriesNext DEF EntryInv, f

LEMMA DirReplyLines ==
    ASSUME Types, TransactionInv, Lines, EntryInv, NEW a \in Addrs, DirReply(a)
    PROVE  \A k \in Nodes, x \in Addrs : NextLine(k, x)
<1> SUFFICES ASSUME NEW k \in Nodes, NEW x \in Addrs PROVE NextLine(k, x)
  OBVIOUS
<1> DEFINE e == dir[a]
           f == dir'[a]
           dq == e.q
           r == Head(dq)
           n == r.n
           R == [t : Requests, n : Nodes]
           q == toCache[n]
<1>1. /\ dq # <<>> /\ Targets(e, r) = {} /\ r.t \in Requests /\ n \in Nodes
      /\ UNCHANGED <<stack, toDir>> /\ (\A y \in Addrs \ {a} : dir'[y] = dir[y])
      /\ \A l \in Nodes \ {n} : toCache'[l] = toCache[l]
  BY GrantFacts
<1>2. PICK g \in ToCache : g.a = a /\ toCache'[n] = Append(q, g) /\ Granting(r, e, f, g)
  BY GrantFacts
<1>3. /\ Line(k, x) /\ e \in Entry /\ EntryOK(e) /\ None \notin Nodes /\ dq \in Seq(R) /\ q \in Seq(ToCache)
      /\ r = Head(dq)
  BY <1>1, ChannelTypes, CacheAssumption DEF Lines, EntryInv, Types, ChannelsOK
<1>4. Quiet(Td(k, x), View(toDir'[k], x)) /\ Kept(stack[k].llc[x].s, stack'[k].llc[x].s)
  BY <1>1, EqualSame, SameQuiet DEF Td, Kept
<1> HIDE DEF e, f, dq, r, n, R, q
<1>5. /\ e.asked = {} /\ f.asked = {} /\ f.q = Tail(dq)
      /\ r.t \in Fetch => e.owner = None
      /\ \A l \in Nodes \ {n} : SameEntry(l, e, f)
  BY <1>1, <1>2, <1>3, GrantTargets DEF Granting, n, dq
<1>6. CASE x # a
  <2>1. Quiet(Qs(k, x), QueueView(dir'[x].q, k)) /\ SameEntry(k, dir[x], dir'[x])
    BY <1>1, <1>6, EqualSame, EqualEntry, SameQuiet DEF Qs
  <2>2. Same(Tc(k, x), View(toCache'[k], x))
    <3>1. CASE k # n
      BY <1>1, <3>1, EqualSame DEF Tc
    <3>2. CASE k = n
      BY <1>2, <1>3, <1>6, <3>2, AppendSame DEF Tc, q
    <3> QED
      BY <3>1, <3>2
  <2> QED
    BY <1>3, <1>4, <2>1, <2>2, SameQuiet, LineStays
<1>7. CASE x = a /\ k # n
  <2>1. Same(Tc(k, x), View(toCache'[k], x)) /\ SameEntry(k, dir[x], dir'[x])
    BY <1>1, <1>5, <1>7, EqualSame DEF Tc, e, f
  <2>2. Quiet(QueueView(dq, k), QueueView(Tail(dq), k))
    <3>1. Head(dq).n # k
      BY <1>7 DEF r, n
    <3> QED
      BY <1>1, <1>3, <3>1, TailQuiet
  <2>3. Quiet(Qs(k, x), QueueView(dir'[x].q, k))
    BY <1>5, <1>7, <2>2 DEF Qs, dq, e, f
  <2> QED
    BY <1>3, <1>4, <1>7, <2>1, <2>3, SameQuiet, LineStays
<1>8. CASE x = a /\ k = n
  <2> DEFINE s == stack[n].llc[a].s
             tc == Tc(n, a)
             tc2 == View(toCache'[n], a)
             td == Td(n, a)
             qs == Qs(n, a)
             qs2 == QueueView(f.q, n)
             t == KindOf(g)
  <2>1. LineOK(n, s, tc, td, qs, e)
    BY <1>3, <1>8 DEF Line, e
  <2>2. Ends(tc, tc2, t)
    <3>1. Ends(View(q, a), View(Append(q, g), a), KindOf(g))
      BY <1>2, <1>3, ViewOfAppend
    <3> QED
      BY <1>2, <3>1 DEF Tc, q
  <2>3. qs[1] = r.t /\ Moved(qs, qs2)
    <3>1. /\ Moved(QueueView(dq, n), QueueView(Tail(dq), n))
          /\ QueueView(dq, n)[1] = IF Head(dq).n = n THEN Head(dq).t ELSE "none"
      BY <1>1, <1>3, QueueOfTail
    <3> QED
      BY <1>5, <3>1 DEF Qs, dq, e, r, n
  <2>4. First(tc, td, qs)
    BY <1>1, <2>3, OneUnderWay
  <2>5. s = stack'[n].llc[a].s /\ td = View(toDir'[n], a)
    BY <1>1 DEF Td
  <2>6. g \in Message
    BY DEF ToCache
  <2> HIDE DEF s, tc, tc2, td, qs, qs2, t
  <2>7. LineOK(n, s, tc2, td, qs2, f)
    <3>1. CASE r.t \in Fetch
      <4>1. \/ t = "SH_REP" /\ n \in f.sharers /\ f.owner # n
            \/ t = "EX_REP" /\ f.owner = n
        <5>1. CASE g.t = "SH_REP"
          <6>1. f.owner = e.owner /\ n \in f.sharers
            BY <1>2, <3>1, <5>1 DEF Granting, n
          <6> QED
            BY <1>1, <1>3, <1>5, <2>6, <3>1, <5>1, <6>1, KindFacts DEF t
        <5>2. CASE g.t = "EX_REP"
          BY <1>2, <2>6, <3>1, <5>2, KindFacts DEF Granting, n, t
        <5> QED
          BY <1>2, <3>1, <5>1, <5>2 DEF Granting
      <4> QED
        BY <2>1, <2>2, <2>3, <2>4, <3>1, <4>1, FetchAnswered
    <3>2. CASE r.t \in Raise
      <4>1. g.t = "UPGRADE_REP" /\ (g.d <=> n \notin e.sharers) /\ f.owner = n
        BY <1>2, <3>2 DEF Granting, n
      <4>2. t = IF n \in e.sharers THEN "UPGRADE_REP" ELSE "UPGRADE_DATA"
        BY <4>1 DEF t, KindOf
      <4>3. n \notin e.asked
        BY <1>5
      <4> QED
        BY <2>1, <2>2, <2>3, <2>4, <3>2, <4>1, <4>2, <4>3, RaiseAnswered
    <3> QED
      BY <1>1, <3>1, <3>2, KindsApart
  <2>8. NextLine(n, a)
    BY <2>5, <2>7 DEF NextLine, tc2, qs2, f
  <2> QED
    BY <1>8, <2>8
<1> QED
  BY <1>6, <1>7, <1>8

-----------------------------------------------------------------------------
(* The network thread's steps                                              *)

\* Nothing, or one eviction message.
Evicting(ms) == ms = <<>> \/ \E g \in ToDir : g.t \in Gone /\ ms = <<g>>

LEMMA TwoSends ==
    ASSUME NEW q \in Seq(ToDir), NEW ms, Evicting(ms), NEW u \in ToDir
    PROVE  q \o ms \in Seq(ToDir) /\ q \o (ms \o <<u>>) = Append(q \o ms, u)
<1>1. CASE ms = <<>>
  BY <1>1
<1>2. CASE \E g \in ToDir : g.t \in Gone /\ ms = <<g>>
  BY <1>2
<1> QED
  BY <1>1, <1>2 DEF Evicting

LEMMA UpgradeRequest ==
    ASSUME NEW a \in Addrs
    PROVE  LET u == Msg("UPGRADE_REQ", a, FALSE, FALSE) IN
           u \in ToDir /\ u.a = a /\ KindOf(u) = "UPGRADE_REQ"
BY DEF Msg, ToDir, Message, MsgTypes, Requests, KindOf

\* The waiters' loop on another line: the eviction message goes out.
LEMMA WokenOther ==
    ASSUME Types, NEW n \in Nodes, NEW a \in Addrs, NEW st, NEW ws, NEW ms, Evicting(ms),
           Woken(n, a, st, ws, ms), NEW x \in Addrs, x # a
    PROVE  /\ stack'[n].llc[x].s = st.llc[x].s
           /\ Same(View(toDir[n] \o ms, x), View(toDir'[n], x))
<1> DEFINE u == Msg("UPGRADE_REQ", a, FALSE, FALSE)
           q == toDir[n]
           p == q \o ms
<1>1. q \in Seq(ToDir) /\ u \in ToDir /\ u.a # x
  BY ChannelTypes, UpgradeRequest
<1>2. toDir'[n] = p \/ toDir'[n] = q \o (ms \o <<u>>)
  BY DEF Woken
<1> HIDE DEF u, q
<1>3. p \in Seq(ToDir) /\ q \o (ms \o <<u>>) = Append(p, u)
  BY <1>1, TwoSends
<1> HIDE DEF p
<1>4. Same(View(p, x), View(toDir'[n], x))
  BY <1>1, <1>2, <1>3, AppendSame, EqualSame
<1>5. stack'[n].llc[x].s = st.llc[x].s
  BY DEF Woken
<1> QED
  BY <1>4, <1>5 DEF p, q

\* ... and on its own line: an upgrade is sent for a writer whose line is SHARED.
LEMMA WokenLine ==
    ASSUME Types, NEW n \in Nodes, NEW a \in Addrs, NEW st, NEW ws, NEW ms, Evicting(ms),
           Woken(n, a, st, ws, ms), NEW tc, NEW qs, NEW e,
           LineOK(n, st.llc[a].s, tc, View(toDir[n] \o ms, a), qs, e),
           Unasked(tc, View(toDir[n] \o ms, a), qs)
    PROVE  LineOK(n, stack'[n].llc[a].s, tc, View(toDir'[n], a), qs, e)
<1> DEFINE u == Msg("UPGRADE_REQ", a, FALSE, FALSE)
           q == toDir[n]
           p == q \o ms
           again == ws # <<>> /\ NeedsUpgrade(ws[1], st.llc[a])
           s == st.llc[a].s
           s2 == stack'[n].llc[a].s
           td == View(p, a)
           td2 == View(toDir'[n], a)
<1>1. q \in Seq(ToDir) /\ u \in ToDir /\ u.a = a /\ KindOf(u) = "UPGRADE_REQ"
  BY ChannelTypes, UpgradeRequest
<1>2. toDir'[n] = IF again THEN q \o (ms \o <<u>>) ELSE p
  BY DEF Woken
<1>3. s2 = (IF again THEN "u" ELSE s) /\ (again => s = "S")
  BY DEF Woken, NeedsUpgrade
<1>4. LineOK(n, s, tc, td, qs, e) /\ Unasked(tc, td, qs)
  OBVIOUS
<1> HIDE DEF u, q
<1>5. p \in Seq(ToDir) /\ q \o (ms \o <<u>>) = Append(p, u)
  BY <1>1, TwoSends
<1> HIDE DEF p
<1>6. again => Ends(td, td2, "UPGRADE_REQ")
  <2>1. Ends(View(p, a), View(Append(p, u), a), KindOf(u))
    BY <1>1, <1>5, ViewOfAppend
  <2> QED
    BY <1>1, <1>2, <1>5, <2>1
<1>7. ~again => td2 = td
  BY <1>2
<1> HIDE DEF again, s, s2, td, td2
<1>8. LineOK(n, s2, tc, td2, qs, e)
  <2>1. CASE again
    <3>1. "UPGRADE_REQ" \in Raise /\ s2 = "u" /\ LineOK(n, "S", tc, td, qs, e)
      BY <1>3, <1>4, <2>1 DEF Raise
    <3> QED
      BY <1>4, <1>6, <2>1, <3>1, RaiseSent
  <2>2. CASE ~again
    BY <1>3, <1>4, <1>7, <2>2
  <2> QED
    BY <2>1, <2>2
<1> QED
  BY <1>8 DEF s2, td2

LEMMA ResumeLines ==
    ASSUME Types, NetInv, TransactionInv, Lines, NEW n \in Nodes, ResumeWaiters(n)
    PROVE  \A k \in Nodes, x \in Addrs : NextLine(k, x)
<1> SUFFICES ASSUME NEW k \in Nodes, NEW x \in Addrs PROVE NextLine(k, x)
  OBVIOUS
<1> DEFINE a == net[n].a
           ws == Tail(waiters[n][a])
<1>1. net[n].pc = "signalled" /\ toCache' = toCache /\ dir' = dir
  BY DEF ResumeWaiters, dirVars
<1>2. a \in Addrs /\ a = net[n].a
  BY <1>1 DEF NetInv, Types, ThreadsOK
<1>3. Woken(n, a, stack[n], ws, <<>>) /\ Evicting(<<>>)
  BY ResumeDataFacts DEF Evicting
<1>4. Line(k, x) /\ toDir[n] \o <<>> = toDir[n]
  <2>1. toDir[n] \in Seq(ToDir)
    BY ChannelTypes
  <2> DEFINE q == toDir[n]
  <2>2. q \in Seq(ToDir)
    BY <2>1
  <2> HIDE DEF q
  <2>3. q \o <<>> = q
    BY <2>2
  <2> QED
    BY <2>3 DEF q, Lines
<1> HIDE DEF a, ws
<1>5. /\ Quiet(Tc(k, x), View(toCache'[k], x)) /\ Quiet(Qs(k, x), QueueView(dir'[x].q, k))
      /\ SameEntry(k, dir[x], dir'[x])
  BY <1>1, EqualSame, EqualEntry, SameQuiet DEF Tc, Qs
<1>6. CASE k # n \/ x # a
  <2>1. stack'[k].llc[x].s = stack[k].llc[x].s /\ Same(Td(k, x), View(toDir'[k], x))
    <3>1. CASE k # n
      <4>1. stack'[k] = stack[k] /\ toDir'[k] = toDir[k]
        BY <1>3, <3>1 DEF Woken
      <4> QED
        BY <4>1, EqualSame DEF Td
    <3>2. CASE k = n /\ x # a
      <4> DEFINE ms == <<>>
      <4>1. Woken(n, a, stack[n], ws, ms) /\ Evicting(ms) /\ toDir[n] \o ms = toDir[n]
        BY <1>3, <1>4
      <4> HIDE DEF ms
      <4>2. /\ stack'[n].llc[x].s = stack[n].llc[x].s
            /\ Same(View(toDir[n] \o ms, x), View(toDir'[n], x))
        BY <1>2, <3>2, <4>1, WokenOther
      <4> QED
        BY <3>2, <4>1, <4>2 DEF Td
    <3> QED
      BY <1>6, <3>1, <3>2
  <2> QED
    BY <1>4, <1>5, <2>1, SameQuiet, LineStays DEF Kept
<1>7. CASE k = n /\ x = a
  <2> DEFINE tc == Tc(n, a)
             qs == Qs(n, a)
             e == dir[a]
  <2>1. LineOK(n, stack[n].llc[a].s, tc, View(toDir[n] \o <<>>, a), qs, e)
    BY <1>4, <1>7 DEF Line, Td
  <2>2. Unasked(tc, View(toDir[n] \o <<>>, a), qs)
    <3>1. Unasked(Tc(n, a), Td(n, a), Qs(n, a))
      BY <1>2, OneUnderWay
    <3> QED
      BY <1>4, <3>1 DEF Td
  <2>3. tc = View(toCache'[n], a) /\ qs = QueueView(dir'[a].q, n) /\ e = dir'[a]
    BY <1>1 DEF Tc, Qs
  <2> HIDE DEF tc, qs, e
  <2>4. LineOK(n, stack'[n].llc[a].s, tc, View(toDir'[n], a), qs, e)
    BY <1>2, <1>3, <2>1, <2>2, WokenLine
  <2>5. NextLine(n, a)
    BY <2>3, <2>4 DEF NextLine
  <2> QED
    BY <1>7, <2>5
<1> QED
  BY <1>6, <1>7

-----------------------------------------------------------------------------
LEMMA HandleReqLines ==
    ASSUME Types, ErrInv, failed = "no", Lines, NEW n \in Nodes, HandleReq(n)
    PROVE  \A k \in Nodes, x \in Addrs : NextLine(k, x)
<1> SUFFICES ASSUME NEW k \in Nodes, NEW x \in Addrs PROVE NextLine(k, x)
  BY Zenon
<1> DEFINE q == toCache[n]
           m == Head(q)
           a == m.a
<1>1. /\ q # <<>> /\ m.t \in {"INV_REQ", "FLUSH_REQ", "WB_REQ"} /\ toCache' = [toCache EXCEPT ![n] = Tail(@)]
      /\ dir' = dir
  BY Zenon DEF HandleReq, dirVars
<1>2. m \in ToCache /\ a \in Addrs /\ q \in Seq(ToCache) /\ StacksOK /\ ChannelsOK /\ cfg \in Configs
      /\ failed \in Errors
  BY <1>1, HeadOfChannel, ChannelTypes DEF Types, ThreadsOK
<1>3. Answered(n, m)
  BY <1>2, HandleReqFacts DEF ErrInv
<1>4. toCache'[n] = Tail(q) /\ \A l \in Nodes \ {n} : toCache'[l] = toCache[l]
  BY <1>1 DEF Types, ChannelsOK
<1>5. KindOf(m) = m.t /\ m.t \in Ask
  BY <1>1 DEF KindOf, Ask
<1>6. Line(k, x) /\ toDir[n] \in Seq(ToDir)
  BY ChannelTypes DEF Lines
<1>7. Quiet(Qs(k, x), QueueView(dir'[x].q, k)) /\ SameEntry(k, dir[x], dir'[x])
  BY <1>1, EqualSame, EqualEntry, SameQuiet DEF Qs
<1>8. /\ Moved(View(q, a), View(Tail(q), a)) /\ View(q, a)[1] = m.t
      /\ x # a => Quiet(View(q, x), View(Tail(q), x))
  <2> HIDE DEF q
  <2>1. Moved(View(q, a), View(Tail(q), a)) /\ View(q, a)[1] = IF Head(q).a = a THEN KindOf(Head(q)) ELSE "none"
    BY <1>1, <1>2, ViewOfTail
  <2>2. x # a => Quiet(View(q, x), View(Tail(q), x))
    BY <1>1, <1>2, TailQuiet
  <2> QED
    BY <1>5, <2>1, <2>2
<1> HIDE DEF m, a
<1>9. CASE k # n
  <2>1. stack'[k] = stack[k] /\ toDir'[k] = toDir[k] /\ toCache'[k] = toCache[k]
    BY <1>3, <1>4, <1>9 DEF Answered
  <2>2. Quiet(Tc(k, x), View(toCache'[k], x)) /\ Quiet(Td(k, x), View(toDir'[k], x))
    BY <2>1, EqualSame, SameQuiet DEF Tc, Td
  <2> QED
    BY <1>6, <1>7, <2>1, <2>2, LineStays DEF Kept
<1> DEFINE s == stack[n].llc[a].s
<1>10. CASE k = n /\ x # a
  <2>1. Quiet(Tc(k, x), View(toCache'[k], x))
    BY <1>4, <1>8, <1>10 DEF Tc, q
  <2>2. Same(Td(k, x), View(toDir'[k], x)) /\ stack'[k].llc[x].s = stack[k].llc[x].s
    <3>1. CASE s = "I"
      <4>1. stack'[n] = stack[n] /\ toDir'[n] = toDir[n]
        BY <1>3, <3>1 DEF Answered, a
      <4> QED
        BY <1>10, <4>1, EqualSame DEF Td
    <3>2. CASE s # "I"
      <4>1. PICK rep \in ToDir : rep.a = m.a /\ toDir'[n] = Append(toDir[n], rep)
        BY <1>3, <3>2 DEF Answered, a
      <4>2. Same(View(toDir[n], x), View(Append(toDir[n], rep), x))
        <5>1. rep.a # x
          BY <1>10, <4>1 DEF a
        <5> QED
          BY <1>6, <5>1, AppendSame
      <4>3. stack'[n].llc[x].s = stack[n].llc[x].s
        BY <1>3, <1>10, <3>2 DEF Answered, a, UpdatedLLC
      <4> QED
        BY <1>10, <4>1, <4>2, <4>3 DEF Td
    <3> QED
      BY <3>1, <3>2
  <2> QED
    BY <1>6, <1>7, <2>1, <2>2, SameQuiet, LineStays DEF Kept
<1>11. CASE k = n /\ x = a
  <2> DEFINE tc == Tc(n, a)
             tc2 == View(toCache'[n], a)
             td == Td(n, a)
             td2 == View(toDir'[n], a)
             qs == Qs(n, a)
             e == dir[a]
             s2 == stack'[n].llc[a].s
  <2>1. LineOK(n, s, tc, td, qs, e)
    BY <1>6, <1>11 DEF Line
  <2>2. tc[1] = m.t /\ Moved(tc, tc2)
    BY <1>4, <1>8 DEF Tc, q
  <2>3. s = "I" => s2 = "I" /\ td2 = td
    <3> SUFFICES ASSUME s = "I" PROVE s2 = "I" /\ td2 = td
      OBVIOUS
    <3>1. stack'[n] = stack[n] /\ toDir'[n] = toDir[n]
      BY <1>3 DEF Answered, a
    <3> QED
      BY <3>1 DEF Td
  <2>4. s # "I" => Ends(td, td2, IF m.t = "WB_REQ" THEN "WB_REP"
                                 ELSE IF m.t = "FLUSH_REQ" THEN "FLUSH_REP" ELSE "INV_REP")
    <3> SUFFICES ASSUME s # "I"
                 PROVE  Ends(td, td2, IF m.t = "WB_REQ" THEN "WB_REP"
                                      ELSE IF m.t = "FLUSH_REQ" THEN "FLUSH_REP" ELSE "INV_REP")
      OBVIOUS
    <3> DEFINE t == IF m.t = "WB_REQ" THEN "WB_REP"
                    ELSE IF m.t = "FLUSH_REQ" THEN "FLUSH_REP" ELSE "INV_REP"
    <3>1. PICK rep \in ToDir : rep.a = m.a /\ toDir'[n] = Append(toDir[n], rep) /\ rep.t = t
      BY <1>3 DEF Answered, a
    <3>2. KindOf(rep) = t
      BY <3>1 DEF KindOf
    <3>3. Ends(View(toDir[n], a), View(Append(toDir[n], rep), a), KindOf(rep))
      BY <1>6, <3>1, ViewOfAppend DEF a
    <3> QED
      BY <3>1, <3>2, <3>3 DEF Td
  <2>5. s # "I" /\ ~(m.t = "WB_REQ" /\ s = "u") => s2 = IF m.t = "WB_REQ" THEN "S" ELSE "I"
    BY <1>2, <1>3 DEF Answered, UpdatedLLC, a
  <2>6. qs = QueueView(dir'[a].q, n) /\ e = dir'[a]
    BY <1>1 DEF Qs
  <2> HIDE DEF s, tc, tc2, td, td2, qs, e, s2
  <2>7. LineOK(n, s2, tc2, td2, qs, e)
    <3>1. CASE s = "I"
      BY <1>5, <2>1, <2>2, <2>3, <3>1, AskMissed
    <3>2. CASE s # "I" /\ m.t = "WB_REQ"
      <4>1. s \in {"E", "M"}
        BY <1>5, <2>1, <2>2, <3>2, AskFound
      <4>2. s2 = "S" /\ Ends(td, td2, "WB_REP") /\ "WB_REP" \in Wb
        BY <2>4, <2>5, <3>2, <4>1 DEF Wb
      <4> QED
        BY <2>1, <2>2, <3>2, <4>2, CopyShared
    <3>3. CASE s # "I" /\ m.t # "WB_REQ"
      <4>1. PICK t \in Gone : Ends(td, td2, t)
        BY <2>4, <3>3 DEF Gone
      <4>2. s2 = "I"
        BY <2>5, <3>3
      <4> QED
        BY <1>5, <2>1, <2>2, <3>3, <4>1, <4>2, CopyLost
    <3> QED
      BY <3>1, <3>2, <3>3
  <2>8. NextLine(n, a)
    BY <2>6, <2>7 DEF NextLine, tc2, td2, s2
  <2> QED
    BY <1>11, <2>8
<1> QED
  BY <1>9, <1>10, <1>11

\* The LLC states after reply m is taken in st and line v evicted for it.
ReplyTaken(st, m, v, llc) ==
    /\ llc[m.a].s = IF m.t = "SH_REP" THEN "S" ELSE IF m.t = "EX_REP" THEN "E" ELSE "M"
    /\ \A x \in Addrs \ {m.a} : llc[x].s = IF x = v THEN "I" ELSE st.llc[x].s
    /\ v # None => st.llc[v].s \in {"S", "E", "M"}

\* A reply that is taken without an error, and the line evicted for it.
LEMMA TakenFacts ==
    ASSUME ~cfg.direct, NEW n \in Nodes, NEW st, NEW m, m.a \in Addrs, NEW v \in Addrs \cup {None}, v # m.a,
           m.t = "UPGRADE_REP" => v = None, m.t \in Rep, NEW r, Replied(n, st, m, v, r), r.err = "no",
           None \notin Addrs
    PROVE  ReplyTaken(st, m, v, r.llc)
<1> DEFINE a == m.a
<1>1. CASE m.t \in {"EX_REP", "SH_REP"}
  <2>1. PICK cell \in Cell : /\ cell.s = IF m.t = "EX_REP" THEN "E" ELSE "S"
                             /\ InsertedLLC(n, st, a, cell, v, r)
    BY <1>1 DEF Replied
  <2> HIDE DEF a
  <2>2. st.err = "no" /\ st.llc[a].s = "I"
    BY <2>1 DEF InsertedLLC
  <2>3. v = None \/ st.llc[v].s \in {"S", "E", "M"}
    BY <2>1, <2>2 DEF InsertedLLC
  <2>4. \A x \in Addrs : r.llc[x].s = IF x = a THEN cell.s ELSE IF x = v THEN "I" ELSE st.llc[x].s
    BY <2>1 DEF InsertedLLC
  <2> QED
    BY <1>1, <2>1, <2>3, <2>4 DEF a, ReplyTaken
<1>2. CASE m.t = "UPGRADE_REP"
  <2>1. st.llc[a].s = "u"
    BY <1>2 DEF Replied
  <2>2. \A x \in Addrs : r.llc[x].s = IF x = a /\ st.llc[a].s # "I" THEN "M" ELSE st.llc[x].s
    BY <1>2 DEF Replied
  <2> QED
    BY <1>2, <2>1, <2>2 DEF ReplyTaken
<1> QED
  BY <1>1, <1>2 DEF Rep

LEMMA HandleRepLines ==
    ASSUME Types, TransactionInv, Lines, ~cfg.direct, NEW n \in Nodes, HandleRep(n), failed' = "no"
    PROVE  \A l \in Nodes, x \in Addrs : NextLine(l, x)
<1> SUFFICES ASSUME NEW l \in Nodes, NEW x \in Addrs PROVE NextLine(l, x)
  OBVIOUS
<1> DEFINE q == toCache[n]
           m == Head(q)
           a == m.a
           st == stack[n]
           ws == waiters[n][a]
<1>1. q # <<>> /\ toCache' = [toCache EXCEPT ![n] = Tail(@)] /\ dir' = dir
  BY DEF HandleRep, dirVars
<1>2. m \in ToCache /\ a \in Addrs /\ q \in Seq(ToCache) /\ st \in Stack(n) /\ cfg \in Configs
      /\ None \notin Addrs /\ m \in Message
  BY <1>1, HeadOfChannel, ChannelTypes, CacheAssumption DEF Types, ThreadsOK, StacksOK, ToCache
<1>3. RepData(n)
  BY RepDataFacts
<1>4. PICK v \in Addrs \cup {None}, r \in Stack(n), k \in Stack(n) :
       /\ v # a /\ (m.t = "UPGRADE_REP" => v = None) /\ m.t \in Rep
       /\ Replied(n, st, m, v, r) /\ k.l1 = r.l1 /\ k.llc = r.llc
       /\ k.err = "no" <=> r.err = "no" /\ ws # <<>>
       /\ Woken(n, a, k, ws, EvictMsgs(st, v))
  BY <1>3 DEF RepData
<1> DEFINE ms == EvictMsgs(st, v)
           td1(y) == View(toDir[n] \o ms, y)
<1>5. toCache'[n] = Tail(q) /\ \A i \in Nodes \ {n} : toCache'[i] = toCache[i]
  BY <1>1 DEF Types, ChannelsOK
<1>6. Line(l, x) /\ toDir[n] \in Seq(ToDir)
  BY ChannelTypes DEF Lines
<1>7. Quiet(Qs(l, x), QueueView(dir'[x].q, l)) /\ SameEntry(l, dir[x], dir'[x])
  BY <1>1, EqualSame, EqualEntry, SameQuiet DEF Qs
<1>8. /\ Moved(View(q, a), View(Tail(q), a)) /\ View(q, a)[1] = KindOf(m) /\ KindOf(m) \in Answer
      /\ x # a => Quiet(View(q, x), View(Tail(q), x))
  <2> HIDE DEF q
  <2>1. Moved(View(q, a), View(Tail(q), a)) /\ View(q, a)[1] = IF Head(q).a = a THEN KindOf(Head(q)) ELSE "none"
    BY <1>1, <1>2, ViewOfTail
  <2>2. x # a => Quiet(View(q, x), View(Tail(q), x))
    BY <1>1, <1>2, TailQuiet
  <2>3. KindOf(m) \in Answer
    BY <1>2, <1>4, KindFacts
  <2> QED
    BY <2>1, <2>2, <2>3
<1>9. r.err = "no"
  BY <1>4 DEF Woken
<1> HIDE DEF m, a, ws
<1>10. /\ k.llc[a].s = IF m.t = "SH_REP" THEN "S" ELSE IF m.t = "EX_REP" THEN "E" ELSE "M"
       /\ \A y \in Addrs \ {a} : k.llc[y].s = IF y = v THEN "I" ELSE st.llc[y].s
       /\ v # None => st.llc[v].s \in {"S", "E", "M"}
  <2>1. m.a \in Addrs /\ v # m.a /\ (m.t = "UPGRADE_REP" => v = None) /\ m.t \in Rep
        /\ Replied(n, st, m, v, r) /\ r.err = "no" /\ None \notin Addrs
    BY <1>2, <1>4, <1>9 DEF a
  <2> HIDE DEF st
  <2>2. ReplyTaken(st, m, v, r.llc)
    BY <2>1, TakenFacts
  <2> QED
    BY <1>4, <2>2 DEF a, ReplyTaken
<1>11. /\ v = None => ms = <<>>
       /\ v # None => \E g \in ToDir : ms = <<g>> /\ g.a = v /\ g.t \in Gone
  BY <1>2, EvictFacts
<1>12. Evicting(ms)
  BY <1>11 DEF Evicting
<1>13. Woken(n, a, k, ws, ms)
  BY <1>4
<1> HIDE DEF ms, st
<1>14. \A y \in Addrs : /\ y # v => Same(Td(n, y), td1(y))
                        /\ y = v => \E t \in Gone : Ends(Td(n, y), td1(y), t)
  <2> SUFFICES ASSUME NEW y \in Addrs
               PROVE  /\ y # v => Same(Td(n, y), td1(y))
                      /\ y = v => \E t \in Gone : Ends(Td(n, y), td1(y), t)
    OBVIOUS
  <2> DEFINE qd == toDir[n]
  <2>1. qd \in Seq(ToDir)
    BY <1>6
  <2>2. CASE v = None
    <3>1. ms = <<>> /\ y # v
      BY <1>2, <1>11, <2>2
    <3> HIDE DEF qd
    <3>2. qd \o ms = qd
      BY <2>1, <3>1
    <3> QED
      BY <3>1, <3>2, EqualSame DEF Td, qd
  <2>3. CASE v # None
    <3>1. PICK g \in ToDir : ms = <<g>> /\ g.a = v /\ g.t \in Gone
      BY <1>11, <2>3
    <3> HIDE DEF qd
    <3>2. qd \o ms = Append(qd, g)
      BY <2>1, <3>1, SendOne
    <3>3. KindOf(g) = g.t
      BY <3>1 DEF KindOf, Gone
    <3>4. y # v => Same(View(qd, y), View(Append(qd, g), y))
      BY <2>1, <3>1, AppendSame
    <3>5. y = v => Ends(View(qd, y), View(Append(qd, g), y), g.t)
      BY <2>1, <3>1, <3>3, ViewOfAppend
    <3> QED
      BY <3>1, <3>2, <3>4, <3>5 DEF Td, qd
  <2> QED
    BY <2>2, <2>3
<1>15. CASE l # n
  <2>1. stack'[l] = stack[l] /\ toDir'[l] = toDir[l] /\ toCache'[l] = toCache[l]
    BY <1>5, <1>13, <1>15 DEF Woken
  <2>2. Quiet(Tc(l, x), View(toCache'[l], x)) /\ Quiet(Td(l, x), View(toDir'[l], x))
    BY <2>1, EqualSame, SameQuiet DEF Tc, Td
  <2> QED
    BY <1>6, <1>7, <2>1, <2>2, LineStays DEF Kept
<1> DEFINE s == stack[n].llc[x].s
           tc == Tc(n, x)
           tc2 == View(toCache'[n], x)
           td == Td(n, x)
           te == td1(x)
           td2 == View(toDir'[n], x)
           qs == Qs(n, x)
           e == dir[x]
           s2 == stack'[n].llc[x].s
<1>16. ASSUME LineOK(n, s2, tc2, td2, qs, e)
       PROVE  NextLine(n, x)
  <2>1. qs = QueueView(dir'[x].q, n) /\ e = dir'[x]
    BY <1>1 DEF Qs
  <2> HIDE DEF qs, e
  <2> QED
    BY <1>16, <2>1 DEF NextLine
<1>17. l = n => LineOK(n, s, tc, td, qs, e)
  BY <1>6 DEF Line
<1>18. x # a => /\ Same(te, td2) /\ s2 = k.llc[x].s /\ Quiet(tc, tc2)
                /\ s2 = IF x = v THEN "I" ELSE s
  BY <1>2, <1>5, <1>8, <1>10, <1>12, <1>13, WokenOther DEF Tc, q, st
<1>19. x = v => s \in {"S", "E", "M"} /\ x # a /\ \E t \in Gone : Ends(td, te, t)
  BY <1>2, <1>4, <1>10, <1>14 DEF st
<1>20. x # v => Same(td, te)
  BY <1>14
<1>21. x = a => Moved(tc, tc2) /\ tc[1] = KindOf(m) /\ x # v
  BY <1>4, <1>5, <1>8 DEF Tc, q
<1>22. x = a => /\ Answering(tc, td, qs)
                /\ k.llc[x].s = IF tc[1] = "SH_REP" THEN "S" ELSE IF tc[1] = "EX_REP" THEN "E" ELSE "M"
  <2>1. x = a => Answering(tc, td, qs)
    BY <1>8, <1>21, OneUnderWay
  <2>2. m.t = "SH_REP" <=> KindOf(m) = "SH_REP"
    BY <1>2, <1>4 DEF KindOf, Rep
  <2>3. m.t = "EX_REP" <=> KindOf(m) = "EX_REP"
    BY <1>2, <1>4 DEF KindOf, Rep
  <2> QED
    BY <1>10, <1>21, <2>1, <2>2, <2>3
<1>23. x = a /\ LineOK(n, k.llc[x].s, tc2, te, qs, e) /\ Unasked(tc2, te, qs)
         => LineOK(n, s2, tc2, td2, qs, e)
  BY <1>2, <1>12, <1>13, WokenLine
<1> HIDE DEF s, tc, tc2, td, te, td2, qs, e, s2
<1>24. CASE l = n /\ x # a /\ x # v
  <2>1. LineOK(n, s, tc2, te, qs, e)
    BY <1>17, <1>18, <1>20, <1>24, EqualSame, EqualEntry, SameQuiet, LineQuiet
  <2>2. LineOK(n, s, tc2, td2, qs, e)
    BY <1>18, <1>24, <2>1, EqualSame, EqualEntry, SameQuiet, LineQuiet
  <2> QED
    BY <1>16, <1>18, <1>24, <2>2
<1>25. CASE l = n /\ x = v
  <2>1. PICK t \in Gone : Ends(td, te, t)
    BY <1>19, <1>25
  <2>2. LineOK(n, s, tc2, td, qs, e)
    BY <1>17, <1>18, <1>19, <1>25, EqualSame, EqualEntry, SameQuiet, LineQuiet
  <2>3. LineOK(n, "I", tc2, te, qs, e)
    BY <1>19, <1>25, <2>1, <2>2, LineEvicted
  <2>4. LineOK(n, "I", tc2, td2, qs, e)
    BY <1>18, <1>19, <1>25, <2>3, EqualSame, EqualEntry, SameQuiet, LineQuiet
  <2> QED
    BY <1>16, <1>18, <1>19, <1>25, <2>4
<1>26. CASE l = n /\ x = a
  <2> DEFINE s1 == k.llc[x].s
  <2>1. LineOK(n, s1, tc2, td, qs, e)
    BY <1>17, <1>21, <1>22, <1>26, AnswerTaken
  <2>2. LineOK(n, s1, tc2, te, qs, e)
    <3> HIDE DEF s1
    <3> QED
      BY <1>20, <1>21, <1>26, <2>1, EqualSame, EqualEntry, SameQuiet, LineQuiet
  <2>3. Unasked(tc2, te, qs)
    <3>1. ~Some(td, Fetch) /\ ~Some(td, Raise) /\ ~Some(qs, Fetch) /\ ~Some(qs, Raise)
      BY <1>22, <1>26 DEF Answering
    <3>2. ~Some(te, Fetch) /\ ~Some(te, Raise)
      BY <1>20, <1>21, <1>26, <3>1 DEF Same, Some
    <3>3. ~Some(tc2, Answer)
      <4> SUFFICES ASSUME NEW i \in Pos, tc2[i] \in Answer PROVE FALSE
        BY DEF Some
      <4>1. i + 1 \in Pos /\ i + 1 # 1
        BY DEF Pos
      <4>2. tc[i + 1] \in Answer
        BY <1>21, <1>26 DEF Moved
      <4> QED
        BY <1>22, <1>26, <4>1, <4>2 DEF Answering
    <3> QED
      BY <3>1, <3>2, <3>3 DEF Unasked
  <2> QED
    BY <1>16, <1>23, <1>26, <2>2, <2>3
<1> QED
  BY <1>15, <1>24, <1>25, <1>26

\* With direct DRAM access only cores that have operations run, and only their
\* LLCs ever have a line.
ActiveInv ==
    cfg.direct =>
       /\ \A c \in Cores : cfg.ops[c] = 0 => pc[c] = "idle"
       /\ \A n \in Nodes, x \in Addrs :
             stack[n].llc[x].s # "I" => \E c \in CoresOf(n) : cfg.ops[c] # 0
\* The directory's knowledge of every line, as long as the program runs.
CoherenceInv == /\ OneInv /\ ActiveInv
                /\ failed = "no" /\ ~cfg.direct => EntryInv /\ Lines

\* A step of core c moves no other core, and core c has something to do.
LEMMA UserMoves ==
    ASSUME Types, NEW c \in Cores, UserStep(c)
    PROVE  /\ cfg' = cfg /\ (pc[c] # "idle" \/ todo[c] > 0)
           /\ \A d \in Cores \ {c} : pc'[d] = pc[d]
<1> DEFINE one == \E p : pc' = [pc EXCEPT ![c] = p]
<1>1. pc \in [Cores -> Control]
  BY DEF Types, ThreadsOK
<1>2. one \/ pc' = pc => \A d \in Cores \ {c} : pc'[d] = pc[d]
  BY <1>1, Zenon
<1>3. ASSUME NEW n, NEW o, NEW st, Access(n, c, o, st)
      PROVE  one
  BY <1>3, Zenon DEF Access
<1>4. ASSUME NEW n, NEW o, FirstLevel(n, c, o)
      PROVE  one /\ cfg' = cfg
  <2>1. one
    BY <1>3, <1>4 DEF FirstLevel
  <2> QED
    BY <1>4, <2>1 DEF FirstLevel
<1>5. ASSUME NEW n, NEW o, NEW st, NEW d, FillAndAccess(n, c, o, st, d)
      PROVE  one
  BY <1>3, <1>5 DEF FillAndAccess
<1>6. ASSUME NEW n, NEW t, NEW a, NEW st, InitiateDirectoryAccess(n, c, t, a, st)
      PROVE  one
  BY <1>6 DEF InitiateDirectoryAccess
<1>7. ASSUME NEW n, NEW st, NEW d, EndPrefetch(n, c, st, d)
      PROVE  one
  BY <1>7 DEF EndPrefetch
<1> HIDE DEF one
<1>8. ASSUME NEW t, NEW a, Issue(c, Operation(t, a))
      PROVE  one /\ cfg' = cfg /\ todo[c] > 0
  <2>1. \E n, o : FirstLevel(n, c, o)
    BY <1>8 DEF Issue
  <2> QED
    BY <1>4, <1>8, <2>1 DEF Issue
<1>9. CASE IssueUnlock(c)
  <2>1. pc[c] # "idle" /\ \E n, o : FirstLevel(n, c, o)
    BY <1>9 DEF IssueUnlock
  <2> QED
    BY <1>2, <1>4, <2>1
<1>10. CASE NextLevel(c)
  <2>1. pc[c] # "idle" /\ cfg' = cfg
    BY <1>10, Zenon DEF NextLevel
  <2>2. \/ \E n, o, st, d : FillAndAccess(n, c, o, st, d)
        \/ \E n, t, a, st : InitiateDirectoryAccess(n, c, t, a, st)
    BY <1>10, Zenon DEF NextLevel
  <2> QED
    BY <1>2, <1>5, <1>6, <2>1, <2>2, Zenon
<1>11. CASE Refill(c)
  <2>1. pc[c] # "idle" /\ cfg' = cfg
    BY <1>11 DEF Refill
  <2>2. \E n, o, st, d : FillAndAccess(n, c, o, st, d)
    BY <1>11 DEF Refill
  <2> QED
    BY <1>2, <1>5, <2>1, <2>2
<1>12. CASE Prefetch(c)
  <2>1. pc[c] # "idle" /\ cfg' = cfg
    BY <1>12, Zenon DEF Prefetch
  <2>2. one
    BY <1>12, Zenon DEF Prefetch, one
  <2> QED
    BY <1>2, <2>1, <2>2, Zenon
<1>13. CASE DoPrefetch(c)
  <2>1. pc[c] # "idle" /\ cfg' = cfg
    BY <1>13 DEF DoPrefetch
  <2>2. \/ \E n, st, d : EndPrefetch(n, c, st, d)
        \/ \E n, t, a, st : InitiateDirectoryAccess(n, c, t, a, st)
    BY <1>13 DEF DoPrefetch
  <2> QED
    BY <1>2, <1>6, <1>7, <2>1, <2>2
<1>14. CASE RefillPrefetch(c)
  <2>1. pc[c] # "idle" /\ cfg' = cfg
    BY <1>14 DEF RefillPrefetch
  <2>2. \E n, st, d : EndPrefetch(n, c, st, d)
    BY <1>14 DEF RefillPrefetch
  <2> QED
    BY <1>2, <1>7, <2>1, <2>2
<1> QED
  BY <1>2, <1>8, <1>9, <1>10, <1>11, <1>12, <1>13, <1>14 DEF UserStep

\* A step of core c touches the lines of its own node only, and the core has
\* operations to do.
LEMMA UserActive ==
    ASSUME Types, LockTypes, OpsUsed, ActiveInv, NEW c \in Cores, UserStep(c)
    PROVE  ActiveInv' /\ (cfg.direct => cfg.ops[c] # 0)
<1>1. cfg' = cfg /\ cfg.ops[c] \in Nat /\ todo[c] \in Nat /\ todo[c] <= cfg.ops[c]
      /\ (pc[c] # "idle" \/ todo[c] > 0) /\ \A d \in Cores \ {c} : pc'[d] = pc[d]
  <2>1. cfg.ops[c] \in Nat /\ todo[c] \in Nat
    BY CacheAssumption DEF Types, ThreadsOK
  <2> QED
    BY <2>1, UserMoves DEF LockTypes
<1>2. cfg.direct => cfg.ops[c] # 0
  BY <1>1 DEF ActiveInv
<1> SUFFICES ASSUME cfg.direct PROVE ActiveInv'
  BY <1>1, <1>2 DEF ActiveInv
<1>3. CalmStep(NodeOf[c])
  BY UserLines DEF AskStep
<1>4. \A d \in Cores : cfg.ops[d] = 0 => pc'[d] = "idle"
  BY <1>1, <1>2 DEF ActiveInv
<1>5. ASSUME NEW n \in Nodes, NEW x \in Addrs, stack'[n].llc[x].s # "I"
      PROVE  \E d \in CoresOf(n) : cfg.ops[d] # 0
  <2>1. CASE n = NodeOf[c]
    BY <1>2, <2>1, NodeOfCore
  <2>2. CASE n # NodeOf[c]
    BY <1>3, <1>5, <2>2 DEF CalmStep, ActiveInv
  <2> QED
    BY <2>1, <2>2
<1> QED
  BY <1>1, <1>4, <1>5 DEF ActiveInv, CoresOf

LEMMA CoherenceInit == Init => CoherenceInv
<1> SUFFICES ASSUME Init PROVE CoherenceInv
  OBVIOUS
<1>1. OneInv
  BY OneInit
<1>2. \A n \in Nodes, x \in Addrs :
         stack[n].llc[x].s = "I" /\ toDir[n] = <<>> /\ toCache[n] = <<>> /\ dir[x] = NoEntry
  BY DEF Init, NoCell
<1>3. ActiveInv
  BY <1>2 DEF Init, ActiveInv
<1>4. EntryInv
  <2>1. NoEntry.owner = None /\ NoEntry.asked = {}
    BY DEF NoEntry
  <2>2. EntryOK(NoEntry)
    BY <2>1 DEF EntryOK
  <2>3. \A x \in Addrs : dir[x] = NoEntry
    BY DEF Init
  <2> QED
    BY <2>2, <2>3 DEF EntryInv
<1>5. Lines
  <2> SUFFICES ASSUME NEW n \in Nodes, NEW x \in Addrs PROVE Line(n, x)
    BY DEF Lines
  <2> DEFINE tc == Tc(n, x)
             td == Td(n, x)
             qs == Qs(n, x)
  <2>1. \A i \in Pos : tc[i] = "none" /\ td[i] = "none" /\ qs[i] = "none"
    <3>1. dir[x].q = <<>> /\ toDir[n] = <<>> /\ toCache[n] = <<>>
      BY <1>2 DEF NoEntry
    <3> QED
      BY <3>1 DEF Tc, Td, Qs, View, QueueView
  <2>2. NoEntry.owner = None /\ NoEntry.sharers = {} /\ NoEntry.asked = {} /\ None # n
    BY CacheAssumption DEF NoEntry
  <2>3. stack[n].llc[x].s = "I" /\ dir[x] = NoEntry
    BY <1>2
  <2> HIDE DEF tc, td, qs
  <2>4. LineOK(n, "I", tc, td, qs, NoEntry)
    <3>1. \A T : "none" \notin T => ~Some(tc, T) /\ ~Some(td, T) /\ ~Some(qs, T)
      BY <2>1 DEF Some
    <3>2. ~Known(n, NoEntry)
      BY <2>2 DEF Known
    <3>3. FreshInv("I", tc, td, qs) /\ KnownInv(n, "I", tc, td, NoEntry)
          /\ GoneInv(n, "I", tc, td, NoEntry) /\ QueuedInv(n, td, qs, NoEntry)
      BY <2>2, <3>1, <3>2 DEF FreshInv, KnownInv, GoneInv, QueuedInv, Fetch, Raise, Grant, Answer, Gone, Wb
    <3>4. OnceInv(td) /\ SentInv(n, td, NoEntry) /\ AskInv(n, "I", tc, NoEntry)
      BY <2>1 DEF OnceInv, SentInv, AskInv, Gone, Wb, Fetch, Raise, Ask
    <3> QED
      BY <3>3, <3>4 DEF LineOK
  <2> QED
    BY <2>3, <2>4 DEF Line, tc, td, qs
<1> QED
  BY <1>1, <1>3, <1>4, <1>5 DEF CoherenceInv

LEMMA CoherenceNext ==
    ASSUME CoherenceInv, [Next]_vars
    PROVE  CoherenceInv'
<1>1. OneInv'
  BY OneNext DEF CoherenceInv
<1>2. CASE UNCHANGED vars
  <2>1. UNCHANGED <<cfg, stack, pc, toDir, toCache, dir, failed>>
    BY <1>2 DEF vars, cacheVars, userVars, dirVars
  <2>2. ActiveInv'
    BY <2>1 DEF CoherenceInv, ActiveInv
  <2>3. failed = "no" /\ ~cfg.direct => EntryInv' /\ Lines'
    BY <2>1 DEF CoherenceInv, EntryInv, Lines, Line, Tc, Td, Qs
  <2> QED
    BY <1>1, <2>1, <2>2, <2>3 DEF CoherenceInv
<1> SUFFICES ASSUME Next
             PROVE  ActiveInv' /\ (failed' = "no" /\ ~cfg'.direct => EntryInv' /\ Lines')
  BY <1>1, <1>2 DEF CoherenceInv
<1>3. /\ failed = "no" /\ Types /\ LockTypes /\ ErrInv /\ ThreadInv /\ DirectInv /\ TransactionInv
      /\ ActiveInv /\ (~cfg.direct => EntryInv /\ Lines)
  BY DEF Next, CoherenceInv, OneInv, CacheInv, TypeInv
<1>4. OpsUsed /\ NetInv
  BY <1>3 DEF ThreadInv, OpInv, OpsUsed
<1>5. dir' = dir /\ ~cfg.direct => EntryInv'
  BY <1>3 DEF EntryInv
<1>6. (\A n \in Nodes, x \in Addrs : NextLine(n, x)) => Lines'
  BY LinesNext
<1>7. ASSUME NEW c \in Cores, UserStep(c)
      PROVE  ActiveInv' /\ (failed' = "no" /\ ~cfg'.direct => EntryInv' /\ Lines')
  <2>1. ActiveInv' /\ cfg' = cfg
    BY <1>3, <1>4, <1>7, UserActive, UserMoves
  <2>2. ASSUME failed' = "no", ~cfg.direct
        PROVE  EntryInv' /\ Lines'
    <3>1. CalmStep(NodeOf[c]) \/ AskStep(NodeOf[c])
      BY <1>3, <1>4, <1>7, UserLines
    <3>2. NodeOf[c] \in Nodes /\ dir' = dir
      BY <3>1, NodeOfCore DEF CalmStep, AskStep
    <3>3. \A n \in Nodes, x \in Addrs : NextLine(n, x)
      BY <1>3, <2>2, <3>1, <3>2, CalmLines, AskLines
    <3> QED
      BY <1>5, <1>6, <2>2, <3>2, <3>3
  <2> QED
    BY <2>1, <2>2
<1>8. ASSUME ~cfg.direct, cfg' = cfg PROVE ActiveInv'
  BY <1>8 DEF ActiveInv
<1>9. ASSUME NEW n \in Nodes, NetStep(n)
      PROVE  ActiveInv' /\ (failed' = "no" /\ ~cfg'.direct => EntryInv' /\ Lines')
  <2>1. ~cfg.direct
    BY <1>3, <1>9, Zenon DEF DirectInv, NetStep, HandleRep, ResumeWaiters, HandleReq
  <2>2. dir' = dir /\ cfg' = cfg
    BY <1>9, Zenon DEF NetStep, HandleRep, ResumeWaiters, HandleReq, dirVars
  <2>3. failed' = "no" => \A k \in Nodes, x \in Addrs : NextLine(k, x)
    <3> SUFFICES ASSUME failed' = "no" PROVE \A k \in Nodes, x \in Addrs : NextLine(k, x)
      OBVIOUS
    <3>1. HandleRep(n) => \A k \in Nodes, x \in Addrs : NextLine(k, x)
      BY <1>3, <2>1, HandleRepLines
    <3>2. ResumeWaiters(n) => \A k \in Nodes, x \in Addrs : NextLine(k, x)
      BY <1>3, <1>4, <2>1, ResumeLines
    <3>3. HandleReq(n) => \A k \in Nodes, x \in Addrs : NextLine(k, x)
      BY <1>3, <2>1, HandleReqLines
    <3> QED
      BY <1>9, <3>1, <3>2, <3>3 DEF NetStep
  <2> QED
    BY <1>5, <1>6, <1>8, <2>1, <2>2, <2>3, Zenon
<1>10. CASE DirStep
  <2>1. ~cfg.direct
    BY <1>3, <1>10, Zenon DEF DirectInv, DirStep, DirReceive, DirAsk, DirReply
  <2>2. cfg' = cfg
    BY <1>10, Zenon DEF DirStep, DirReceive, DirAsk, DirReply
  <2>3. EntryInv'
    BY <1>3, <1>10, <2>1, ReceiveEntries, AskEntries, ReplyEntries DEF DirStep
  <2>4. \A k \in Nodes, x \in Addrs : NextLine(k, x)
    BY <1>3, <1>10, <2>1, ReceiveLines, DirAskLines, DirReplyLines DEF DirStep
  <2> QED
    BY <1>6, <1>8, <2>1, <2>2, <2>3, <2>4, Zenon
<1> QED
  BY <1>7, <1>9, <1>10 DEF Next

\* States s and r give the same permission.
SamePerm(s, r) == r = s \/ {s, r} \subseteq {"E", "M"} \/ {s, r} \subseteq {"S", "u"}
\* Two LLCs may have one line in states s and r.
Fits(s, r) == s = "I" \/ r = "I" \/ {s, r} \subseteq {"S", "u"}
\* LLC n changes its lines as the abstract specification allows.
ChangeStep(n) ==
    /\ \A m \in Nodes \ {n}, x \in Addrs : stack'[m].llc[x].s = stack[m].llc[x].s
    /\ \A x \in Addrs : \/ SamePerm(stack[n].llc[x].s, stack'[n].llc[x].s)
                        \/ \A m \in Nodes \ {n} : Fits(stack'[n].llc[x].s, stack[m].llc[x].s)

LEMMA PermFacts ==
    ASSUME NEW p \in Cell
    PROVE  /\ Perm(p) \in {"none", "read", "write"}
           /\ Perm(p) = "write" <=> p.s \in {"E", "M"}
           /\ Perm(p) = "read" <=> p.s \in {"S", "u"}
           /\ Perm(p) = "none" <=> p.s = "I"
BY DEF Perm, Cell, States

\* Such a step is a step of the abstract specification.
LEMMA ChangePromise ==
    ASSUME Types, Types', NEW n \in Nodes, ChangeStep(n)
    PROVE  [Promise!Next]_LLCPerm
<1>1. \A m \in Nodes, x \in Addrs : stack[m].llc[x] \in Cell /\ stack'[m].llc[x] \in Cell
  BY DEF Types, StacksOK, Stack
<1>2. \A m \in Nodes, x \in Addrs : /\ LLCPerm[m][x] = Perm(stack[m].llc[x])
                                    /\ LLCPerm'[m][x] = Perm(stack'[m].llc[x])
  BY DEF LLCPerm
<1>3. Promise!TypeOK'
  BY <1>1, PermFacts DEF Promise!TypeOK, Promise!Permissions, LLCPerm
<1>4. \A m \in Nodes \ {n} : LLCPerm'[m] = LLCPerm[m]
  <2>1. \A m \in Nodes \ {n}, x \in Addrs : Perm(stack'[m].llc[x]) = Perm(stack[m].llc[x])
    BY <1>1, PermFacts DEF ChangeStep
  <2> QED
    BY <2>1 DEF LLCPerm
<1>5. ASSUME NEW x \in Addrs
      PROVE  \/ LLCPerm'[n][x] = LLCPerm[n][x]
             \/ \A m \in Nodes \ {n} : Promise!Compatible(LLCPerm'[n][x], LLCPerm[m][x])
  <2>1. CASE SamePerm(stack[n].llc[x].s, stack'[n].llc[x].s)
    <3>1. Perm(stack'[n].llc[x]) = Perm(stack[n].llc[x])
      BY <1>1, <2>1, PermFacts DEF SamePerm
    <3> QED
      BY <1>2, <3>1
  <2>2. ASSUME NEW m \in Nodes \ {n}, Fits(stack'[n].llc[x].s, stack[m].llc[x].s)
        PROVE  Promise!Compatible(LLCPerm'[n][x], LLCPerm[m][x])
    <3>1. Promise!Compatible(Perm(stack'[n].llc[x]), Perm(stack[m].llc[x]))
      BY <1>1, <2>2, PermFacts DEF Fits, Promise!Compatible
    <3> QED
      BY <1>2, <3>1
  <2> QED
    BY <2>1, <2>2 DEF ChangeStep
<1>6. Promise!Change(n)
  BY <1>4, <1>5 DEF Promise!Change
<1> QED
  BY <1>3, <1>6 DEF Promise!Next

\* The owner of a line is alone with it, and a copy the directory knows of is
\* nowhere else writable.
LEMMA OwnerAlone ==
    ASSUME Types, Lines, EntryInv, NEW n \in Nodes, NEW x \in Addrs, NEW m \in Nodes \ {n}
    PROVE  /\ dir[x].owner = n => stack[m].llc[x].s = "I"
           /\ Known(n, dir[x]) => stack[m].llc[x].s \in {"I", "S", "u"}
<1>1. stack[m].llc[x].s \in States /\ None \notin Nodes
  BY StackFields, CacheAssumption DEF Types, StacksOK
<1>2. KnownInv(m, stack[m].llc[x].s, Tc(m, x), Td(m, x), dir[x])
  BY DEF Lines, Line, LineOK
<1>3. EntryOK(dir[x])
  BY DEF EntryInv
<1>4. stack[m].llc[x].s \in {"E", "M"} => dir[x].owner = m
  BY <1>2 DEF KnownInv
<1>5. stack[m].llc[x].s \in {"S", "u"} => Known(m, dir[x])
  BY <1>2 DEF KnownInv
<1> QED
  BY <1>1, <1>3, <1>4, <1>5 DEF Known, EntryOK, States

LEMMA UserChanges ==
    ASSUME Types, LockTypes, OpsUsed, ActiveInv, NEW c \in Cores, UserStep(c)
    PROVE  ChangeStep(NodeOf[c])
<1> DEFINE n == NodeOf[c]
<1>1. n \in Nodes /\ (CalmStep(n) \/ AskStep(n)) /\ cfg \in Configs
  BY NodeOfCore, UserLines DEF Types, ThreadsOK
<1>2. cfg.direct => cfg.ops[c] # 0
  BY UserActive
<1> HIDE DEF n
<1>3. CalmStep(n) /\ ~cfg.direct => ChangeStep(n)
  BY <1>1 DEF CalmStep, ChangeStep, Kept, SamePerm
<1>4. ASSUME CalmStep(n), cfg.direct
      PROVE  ChangeStep(n)
  <2>1. \A m \in Nodes \ {n}, x \in Addrs : stack[m].llc[x].s = "I"
    <3> SUFFICES ASSUME NEW m \in Nodes \ {n}, NEW x \in Addrs, stack[m].llc[x].s # "I"
                 PROVE  FALSE
      OBVIOUS
    <3>1. PICK d \in CoresOf(m) : cfg.ops[d] # 0
      BY <1>4 DEF ActiveInv
    <3>2. d \in Cores /\ NodeOf[d] = m
      BY DEF CoresOf
    <3> QED
      BY <1>1, <1>2, <1>4, <3>1, <3>2, CacheAssumption DEF n
  <2> QED
    BY <1>4, <2>1 DEF CalmStep, ChangeStep, Fits
<1>5. ASSUME AskStep(n)
      PROVE  ChangeStep(n)
  <2>1. PICK t : \E a \in Addrs, k \in Stack(n) :
           Initiated(n, t, a, k) /\ \A x \in Addrs : k.llc[x].s = stack[n].llc[x].s
    BY <1>5 DEF AskStep
  <2>2. PICK a \in Addrs, k \in Stack(n) :
           Initiated(n, t, a, k) /\ \A x \in Addrs : k.llc[x].s = stack[n].llc[x].s
    BY <2>1
  <2>3. \A x \in Addrs : SamePerm(stack[n].llc[x].s, stack'[n].llc[x].s)
    BY <2>2 DEF Initiated, Sends, SamePerm
  <2>4. \A m \in Nodes \ {n} : stack'[m] = stack[m]
    BY <2>2 DEF Initiated
  <2> QED
    BY <2>3, <2>4 DEF ChangeStep
<1>6. ChangeStep(n)
  BY <1>1, <1>3, <1>4, <1>5
<1> QED
  BY <1>6 DEF n

\* A reply grants what the directory has taken from everybody else, whether
\* or not an assertion fails while it is handled.
LEMMA HandleRepChanges ==
    ASSUME Types, Lines, EntryInv, NEW n \in Nodes, HandleRep(n)
    PROVE  ChangeStep(n)
<1> DEFINE q == toCache[n]
           m == Head(q)
           a == m.a
           st == stack[n]
           ws == waiters[n][a]
<1>1. q # <<>>
  BY DEF HandleRep
<1>2. m \in ToCache /\ a \in Addrs /\ q \in Seq(ToCache) /\ m \in Message
  BY <1>1, HeadOfChannel, ChannelTypes DEF Types, ToCache
<1>3. RepData(n)
  BY RepDataFacts
<1>4. PICK v \in Addrs \cup {None}, r \in Stack(n), k \in Stack(n) :
       /\ v # a /\ (m.t = "UPGRADE_REP" => v = None) /\ m.t \in Rep
       /\ Replied(n, st, m, v, r) /\ k.llc = r.llc
       /\ Woken(n, a, k, ws, EvictMsgs(st, v))
  BY <1>3 DEF RepData
<1>5. Tc(n, a)[1] = KindOf(m)
  <2>1. Tc(n, a) = View(q, a)
    BY DEF Tc
  <2> HIDE DEF q
  <2>2. View(q, a)[1] = IF Head(q).a = a THEN KindOf(Head(q)) ELSE "none"
    BY <1>1, <1>2, ViewOfTail
  <2> QED
    BY <2>1, <2>2
<1>6. Line(n, a)
  BY <1>2 DEF Lines
<1> HIDE DEF a, m, ws
<1>7. Some(Tc(n, a), {KindOf(m)})
  BY <1>5 DEF Some, Pos
<1>8. KnownInv(n, st.llc[a].s, Tc(n, a), Td(n, a), dir[a])
  BY <1>6 DEF Line, LineOK
<1>9. m.t \in {"EX_REP", "UPGRADE_REP"} => dir[a].owner = n
  <2>1. m.t \in {"EX_REP", "UPGRADE_REP"} => KindOf(m) \in Grant
    BY DEF KindOf, Grant
  <2>2. KindOf(m) \in Grant => Some(Tc(n, a), Grant)
    BY <1>7 DEF Some
  <2> QED
    BY <1>8, <2>1, <2>2 DEF KnownInv
<1>10. m.t = "SH_REP" => Known(n, dir[a])
  <2>1. m.t = "SH_REP" => KindOf(m) = "SH_REP"
    BY DEF KindOf
  <2> QED
    BY <1>7, <1>8, <2>1 DEF KnownInv
<1>11. /\ \A l \in Nodes \ {n} : stack'[l] = stack[l]
       /\ stack'[n].llc[a].s = k.llc[a].s \/ (k.llc[a].s = "S" /\ stack'[n].llc[a].s = "u")
       /\ \A x \in Addrs \ {a} : stack'[n].llc[x].s = k.llc[x].s
  BY <1>4 DEF Woken, NeedsUpgrade
<1>12. \A x \in Addrs \ {a} : r.llc[x].s \in {"I", st.llc[x].s}
  <2>1. CASE m.t \in {"EX_REP", "SH_REP"}
    BY <1>4, <2>1 DEF Replied, InsertedLLC, a
  <2>2. CASE m.t = "UPGRADE_REP"
    BY <1>4, <2>2 DEF Replied, a
  <2> QED
    BY <1>4, <2>1, <2>2 DEF Rep
<1>13. /\ m.t = "SH_REP" => r.llc[a].s = "S"
       /\ m.t = "EX_REP" => r.llc[a].s = "E"
       /\ m.t = "UPGRADE_REP" => r.llc[a].s \in {"I", "M"}
  <2>1. CASE m.t \in {"EX_REP", "SH_REP"}
    <3>1. PICK cell \in Cell : /\ cell.s = IF m.t = "EX_REP" THEN "E" ELSE "S"
                               /\ InsertedLLC(n, st, a, cell, v, r)
      BY <1>4, <2>1 DEF Replied, a
    <3> QED
      BY <1>2, <2>1, <3>1 DEF InsertedLLC
  <2>2. CASE m.t = "UPGRADE_REP"
    BY <1>2, <1>4, <2>2 DEF Replied, a
  <2> QED
    BY <1>4, <2>1, <2>2 DEF Rep
<1>14. ASSUME NEW x \in Addrs \ {a}
       PROVE  \/ SamePerm(stack[n].llc[x].s, stack'[n].llc[x].s)
              \/ \A l \in Nodes \ {n} : Fits(stack'[n].llc[x].s, stack[l].llc[x].s)
  BY <1>4, <1>11, <1>12 DEF SamePerm, Fits
<1>15. \A l \in Nodes \ {n} : Fits(stack'[n].llc[a].s, stack[l].llc[a].s)
  <2> SUFFICES ASSUME NEW l \in Nodes \ {n} PROVE Fits(stack'[n].llc[a].s, stack[l].llc[a].s)
    OBVIOUS
  <2>1. /\ dir[a].owner = n => stack[l].llc[a].s = "I"
        /\ Known(n, dir[a]) => stack[l].llc[a].s \in {"I", "S", "u"}
    BY <1>2, OwnerAlone
  <2>2. CASE m.t = "SH_REP"
    BY <1>4, <1>10, <1>11, <1>13, <2>1, <2>2 DEF Fits
  <2>3. CASE m.t \in {"EX_REP", "UPGRADE_REP"}
    BY <1>9, <2>1, <2>3 DEF Fits
  <2> QED
    BY <1>4, <2>2, <2>3 DEF Rep
<1> QED
  BY <1>11, <1>14, <1>15 DEF ChangeStep

\* Waking the next waiter takes no permission and gives none.
LEMMA ResumeChanges ==
    ASSUME Types, NetInv, NEW n \in Nodes, ResumeWaiters(n)
    PROVE  ChangeStep(n)
<1> DEFINE a == net[n].a
<1>1. \E ws, ms : Woken(n, a, stack[n], ws, ms)
  BY ResumeDataFacts
<1> HIDE DEF a
<1>2. /\ \A l \in Nodes \ {n} : stack'[l] = stack[l]
      /\ stack'[n].llc[a].s = stack[n].llc[a].s \/ (stack[n].llc[a].s = "S" /\ stack'[n].llc[a].s = "u")
      /\ \A x \in Addrs \ {a} : stack'[n].llc[x].s = stack[n].llc[x].s
  BY <1>1, Zenon DEF Woken, NeedsUpgrade
<1> QED
  BY <1>2 DEF ChangeStep, SamePerm

\* A request of the directory is answered by giving a permission up, or by
\* sharing a line that nobody else has.
LEMMA HandleReqChanges ==
    ASSUME Types, ErrInv, Lines, EntryInv, failed = "no", NEW n \in Nodes, HandleReq(n)
    PROVE  ChangeStep(n)
<1> DEFINE m == Head(toCache[n])
           a == m.a
           s == stack[n].llc[a].s
<1>1. Answered(n, m) /\ a \in Addrs
  <2>1. failed = stack[n].err /\ toCache[n] # <<>>
    BY Zenon DEF ErrInv, HandleReq
  <2> QED
    BY <2>1, HandleReqFacts, HeadOfChannel, Zenon DEF Types, ThreadsOK
<1>2. s \in States
  BY <1>1, StackFields DEF Types, StacksOK
<1>3. \A l \in Nodes \ {n} : stack'[l] = stack[l]
  BY <1>1 DEF Answered
<1> HIDE DEF m, a
<1>4. /\ \A x \in Addrs \ {a} : stack'[n].llc[x].s = stack[n].llc[x].s
      /\ stack'[n].llc[a].s \in {s, "I"} \/ (stack'[n].llc[a].s = "S" /\ s # "u")
  BY <1>1 DEF Answered, UpdatedLLC, a
<1>5. s \in {"E", "M"} => dir[a].owner = n
  BY <1>1 DEF Lines, Line, LineOK, KnownInv
<1>6. s \in {"E", "M"} => \A l \in Nodes \ {n} : stack[l].llc[a].s = "I"
  BY <1>1, <1>5, OwnerAlone
<1> HIDE DEF s
<1>7. \/ SamePerm(s, stack'[n].llc[a].s)
      \/ \A l \in Nodes \ {n} : Fits(stack'[n].llc[a].s, stack[l].llc[a].s)
  <2>1. CASE s \in {"E", "M"}
    BY <1>6, <2>1 DEF Fits
  <2>2. CASE stack'[n].llc[a].s = "I"
    BY <2>2 DEF Fits
  <2>3. CASE s = "I" /\ stack'[n].llc[a].s # "I"
    <3>1. stack'[n] = stack[n]
      BY <1>1, <2>3 DEF Answered, a, s
    <3> QED
      BY <2>3, <3>1 DEF s
  <2>4. CASE s \in {"S", "u"} /\ stack'[n].llc[a].s # "I"
    BY <1>4, <2>4 DEF SamePerm
  <2> QED
    BY <1>2, <2>1, <2>2, <2>3, <2>4 DEF States
<1> QED
  BY <1>3, <1>4, <1>7, Zenon DEF ChangeStep, SamePerm, s

LEMMA CoherentNext ==
    ASSUME CoherenceInv, CoherenceInv', [Next]_vars
    PROVE  [Promise!Next]_LLCPerm
<1>1. stack' = stack => LLCPerm' = LLCPerm
  BY DEF LLCPerm
<1>2. CASE UNCHANGED vars
  BY <1>1, <1>2 DEF vars, cacheVars
<1> SUFFICES ASSUME Next PROVE [Promise!Next]_LLCPerm
  BY <1>2
<1>3. /\ failed = "no" /\ Types /\ Types' /\ LockTypes /\ ErrInv /\ ThreadInv /\ DirectInv
      /\ ActiveInv /\ (~cfg.direct => EntryInv /\ Lines)
  BY DEF Next, CoherenceInv, OneInv, CacheInv, TypeInv
<1>4. OpsUsed /\ NetInv
  BY <1>3 DEF ThreadInv, OpInv, OpsUsed
<1>5. ASSUME NEW c \in Cores, UserStep(c)
      PROVE  [Promise!Next]_LLCPerm
  <2>1. NodeOf[c] \in Nodes /\ ChangeStep(NodeOf[c])
    BY <1>3, <1>4, <1>5, NodeOfCore, UserChanges
  <2> QED
    BY <1>3, <2>1, ChangePromise
<1>6. ASSUME NEW n \in Nodes, NetStep(n)
      PROVE  [Promise!Next]_LLCPerm
  <2>1. ~cfg.direct
    BY <1>3, <1>6, Zenon DEF DirectInv, NetStep, HandleRep, ResumeWaiters, HandleReq
  <2>2. ChangeStep(n)
    BY <1>3, <1>4, <1>6, <2>1, HandleRepChanges, ResumeChanges, HandleReqChanges DEF NetStep
  <2> QED
    BY <1>3, <2>2, ChangePromise, Zenon
<1>7. CASE DirStep
  BY <1>1, <1>7, Zenon DEF DirStep, DirReceive, DirAsk, DirReply, cacheVars
<1> QED
  BY <1>5, <1>6, <1>7 DEF Next

\* The LLCs implement the abstract specification Coherence: whatever the
\* threads, evictions, upgrades and messages in flight do, an LLC gains a
\* permission on a line only when no other LLC holds a conflicting one.
THEOREM CacheCoherent == Spec => Coherent
<1>1. Init => Promise!Init
  BY DEF Init, Promise!Init, LLCPerm, Perm, NoCell
<1>2. CoherenceInv /\ CoherenceInv' /\ [Next]_vars => [Promise!Next]_LLCPerm
  BY CoherentNext
<1> QED
  BY <1>1, <1>2, CoherenceInit, CoherenceNext, PTL DEF Spec, Coherent, Promise!Spec

\* What a gain of permissions keeps: no two LLCs hold conflicting ones.
LEMMA WriterNext ==
    ASSUME Promise!SingleWriter, [Promise!Next]_LLCPerm
    PROVE  Promise!SingleWriter'
<1>1. CASE UNCHANGED LLCPerm
  BY <1>1 DEF Promise!SingleWriter, Promise!Compatible
<1>2. ASSUME NEW k \in Nodes, Promise!Change(k)
      PROVE  Promise!SingleWriter'
  <2> DEFINE p == LLCPerm
             q == LLCPerm'
  <2>1. ASSUME NEW x \in Addrs, NEW n \in Nodes, NEW m \in Nodes, n # m
        PROVE  Promise!Compatible(q[n][x], q[m][x])
    <3>1. Promise!Compatible(p[n][x], p[m][x])
      BY <2>1 DEF Promise!SingleWriter
    <3>2. /\ \A l \in Nodes \ {k} : q[l] = p[l]
          /\ \/ q[k][x] = p[k][x]
             \/ \A l \in Nodes \ {k} : Promise!Compatible(q[k][x], p[l][x])
      BY <1>2 DEF Promise!Change
    <3> HIDE DEF p, q
    <3> QED
      BY <2>1, <3>1, <3>2 DEF Promise!Compatible
  <2> QED
    BY <2>1 DEF Promise!SingleWriter
<1> QED
  BY <1>1, <1>2 DEF Promise!Next

\* While one LLC may write a line no other may read it, whatever the
\* directory and the threads do.
THEOREM CacheSingleWriter == Spec => []Promise!SingleWriter
<1>1. Promise!Init => Promise!SingleWriter
  BY DEF Promise!Init, Promise!SingleWriter, Promise!Compatible
<1>2. Promise!Spec => []Promise!SingleWriter
  BY <1>1, WriterNext, PTL DEF Promise!Spec
<1> QED
  BY <1>2, CacheCoherent DEF Coherent

-----------------------------------------------------------------------------
(* The assertions of the controller *)

\* What the L1 state l of the line operation o works on is while its core is
\* at p; h: the line is being handed over to a woken thread.  The first half
\* of an atomic pair leaves the line MODIFIED, a thread that waits has dropped
\* its copy, and a copy that missed is dirty only through an upgrade reply.
CoreFits(p, o, l, h) ==
    /\ o.sig = "LOCK" => IsWriter(o.t)
    /\ p = "locked" => l = "M"
    /\ p \in {"waiting", "woken"} /\ o.t # "P" => l = "I"
    /\ p = "missed" /\ l = "M" => h
CoreInv(c) ==
    LET n == NodeOf[c] IN
    CoreFits(pc[c], op[c], stack[n].l1[c][op[c].a].s, net[n].pc = "handoff" /\ net[n].a = op[c].a)
MissInv == \A c \in Cores : CoreInv(c)
\* CoreInv(c) in the next state.
CoreNext(c) ==
    LET n == NodeOf[c] IN
    CoreFits(pc'[c], op'[c], stack'[n].l1[c][op'[c].a].s, net'[n].pc = "handoff" /\ net'[n].a = op'[c].a)

\* The L1s of cores C gain nothing from stack st to stack r.
Weaker(C, st, r) ==
    \A d \in C, x \in Addrs : /\ st.l1[d][x].s = "I" => r.l1[d][x].s = "I"
                              /\ r.l1[d][x].s = "M" => st.l1[d][x].s = "M"

LEMMA MissNext ==
    ASSUME \A c \in Cores : CoreNext(c)
    PROVE  MissInv'
BY DEF MissInv, CoreInv, CoreNext

LEMMA MissFromNode ==
    ASSUME ThreadInv, MissInv, NEW n \in Nodes,
           \A m \in Nodes \ {n} : SameStates(m, stack[m], stack'[m]) /\ net'[m] = net[m],
           \A d \in Cores \ CoresOf(n) : op'[d] = op[d] /\ pc'[d] = pc[d],
           \A d \in CoresOf(n) : CoreNext(d)
    PROVE  MissInv'
<1>1. ASSUME NEW d \in Cores \ CoresOf(n)
      PROVE  CoreNext(d)
  <2>1. NodeOf[d] \in Nodes \ {n} /\ d \in CoresOf(NodeOf[d])
    BY <1>1, NodeOfCore DEF CoresOf
  <2>2. pc'[d] = pc[d] /\ op'[d] = op[d] /\ net'[NodeOf[d]] = net[NodeOf[d]]
    BY <1>1, <2>1
  <2>3. CoreInv(d)
    BY <1>1 DEF MissInv
  <2>4. op[d].a \in Addrs => stack'[NodeOf[d]].l1[d][op[d].a].s = stack[NodeOf[d]].l1[d][op[d].a].s
    BY <2>1 DEF SameStates
  <2>5. pc[d] # "idle" => op[d].a \in Addrs
    BY <2>1 DEF ThreadInv, OpInv
  <2> QED
    BY <2>2, <2>3, <2>4, <2>5, Zenon DEF CoreInv, CoreNext, CoreFits
<1> QED
  BY <1>1, MissNext, ZenonT(30)

\* A core of the node that does not act itself.
LEMMA OtherCore ==
    ASSUME Types, ThreadInv, MissInv, NEW n \in Nodes, NEW d \in CoresOf(n), op'[d] = op[d],
           pc'[d] = pc[d] \/ (pc[d] = "waiting" /\ pc'[d] = "woken"),
           Weaker({d}, stack[n], stack'[n]),
           pc[d] = "locked" => stack'[n].l1[d][op[d].a].s = stack[n].l1[d][op[d].a].s,
           /\ net[n].pc = "handoff" /\ net[n].a = op[d].a /\ stack'[n].l1[d][op[d].a].s = "M"
              => net'[n] = net[n]
    PROVE  CoreNext(d)
<1>1. d \in Cores /\ NodeOf[d] = n
  BY DEF CoresOf
<1>2. CoreInv(d) /\ (pc[d] # "idle" => op[d].a \in Addrs)
  BY <1>1 DEF MissInv, ThreadInv, OpInv
<1> QED
  BY <1>1, <1>2 DEF CoreInv, CoreNext, CoreFits, Weaker

LEMMA NobodyLocked ==
    ASSUME LockTypes, ThreadInv, NEW n \in Nodes, NEW c, LockFree(n) \/ lock[n].ex = c, c # "free",
           NEW d \in CoresOf(n), d # c
    PROVE  pc[d] # "locked"
BY CacheAssumption DEF LockTypes, ThreadInv, LockInv, LockFree, CoresOf

\* The operations on a node's stack fail no assertion, and what they do to the
\* L1s of the other cores.
LEMMA ServedWorks ==
    ASSUME NEW n \in Nodes, NEW st \in Stack(n), NEW C \in SUBSET CoresOf(n), NEW t, NEW a \in Addrs, NEW r,
           AnyServed(n, st, C, t, a, r), Included(n, st)
    PROVE  /\ st.err = "no" => r.st.err = "no"
           /\ Permissible(r.st.llc[a], t) /\ Weaker(CoresOf(n), st, r.st)
<1>1. \A d \in CoresOf(n), x \in Addrs : st.l1[d][x].s = "M" => st.llc[x].s = "M"
  <2> SUFFICES ASSUME NEW d \in CoresOf(n), NEW x \in Addrs, st.l1[d][x].s = "M" PROVE st.llc[x].s = "M"
    OBVIOUS
  <2>1. st.llc[x].s \in States /\ Order["M"] <= Order[st.llc[x].s]
    BY StackFields DEF Included
  <2> QED
    BY <2>1, OrderFacts DEF States
<1>2. CASE ServedHit(n, st, C, t, a, r)
  <2>1. HitServed(n, st, C, t, a, r.st) /\ Permissible(st.llc[a], t)
    BY <1>2 DEF ServedHit
  <2>2. st.err = "no" => r.st.err = "no"
    BY <1>1, <2>1 DEF HitServed
  <2>3. Permissible(r.st.llc[a], t)
    BY <2>1 DEF HitServed, Permissible
  <2>4. Weaker(CoresOf(n), st, r.st)
    BY <2>1 DEF HitServed, Weaker
  <2> QED
    BY <2>2, <2>3, <2>4
<1>3. CASE ServedUpgrade(n, st, C, t, a, r)
  <2>1. Upgraded(n, st, C, a, r.st) /\ Permissible(r.st.llc[a], t)
    BY <1>3 DEF ServedUpgrade
  <2>2. st.err = "no" => r.st.err = "no"
    BY <1>1, <2>1 DEF Upgraded
  <2>3. Weaker(CoresOf(n), st, r.st)
    BY <2>1 DEF Upgraded, Weaker
  <2> QED
    BY <2>1, <2>2, <2>3
<1>4. CASE ServedDirect(n, st, t, a, r)
  <2>1. PICK v \in Addrs \cup {None}, cell \in Cell :
          /\ cfg.direct /\ st.llc[a].s = "I" /\ cell.s = (IF IsWriter(t) THEN "M" ELSE "S")
          /\ InsertedLLC(n, st, a, cell, v, r.st)
    BY <1>4 DEF ServedDirect
  <2>2. st.err = "no" => r.st.err = "no"
    BY <2>1 DEF InsertedLLC
  <2>3. r.st.llc[a].s = IF IsWriter(t) THEN "M" ELSE "S"
    BY <2>1 DEF InsertedLLC
  <2>4. Permissible(r.st.llc[a], t)
    BY <2>3 DEF Permissible, IsWriter
  <2>5. Weaker(CoresOf(n), st, r.st)
    BY <2>1 DEF InsertedLLC, Weaker
  <2> QED
    BY <2>2, <2>4, <2>5
<1> QED
  BY <1>2, <1>3, <1>4 DEF AnyServed

LEMMA QueuedWorks ==
    ASSUME NEW n \in Nodes, NEW st \in Stack(n), NEW C \in SUBSET CoresOf(n), NEW t, NEW a \in Addrs,
           Queued(n, st, C, t, a), Included(n, st)
    PROVE  /\ st.err = "no" => failed' = "no"
           /\ Weaker(CoresOf(n), st, stack'[n])
           /\ \A m \in Nodes \ {n} : stack'[m] = stack[m]
<1>1. PICK k \in Stack(n) : Upgraded(n, st, C, a, k) /\ ~Permissible(k.llc[a], t) /\ Initiated(n, t, a, k)
  BY DEF Queued
<1>2. k.llc[a].s \in States /\ st.llc[a].s \in States
  BY StackFields
<1>3. st.llc[a].s # "M"
  BY <1>1 DEF Upgraded, Permissible
<1>4. \A d \in CoresOf(n) : st.l1[d][a].s # "M"
  <2> SUFFICES ASSUME NEW d \in CoresOf(n), st.l1[d][a].s = "M" PROVE FALSE
    OBVIOUS
  <2>1. Order["M"] <= Order[st.llc[a].s]
    BY DEF Included
  <2> QED
    BY <1>2, <1>3, <2>1, OrderFacts DEF States
<1>5. st.err = "no" => k.err = "no"
  BY <1>1, <1>4 DEF Upgraded
<1>6. FirstWaiter(n, a) /\ IsWriter(t) => k.llc[a].s \in {"I", "u", "S"}
  BY <1>1, <1>2 DEF Upgraded, Permissible, States
<1>7. stack'[n].l1 = k.l1 /\ \A m \in Nodes \ {n} : stack'[m] = stack[m]
  BY <1>1 DEF Initiated
<1>8. Weaker(CoresOf(n), st, stack'[n])
  BY <1>1, <1>7 DEF Upgraded, Weaker
<1> QED
  BY <1>1, <1>5, <1>6, <1>7, <1>8 DEF Initiated

LEMMA FilledWorks ==
    ASSUME Types, NEW n \in Nodes, NEW c \in CoresOf(n), NEW o, o.a \in Addrs, NEW st \in Stack(n),
           Filled(n, c, o, st), Included(n, st), st.l1[c][o.a].s = "I", Permissible(st.llc[o.a], o.t)
    PROVE  /\ st.err = "no" => failed' = "no"
           /\ Weaker(CoresOf(n) \ {c}, st, stack'[n])
           /\ stack'[n].l1[c][o.a].s = st.llc[o.a].s
           /\ \A m \in Nodes \ {n} : SameStates(m, stack[m], stack'[m])
<1> DEFINE a == o.a
<1>1. PICK v \in Addrs \cup {None}, r \in Stack(n) :
           v # a /\ Copied(n, st, c, o.t, a, v, r) /\ Accessed(n, c, o, r)
  BY DEF Filled
<1>2. v # None /\ st.l1[c][v].s = "M" => st.llc[v].s = "M"
  <2> SUFFICES ASSUME v \in Addrs, st.l1[c][v].s = "M" PROVE st.llc[v].s = "M"
    BY <1>1
  <2>1. st.llc[v].s \in States /\ Order["M"] <= Order[st.llc[v].s]
    BY StackFields DEF Included
  <2> QED
    BY <2>1, OrderFacts DEF States
<1>3. st.err = "no" => r.err = "no"
  BY <1>1, <1>2 DEF Copied
<1>4. r.l1[c][a].s = st.llc[a].s /\ r.llc[a].s = st.llc[a].s
  BY <1>1 DEF Copied
<1>5. Permissible(r.l1[c][a], o.t) /\ (o.t = "W" => r.llc[a].s = "M")
  BY <1>4 DEF Permissible
<1>6. st.err = "no" => failed' = "no"
  BY <1>1, <1>3, <1>5 DEF Accessed
<1>7. SameStates(n, r, stack'[n]) /\ \A m \in Nodes \ {n} : SameStates(m, stack[m], stack'[m])
  BY <1>1 DEF Accessed
<1>8. stack'[n].l1[c][a].s = st.llc[a].s
  BY <1>4, <1>7 DEF SameStates
<1>9. Weaker(CoresOf(n) \ {c}, st, stack'[n])
  BY <1>1, <1>7 DEF SameStates, Copied, Weaker
<1> QED
  BY <1>6, <1>7, <1>8, <1>9

\* A stack as it is seen by a first-level look-up.
LEMMA WeakerChain ==
    ASSUME NEW C, NEW st, NEW r, NEW k, Weaker(C, st, r), Weaker(C, r, k)
    PROVE  Weaker(C, st, k)
BY DEF Weaker

LEMMA WeakerPart ==
    ASSUME NEW C, NEW D \in SUBSET C, NEW st, NEW r, Weaker(C, st, r)
    PROVE  Weaker(D, st, r)
BY DEF Weaker

LEMMA SameWeaker ==
    ASSUME NEW n \in Nodes, NEW st, NEW r, SameStates(n, st, r)
    PROVE  Weaker(CoresOf(n), st, r)
BY DEF Weaker, SameStates

\* A step of core c: what the other cores of its node may gain from it.
LEMMA UserFits ==
    ASSUME Types, ThreadInv, MissInv, NEW n \in Nodes, NEW c \in CoresOf(n), NEW p, NEW o,
           pc' = [pc EXCEPT ![c] = p], op' = [op EXCEPT ![c] = o],
           \A m \in Nodes \ {n} : SameStates(m, stack[m], stack'[m]) /\ net'[m] = net[m],
           Weaker(CoresOf(n) \ {c}, stack[n], stack'[n]),
           \/ \A d \in CoresOf(n) \ {c} : pc[d] # "locked"
           \/ SameStates(n, stack[n], stack'[n]),
           net'[n] = net[n] \/ Clean(CoresOf(n) \ {c}, stack'[n], net[n].a),
           CoreFits(p, o, stack'[n].l1[c][o.a].s, net'[n].pc = "handoff" /\ net'[n].a = o.a)
    PROVE  MissInv'
<1>1. pc \in [Cores -> Control] /\ op \in [Cores -> Op] /\ c \in Cores /\ NodeOf[c] = n
  BY DEF Types, ThreadsOK, CoresOf
<1>2. CoreNext(c)
  BY <1>1, Zenon DEF CoreNext
<1>3. ASSUME NEW d \in CoresOf(n) \ {c}
      PROVE  CoreNext(d)
  <2>1. d \in Cores /\ pc'[d] = pc[d] /\ op'[d] = op[d]
    BY <1>1, <1>3 DEF CoresOf
  <2>2. Weaker({d}, stack[n], stack'[n])
    BY DEF Weaker
  <2>3. pc[d] # "idle" => op[d].a \in Addrs
    BY <2>1 DEF ThreadInv, OpInv
  <2>4. pc[d] = "locked" => stack'[n].l1[d][op[d].a].s = stack[n].l1[d][op[d].a].s
    BY <2>3 DEF SameStates
  <2>5. net[n].a = op[d].a /\ stack'[n].l1[d][op[d].a].s = "M" => net'[n] = net[n]
    BY DEF Clean
  <2> QED
    BY <2>1, <2>2, <2>4, <2>5, OtherCore, Zenon
<1>4. \A d \in Cores \ CoresOf(n) : op'[d] = op[d] /\ pc'[d] = pc[d]
  BY <1>1
<1> QED
  BY <1>2, <1>3, <1>4, MissFromNode

LEMMA DirtyAbove ==
    ASSUME NEW n \in Nodes, NEW st \in Stack(n), Included(n, st), NEW d \in CoresOf(n), NEW x \in Addrs,
           st.l1[d][x].s = "M"
    PROVE  st.llc[x].s = "M"
<1>1. st.llc[x].s \in States /\ Order["M"] <= Order[st.llc[x].s]
  BY StackFields DEF Included
<1> QED
  BY <1>1, OrderFacts DEF States

LEMMA FirstLevelWorks ==
    ASSUME Types, ThreadInv, ErrInv, failed = "no", InclusionInv, MissInv,
           NEW n \in Nodes, NEW c \in CoresOf(n), NEW o \in Op, o.a \in Addrs, FirstLevel(n, c, o),
           o.sig = "LOCK" => IsWriter(o.t), o.sig = "UNLOCK" => stack[n].l1[c][o.a].s = "M"
    PROVE  failed' = "no" /\ MissInv'
<1>1. FirstLevelData(n, c, o) /\ net' = net /\ op' = [op EXCEPT ![c] = o]
  BY FirstLevelFacts DEF FirstLevel
<1>2. stack[n] \in Stack(n) /\ stack[n].err = "no" /\ Included(n, stack[n])
  BY DEF Types, StacksOK, ErrInv, InclusionInv, NodeInv, Sound
<1>3. CASE Permissible(stack[n].l1[c][o.a], o.t)
  <2>1. Accessed(n, c, o, stack[n])
    BY <1>1, <1>3 DEF FirstLevelData
  <2>2. o.t = "W" => stack[n].llc[o.a].s = "M"
    BY <1>2, <1>3, DirtyAbove DEF Permissible
  <2>3. failed' = "no" /\ \A m \in Nodes : SameStates(m, stack[m], stack'[m])
    BY <1>2, <1>3, <2>1, <2>2 DEF Accessed
  <2>4. AccessEnds(c, o)
    BY <1>3, EndOfAccess DEF FirstLevel
  <2>5. PICK p \in Threads : pc' = [pc EXCEPT ![c] = p] /\ (p = "locked" <=> o.sig = "LOCK")
    BY <2>4 DEF AccessEnds
  <2>6. stack'[n].l1[c][o.a].s = stack[n].l1[c][o.a].s
    BY <2>3 DEF SameStates
  <2>7. o.sig = "LOCK" => stack'[n].l1[c][o.a].s = "M"
    BY <1>3, <2>6 DEF Permissible, IsWriter
  <2>8. CoreFits(p, o, stack'[n].l1[c][o.a].s, net'[n].pc = "handoff" /\ net'[n].a = o.a)
    BY <2>5, <2>7 DEF CoreFits, Threads
  <2>9. Weaker(CoresOf(n) \ {c}, stack[n], stack'[n])
    BY <2>3 DEF SameStates, Weaker
  <2> QED
    BY <1>1, <2>3, <2>5, <2>8, <2>9, UserFits
<1>4. CASE ~Permissible(stack[n].l1[c][o.a], o.t)
  <2>1. stack' = stack /\ pc' = [pc EXCEPT ![c] = "missed"]
    BY <1>4 DEF FirstLevel
  <2>2. stack[n].l1[c][o.a].s # "M"
    BY <1>4 DEF Permissible
  <2>3. failed' = "no"
    BY <1>4, <2>2 DEF FirstLevel
  <2>4. CoreFits("missed", o, stack'[n].l1[c][o.a].s, net'[n].pc = "handoff" /\ net'[n].a = o.a)
    BY <2>1, <2>2 DEF CoreFits
  <2>5. \A m \in Nodes : SameStates(m, stack[m], stack'[m])
    BY <2>1, SameIsSame
  <2>6. Weaker(CoresOf(n) \ {c}, stack[n], stack'[n])
    BY <2>1 DEF Weaker
  <2> QED
    BY <1>1, <2>1, <2>3, <2>4, <2>5, <2>6, UserFits
<1> QED
  BY <1>3, <1>4

LEMMA NextLevelWorks ==
    ASSUME Types, LockTypes, ThreadInv, ErrInv, InclusionInv, MissInv, NEW c \in Cores, NextLevel(c)
    PROVE  failed' = "no" /\ MissInv'
<1> DEFINE n == NodeOf[c]
           o == op[c]
           C == CoresOf(n) \ {c}
<1>1. n \in Nodes /\ c \in CoresOf(n) /\ o \in Op /\ stack[n] \in Stack(n) /\ op \in [Cores -> Op]
  BY NodeOfCore, Zenon DEF Types, ThreadsOK, StacksOK
<1>2. pc[c] = "missed" /\ (LockFree(n) \/ lock[n].ex = c) /\ UNCHANGED <<op, net>>
  BY Zenon DEF NextLevel
<1>3. o.a \in Addrs
  BY <1>2 DEF ThreadInv, OpInv
<1>4. NextLevelData(n, c, o)
  BY <1>3, NextLevelFacts
<1>5. CoreFits("missed", o, stack[n].l1[c][o.a].s, net[n].pc = "handoff" /\ net[n].a = o.a)
  BY <1>2 DEF MissInv, CoreInv
<1>6. op' = [op EXCEPT ![c] = o]
  BY <1>1, <1>2
<1> HIDE DEF n, o
<1>7. (\A d \in CoresOf(n) : pc[d] # "woken") /\ net[n].pc # "handoff" /\ Exempt(n) = {}
  BY <1>1, <1>2, NoneWoken
<1>8. Sound(n, stack[n], {}) /\ stack[n].err = "no"
  BY <1>1, <1>7 DEF InclusionInv, NodeInv, ErrInv
<1>9. PICK st \in Stack(n) :
        /\ Invalidated(n, stack[n], c, o.a, st)
        /\ \/ /\ \E r : AnyServed(n, st, C, o.t, o.a, r) /\ Filled(n, c, o, r.st)
              /\ AccessEnds(c, o)
           \/ Queued(n, st, C, o.t, o.a) /\ pc' = [pc EXCEPT ![c] = "waiting"]
  BY <1>4 DEF NextLevelData
<1>10. Sound(n, st, {}) /\ Included(n, st) /\ st.err = "no" /\ st.l1[c][o.a].s = "I"
       /\ Weaker(CoresOf(n), stack[n], st)
  <2>1. Sound(n, st, {})
    BY <1>1, <1>3, <1>8, <1>9, InvalidatedSound
  <2>2. st.err = "no"
    BY <1>5, <1>7, <1>8, <1>9 DEF CoreFits, Invalidated
  <2>3. st.l1[c][o.a].s = "I" /\ Weaker(CoresOf(n), stack[n], st)
    BY <1>1, <1>3, <1>9 DEF Invalidated, Weaker
  <2> QED
    BY <2>1, <2>2, <2>3 DEF Sound
<1>11. C \in SUBSET CoresOf(n)
  OBVIOUS
<1>12. \A d \in C : pc[d] # "locked"
  <2>1. c # "free"
    BY CacheAssumption
  <2> QED
    BY <1>1, <1>2, <2>1, NobodyLocked
<1>13. net'[n] = net[n] /\ \A m \in Nodes \ {n} : net'[m] = net[m]
  BY <1>2
<1>14. ASSUME NEW r, AnyServed(n, st, C, o.t, o.a, r), Filled(n, c, o, r.st), AccessEnds(c, o)
       PROVE  failed' = "no" /\ MissInv'
  <2>1. PICK k \in Stack(n) : k = r.st
    BY <1>14 DEF AnyServed
  <2>2. k.err = "no" /\ Permissible(k.llc[o.a], o.t) /\ Weaker(CoresOf(n), st, k)
    BY <1>1, <1>3, <1>10, <1>11, <1>14, <2>1, ServedWorks
  <2>3. Sound(n, k, {})
    BY <1>1, <1>3, <1>10, <1>11, <1>14, <2>1, ServedSound
  <2>4. Included(n, k) /\ k.l1[c][o.a].s = "I" /\ Filled(n, c, o, k)
    BY <1>1, <1>3, <1>10, <1>14, <2>1, <2>2, <2>3 DEF Sound, Weaker
  <2>5. /\ failed' = "no" /\ Weaker(C, k, stack'[n]) /\ stack'[n].l1[c][o.a].s = k.llc[o.a].s
        /\ \A m \in Nodes \ {n} : SameStates(m, stack[m], stack'[m])
    BY <1>1, <1>3, <2>2, <2>4, FilledWorks
  <2>6. PICK p \in Threads : pc' = [pc EXCEPT ![c] = p] /\ (p = "locked" <=> o.sig = "LOCK")
    BY <1>14 DEF AccessEnds
  <2>7. o.sig = "LOCK" => IsWriter(o.t) /\ k.llc[o.a].s = "M"
    BY <1>5, <2>2 DEF CoreFits, Permissible, IsWriter
  <2>8. CoreFits(p, o, stack'[n].l1[c][o.a].s, net'[n].pc = "handoff" /\ net'[n].a = o.a)
    BY <2>5, <2>6, <2>7 DEF CoreFits, Threads
  <2>9. Weaker(C, stack[n], stack'[n])
    BY <1>10, <2>2, <2>5 DEF Weaker
  <2> QED
    BY <1>1, <1>6, <1>12, <1>13, <2>5, <2>6, <2>8, <2>9, UserFits DEF Threads
<1>15. ASSUME Queued(n, st, C, o.t, o.a), pc' = [pc EXCEPT ![c] = "waiting"]
       PROVE  failed' = "no" /\ MissInv'
  <2>1. /\ failed' = "no" /\ Weaker(CoresOf(n), st, stack'[n])
        /\ \A m \in Nodes \ {n} : stack'[m] = stack[m]
    BY <1>1, <1>3, <1>10, <1>11, <1>15, QueuedWorks
  <2>2. stack'[n].l1[c][o.a].s = "I"
    BY <1>1, <1>3, <1>10, <2>1 DEF Weaker
  <2>3. CoreFits("waiting", o, stack'[n].l1[c][o.a].s, net'[n].pc = "handoff" /\ net'[n].a = o.a)
    BY <1>5, <2>2 DEF CoreFits
  <2>4. Weaker(C, stack[n], stack'[n])
    BY <1>10, <2>1 DEF Weaker
  <2>5. \A m \in Nodes \ {n} : SameStates(m, stack[m], stack'[m])
    BY <2>1, SameIsSame
  <2> QED
    BY <1>1, <1>6, <1>12, <1>13, <1>15, <2>1, <2>3, <2>4, <2>5, UserFits
<1> QED
  BY <1>9, <1>14, <1>15

LEMMA RefillWorks ==
    ASSUME Types, LockTypes, ThreadInv, ErrInv, InclusionInv, MissInv, NEW c \in Cores, Refill(c)
    PROVE  failed' = "no" /\ MissInv'
<1> DEFINE n == NodeOf[c]
           o == op[c]
           C == CoresOf(n) \ {c}
<1>1. n \in Nodes /\ c \in CoresOf(n) /\ o \in Op /\ stack[n] \in Stack(n) /\ op \in [Cores -> Op]
  BY NodeOfCore DEF Types, ThreadsOK, StacksOK
<1>2. /\ pc[c] = "woken" /\ o.t # "P" /\ net' = [net EXCEPT ![n].pc = "signalled"] /\ op' = op
      /\ FillAndAccess(n, c, o, RefillChecked(n, c, o), dram)
  BY RefillParts
<1>3. o.a \in Addrs
  BY <1>2 DEF ThreadInv, OpInv
<1>4. RefillData(n, c, o)
  BY <1>3, RefillDataFacts
<1>5. CoreFits("woken", o, stack[n].l1[c][o.a].s, net[n].pc = "handoff" /\ net[n].a = o.a)
  BY <1>2 DEF MissInv, CoreInv
<1>6. op[c] = o /\ op' = [op EXCEPT ![c] = o]
  BY <1>1, <1>2
<1> HIDE DEF n, o
<1>7. AccessEnds(c, o)
  BY <1>2, EndOfAccess DEF FillAndAccess
<1>8. NodeInv(n) /\ stack[n].err = "no"
  BY <1>1 DEF InclusionInv, ErrInv
<1>9. lock[n].ex = c /\ net[n].pc = "handoff" /\ o.a = net[n].a
  BY <1>1, <1>2, <1>6, WokenFacts
<1>10. /\ Sound(n, stack[n], {o.a}) /\ stack[n].llc[o.a].s \in {"S", "E", "M"}
       /\ IsWriter(o.t) => stack[n].llc[o.a].s \in {"E", "M"}
  BY <1>1, <1>2, <1>6, <1>8, <1>9 DEF NodeInv, Exempt, Present, Granted
<1>11. PICK k \in Stack(n) : RefillStack(n, c, o, k) /\ Filled(n, c, o, k)
  BY <1>4 DEF RefillData
<1>12. PICK j \in Stack(n) :
         /\ \/ Permissible(stack[n].llc[o.a], o.t) /\ HitServed(n, stack[n], C, o.t, o.a, j)
            \/ ~Permissible(stack[n].llc[o.a], o.t) /\ Upgraded(n, stack[n], C, o.a, j)
         /\ k.l1 = j.l1 /\ k.llc = j.llc
         /\ k.err = "no" <=> j.err = "no" /\ Permissible(j.llc[o.a], o.t)
  BY <1>11 DEF RefillStack
<1>13. C \in SUBSET CoresOf(n)
  OBVIOUS
<1>14. stack[n].llc[o.a].s = "M" \/ \A d \in C : stack[n].l1[d][o.a].s # "M"
  BY <1>1, <1>3, <1>10, DirtyAbove DEF Sound
<1>15. /\ j.err = "no" /\ Permissible(j.llc[o.a], o.t) /\ Weaker(CoresOf(n), stack[n], j)
       /\ Included(n, j) /\ Clean(C, j, o.a)
  <2> DEFINE P == {o.a}
             s == stack[n]
             a == o.a
             t == o.t
  <2>0. Sound(n, s, P) /\ s \in Stack(n) /\ a \in Addrs /\ s.err = "no"
    BY <1>1, <1>3, <1>8, <1>10
  <2>1. CASE Permissible(s.llc[a], t) /\ HitServed(n, s, C, t, a, j)
    <3>1. Permissible(j.llc[a], t)
      BY <1>3, <2>1 DEF HitServed, Permissible
    <3>2. j.err = "no"
      BY <1>14, <2>0, <2>1 DEF HitServed
    <3>3. Weaker(CoresOf(n), s, j)
      BY <2>1 DEF HitServed, Weaker
    <3> HIDE DEF P, s, a, t, C
    <3>4. Sound(n, j, P) /\ Clean(C, j, a)
      BY <1>1, <1>13, <2>0, <2>1, HitSound
    <3> QED
      BY <3>1, <3>2, <3>3, <3>4 DEF P, s, a, t, Sound
  <2>2. CASE ~Permissible(s.llc[a], t) /\ Upgraded(n, s, C, a, j)
    <3>1. s.llc[a].s = "E" /\ IsWriter(t)
      BY <1>10, <2>2 DEF Permissible, IsWriter
    <3>2. Permissible(j.llc[a], t)
      BY <2>2, <3>1 DEF Upgraded, Permissible, IsWriter
    <3>3. j.err = "no"
      BY <1>14, <2>0, <2>2 DEF Upgraded
    <3>4. Weaker(CoresOf(n), s, j)
      BY <2>2 DEF Upgraded, Weaker
    <3> HIDE DEF P, s, a, t, C
    <3>5. Sound(n, j, P) /\ Clean(C, j, a)
      BY <1>1, <1>13, <2>0, <2>2, <3>2, UpgradedSound
    <3> QED
      BY <3>2, <3>3, <3>4, <3>5 DEF P, s, a, t, Sound
  <2> QED
    BY <1>12, <2>1, <2>2
<1>16. /\ k.err = "no" /\ Permissible(k.llc[o.a], o.t) /\ Weaker(CoresOf(n), stack[n], k)
       /\ Included(n, k) /\ Clean(C, k, o.a)
  BY <1>12, <1>15 DEF Weaker, Included, Clean
<1>17. k.l1[c][o.a].s = "I"
  BY <1>1, <1>2, <1>3, <1>5, <1>16 DEF Weaker, CoreFits
<1>18. /\ failed' = "no" /\ Weaker(C, k, stack'[n]) /\ stack'[n].l1[c][o.a].s = k.llc[o.a].s
       /\ \A m \in Nodes \ {n} : SameStates(m, stack[m], stack'[m])
  BY <1>1, <1>3, <1>11, <1>16, <1>17, FilledWorks
<1>19. PICK p \in Threads : pc' = [pc EXCEPT ![c] = p] /\ (p = "locked" <=> o.sig = "LOCK")
  BY <1>7 DEF AccessEnds
<1>20. o.sig = "LOCK" => IsWriter(o.t) /\ k.llc[o.a].s = "M"
  BY <1>5, <1>16 DEF CoreFits, Permissible, IsWriter
<1>21. CoreFits(p, o, stack'[n].l1[c][o.a].s, net'[n].pc = "handoff" /\ net'[n].a = o.a)
  BY <1>18, <1>19, <1>20 DEF CoreFits, Threads
<1>22. Weaker(C, stack[n], stack'[n])
  BY <1>16, <1>18 DEF Weaker
<1>23. Clean(C, stack'[n], net[n].a)
  BY <1>3, <1>9, <1>16, <1>18 DEF Clean, Weaker
<1>24. \A d \in C : pc[d] # "locked"
  <2>1. c # "free"
    BY CacheAssumption
  <2> QED
    BY <1>1, <1>9, <2>1, NobodyLocked
<1>25. \A m \in Nodes \ {n} : net'[m] = net[m]
  BY <1>2
<1>26. MissInv'
  BY <1>1, <1>6, <1>18, <1>19, <1>21, <1>22, <1>23, <1>24, <1>25, UserFits
<1> QED
  BY <1>18, <1>26

LEMMA PrefetchWorks ==
    ASSUME Types, ThreadInv, failed = "no", MissInv, NEW c \in Cores, Prefetch(c)
    PROVE  failed' = "no" /\ MissInv'
<1> DEFINE n == NodeOf[c]
<1>1. n \in Nodes /\ c \in CoresOf(n) /\ op \in [Cores -> Op]
  BY NodeOfCore DEF Types, ThreadsOK
<1>2. /\ UNCHANGED <<stack, net, failed>>
      /\ \/ pc' = [pc EXCEPT ![c] = "idle"] /\ op' = op
         \/ \E a \in Addrs : /\ pc' = [pc EXCEPT ![c] = "prefetching"]
                             /\ op' = [op EXCEPT ![c] = [t |-> "P", a |-> a, sig |-> "NONE"]]
  BY PrefetchParts
<1>3. op[c].sig = "LOCK" => IsWriter(op[c].t)
  BY DEF MissInv, CoreInv, CoreFits
<1>4. PICK p \in {"idle", "prefetching"}, o \in Op :
         pc' = [pc EXCEPT ![c] = p] /\ op' = [op EXCEPT ![c] = o] /\ (o.sig = "LOCK" => IsWriter(o.t))
  <2>1. CASE pc' = [pc EXCEPT ![c] = "idle"] /\ op' = op
    <3>1. op' = [op EXCEPT ![c] = op[c]] /\ op[c] \in Op
      BY <1>1, <2>1
    <3> QED
      BY <1>3, <2>1, <3>1
  <2>2. ASSUME NEW a \in Addrs, pc' = [pc EXCEPT ![c] = "prefetching"],
               op' = [op EXCEPT ![c] = [t |-> "P", a |-> a, sig |-> "NONE"]]
        PROVE  \E p \in {"idle", "prefetching"}, o \in Op :
                  pc' = [pc EXCEPT ![c] = p] /\ op' = [op EXCEPT ![c] = o] /\ (o.sig = "LOCK" => IsWriter(o.t))
    <3> DEFINE o == [t |-> "P", a |-> a, sig |-> "NONE"]
    <3>1. op' = [op EXCEPT ![c] = o] /\ (o.sig = "LOCK" => IsWriter(o.t)) /\ o \in Op
      BY <2>2 DEF Op
    <3> HIDE DEF o
    <3> QED
      BY <2>2, <3>1
  <2> QED
    BY <1>2, <2>1, <2>2
<1> HIDE DEF n
<1>5. CoreFits(p, o, stack'[n].l1[c][o.a].s, net'[n].pc = "handoff" /\ net'[n].a = o.a)
  BY <1>4 DEF CoreFits
<1>6. \A m \in Nodes : SameStates(m, stack[m], stack'[m])
  BY <1>2, SameIsSame
<1>7. Weaker(CoresOf(n) \ {c}, stack[n], stack'[n])
  BY <1>2 DEF Weaker
<1>8. MissInv'
  BY <1>1, <1>2, <1>4, <1>5, <1>6, <1>7, UserFits
<1> QED
  BY <1>2, <1>8

LEMMA DoPrefetchWorks ==
    ASSUME Types, LockTypes, ThreadInv, ErrInv, InclusionInv, MissInv, NEW c \in Cores, DoPrefetch(c)
    PROVE  failed' = "no" /\ MissInv'
<1> DEFINE n == NodeOf[c]
           o == op[c]
           a == op[c].a
           C == CoresOf(n)
<1>1. n \in Nodes /\ c \in CoresOf(n) /\ stack[n] \in Stack(n) /\ op \in [Cores -> Op]
  BY NodeOfCore DEF Types, ThreadsOK, StacksOK
<1>2. pc[c] = "prefetching" /\ LockFree(n) /\ net' = net /\ op' = op
      /\ \/ DoPrefetchEnds(c)
         \/ InitiateDirectoryAccess(n, c, "P", a, Upgrade(stack[n], CoresOf(n), a))
  BY DoPrefetchParts
<1>3. a \in Addrs /\ o.t = "P"
  BY <1>2 DEF ThreadInv, OpInv
<1>4. DoPrefetchData(n, a)
  BY <1>3, DoPrefetchFacts
<1>5. op' = [op EXCEPT ![c] = o] /\ (o.sig = "LOCK" => IsWriter(o.t)) /\ o.a = a
  BY <1>1, <1>2 DEF MissInv, CoreInv, CoreFits
<1>6. PICK p \in {"idle", "waiting"} : pc' = [pc EXCEPT ![c] = p]
  <2>1. DoPrefetchEnds(c) => pc' = [pc EXCEPT ![c] = "idle"]
    BY DEF DoPrefetchEnds, EndPrefetch
  <2>2. InitiateDirectoryAccess(n, c, "P", a, Upgrade(stack[n], CoresOf(n), a))
           => pc' = [pc EXCEPT ![c] = "waiting"]
    BY DEF InitiateDirectoryAccess
  <2> QED
    BY <1>2, <2>1, <2>2
<1> HIDE DEF n, a, o
<1>7. Included(n, stack[n]) /\ stack[n].err = "no"
  BY <1>1 DEF InclusionInv, NodeInv, Sound, ErrInv
<1>8. C \in SUBSET CoresOf(n)
  OBVIOUS
<1>9. /\ failed' = "no" /\ Weaker(C, stack[n], stack'[n])
      /\ \A m \in Nodes \ {n} : stack'[m] = stack[m]
  <2>1. ASSUME NEW r, AnyServed(n, stack[n], C, "P", a, r), Replaced(n, r.st)
        PROVE  /\ failed' = "no" /\ Weaker(C, stack[n], stack'[n])
               /\ \A m \in Nodes \ {n} : stack'[m] = stack[m]
    <3>1. r.st.err = "no" /\ Weaker(C, stack[n], r.st)
      BY <1>1, <1>3, <1>7, <1>8, <2>1, ServedWorks
    <3>2. stack'[n] = r.st /\ failed' = r.st.err /\ \A m \in Nodes \ {n} : stack'[m] = stack[m]
      BY <1>1, <2>1 DEF Replaced, Types, StacksOK
    <3> QED
      BY <3>1, <3>2
  <2>2. ASSUME Queued(n, stack[n], C, "P", a)
        PROVE  /\ failed' = "no" /\ Weaker(C, stack[n], stack'[n])
               /\ \A m \in Nodes \ {n} : stack'[m] = stack[m]
    BY <1>1, <1>3, <1>7, <1>8, <2>2, QueuedWorks
  <2> QED
    BY <1>4, <2>1, <2>2 DEF DoPrefetchData
<1>10. \A d \in CoresOf(n) \ {c} : pc[d] # "locked"
  <2>1. c # "free"
    BY CacheAssumption
  <2> QED
    BY <1>1, <1>2, <2>1, NobodyLocked
<1>11. CoreFits(p, o, stack'[n].l1[c][o.a].s, net'[n].pc = "handoff" /\ net'[n].a = o.a)
  BY <1>3, <1>5, <1>6 DEF CoreFits
<1>12. Weaker(CoresOf(n) \ {c}, stack[n], stack'[n])
  BY <1>9 DEF Weaker
<1>13. net'[n] = net[n]
       /\ \A m \in Nodes \ {n} : SameStates(m, stack[m], stack'[m]) /\ net'[m] = net[m]
  BY <1>2, <1>9, SameIsSame
<1>14. MissInv'
  BY <1>1, <1>5, <1>6, <1>10, <1>11, <1>12, <1>13, UserFits
<1> QED
  BY <1>9, <1>14

LEMMA RefillPrefetchWorks ==
    ASSUME Types, LockTypes, ThreadInv, ErrInv, InclusionInv, MissInv, NEW c \in Cores, RefillPrefetch(c)
    PROVE  failed' = "no" /\ MissInv'
<1> DEFINE n == NodeOf[c]
           o == op[c]
           a == op[c].a
           C == CoresOf(n)
<1>1. n \in Nodes /\ c \in CoresOf(n) /\ stack[n] \in Stack(n) /\ op \in [Cores -> Op]
  BY NodeOfCore DEF Types, ThreadsOK, StacksOK
<1>2. OpsUsed
  BY DEF ThreadInv, OpInv, OpsUsed
<1>3. /\ pc[c] = "woken" /\ o.t = "P" /\ net' = [net EXCEPT ![n].pc = "signalled"] /\ op' = op
      /\ \E r \in Stack(n) : EndPrefetch(n, c, r, dram) /\ PrefetchRefilled(c, r)
  BY <1>2, RefillPrefetchParts
<1>4. a \in Addrs
  BY <1>3 DEF ThreadInv, OpInv
<1>5. PICK r \in Stack(n) : EndPrefetch(n, c, r, dram) /\ PrefetchRefilled(c, r)
  BY <1>3
<1>6. PICK k \in Stack(n) :
         /\ k.l1 = stack[n].l1 /\ k.llc = stack[n].llc
         /\ k.err = "no" <=> stack[n].err = "no" /\ Permissible(stack[n].llc[a], "P")
         /\ HitServed(n, k, C, "P", a, r)
  BY <1>5 DEF PrefetchRefilled
<1>7. op' = [op EXCEPT ![c] = o] /\ (o.sig = "LOCK" => IsWriter(o.t)) /\ o.a = a /\ op[c].a = a
  BY <1>1, <1>3 DEF MissInv, CoreInv, CoreFits
<1> HIDE DEF n, a, o
<1>8. NodeInv(n) /\ stack[n].err = "no"
  BY <1>1 DEF InclusionInv, ErrInv
<1>9. lock[n].ex = c /\ net[n].pc = "handoff" /\ a = net[n].a
  BY <1>1, <1>3, <1>7, WokenFacts
<1>10. Sound(n, k, {a}) /\ k.llc[a].s \in {"S", "E", "M"}
  BY <1>6, <1>8, <1>9 DEF NodeInv, Exempt, Present, Sound, Included, OneDirty
<1>11. C \in SUBSET CoresOf(n)
  OBVIOUS
<1>12. Permissible(k.llc[a], "P") /\ k.err = "no"
  BY <1>6, <1>8, <1>10 DEF Permissible
<1>13. k.llc[a].s = "M" \/ \A d \in C : k.l1[d][a].s # "M"
  BY <1>1, <1>4, <1>10, DirtyAbove DEF Sound
<1>14. r.err = "no" /\ Weaker(C, stack[n], r)
  BY <1>6, <1>12, <1>13 DEF HitServed, Weaker
<1>15. Clean(C, r, a)
  <2> DEFINE P == {a}
  <2>1. Sound(n, k, P) /\ HitServed(n, k, C, "P", a, r)
    BY <1>6, <1>10
  <2> HIDE DEF P, C
  <2> QED
    BY <1>1, <1>4, <1>11, <1>12, <2>1, HitSound
<1>16. /\ stack'[n] = r /\ failed' = r.err /\ pc' = [pc EXCEPT ![c] = "idle"]
       /\ \A m \in Nodes \ {n} : stack'[m] = stack[m]
  BY <1>1, <1>5 DEF EndPrefetch, Types, StacksOK
<1>17. \A d \in CoresOf(n) \ {c} : pc[d] # "locked"
  <2>1. c # "free"
    BY CacheAssumption
  <2> QED
    BY <1>1, <1>9, <2>1, NobodyLocked
<1>18. CoreFits("idle", o, stack'[n].l1[c][o.a].s, net'[n].pc = "handoff" /\ net'[n].a = o.a)
  BY <1>7 DEF CoreFits
<1>19. Weaker(CoresOf(n) \ {c}, stack[n], stack'[n]) /\ Clean(CoresOf(n) \ {c}, stack'[n], net[n].a)
  BY <1>9, <1>14, <1>15, <1>16 DEF Weaker, Clean
<1>20. \A m \in Nodes \ {n} : SameStates(m, stack[m], stack'[m]) /\ net'[m] = net[m]
  BY <1>3, <1>16, SameIsSame
<1>21. MissInv'
  BY <1>1, <1>7, <1>16, <1>17, <1>18, <1>19, <1>20, UserFits
<1> QED
  BY <1>14, <1>16, <1>21

\* No operation of a core fails an assertion.
LEMMA UserWorks ==
    ASSUME Types, LockTypes, ThreadInv, ErrInv, failed = "no", InclusionInv, MissInv,
           NEW c \in Cores, UserStep(c)
    PROVE  failed' = "no" /\ MissInv'
<1>1. /\ NodeOf[c] \in Nodes /\ c \in CoresOf(NodeOf[c]) /\ op[c] \in Op
      /\ pc[c] # "idle" => op[c].a \in Addrs
  BY NodeOfCore DEF Types, ThreadsOK, ThreadInv, OpInv
<1>2. ASSUME NEW t \in Kinds[c], NEW a \in Addrs, Issue(c, Operation(t, a))
      PROVE  failed' = "no" /\ MissInv'
  <2> DEFINE o == Operation(t, a)
  <2>1. t \in {"R", "W", "X"}
    BY CacheAssumption
  <2>2. o \in Op /\ o.a \in Addrs /\ (o.sig = "LOCK" => IsWriter(o.t)) /\ o.sig # "UNLOCK"
    BY <2>1 DEF Op, Operation, IsWriter
  <2>3. FirstLevel(NodeOf[c], c, o)
    BY <1>2 DEF Issue
  <2> HIDE DEF o
  <2> QED
    BY <1>1, <2>2, <2>3, FirstLevelWorks
<1>3. CASE IssueUnlock(c)
  <2> DEFINE o == [t |-> "W", a |-> op[c].a, sig |-> "UNLOCK"]
  <2>1. pc[c] = "locked" /\ FirstLevel(NodeOf[c], c, o)
    BY <1>3 DEF IssueUnlock
  <2>2. stack[NodeOf[c]].l1[c][op[c].a].s = "M"
    BY <2>1 DEF MissInv, CoreInv, CoreFits
  <2>3. o \in Op /\ o.a \in Addrs /\ o.sig # "LOCK" /\ stack[NodeOf[c]].l1[c][o.a].s = "M"
    BY <1>1, <2>1, <2>2 DEF Op
  <2> HIDE DEF o
  <2> QED
    BY <1>1, <2>1, <2>3, FirstLevelWorks
<1> QED
  BY <1>2, <1>3, NextLevelWorks, RefillWorks, PrefetchWorks, DoPrefetchWorks, RefillPrefetchWorks
  DEF UserStep

\* A step of the network thread wakes only threads of its node that wait.
WakesOnly(n) ==
    /\ \A d \in Cores \ CoresOf(n) : pc'[d] = pc[d]
    /\ \A d \in CoresOf(n) : pc'[d] = pc[d] \/ (pc[d] = "waiting" /\ pc'[d] = "woken")
\* It makes no copy dirty except of a line a that it hands over.
Dirties(n, a) ==
    \A d \in CoresOf(n), x \in Addrs :
       /\ stack[n].l1[d][x].s = "I" => stack'[n].l1[d][x].s = "I"
       /\ stack'[n].l1[d][x].s = "M" => \/ stack[n].l1[d][x].s = "M"
                                        \/ x = a /\ net'[n].pc = "handoff" /\ net'[n].a = a

\* A step of the network thread: it makes copies dirty only as it hands their
\* line over, and wakes only threads that wait.
LEMMA NetFits ==
    ASSUME Types, LockTypes, ThreadInv, MissInv, NEW n \in Nodes, LockFree(n), net[n].pc # "handoff",
           op' = op, NEW a, WakesOnly(n), Dirties(n, a),
           \A m \in Nodes \ {n} : stack'[m] = stack[m] /\ net'[m] = net[m]
    PROVE  MissInv'
<1>1. ASSUME NEW d \in CoresOf(n)
      PROVE  CoreNext(d)
  <2>1. d \in Cores /\ NodeOf[d] = n
    BY <1>1 DEF CoresOf
  <2>2. CoreInv(d) /\ (pc[d] # "idle" => op[d].a \in Addrs)
    BY <2>1 DEF MissInv, ThreadInv, OpInv
  <2>3. pc[d] # "locked"
    BY <1>1, <2>1, CacheAssumption DEF ThreadInv, LockInv, LockFree
  <2>4. pc'[d] = pc[d] \/ (pc[d] = "waiting" /\ pc'[d] = "woken")
    BY <1>1 DEF WakesOnly
  <2>5. ASSUME op[d].a \in Addrs
        PROVE  /\ stack[n].l1[d][op[d].a].s = "I" => stack'[n].l1[d][op[d].a].s = "I"
               /\ stack'[n].l1[d][op[d].a].s = "M" => \/ stack[n].l1[d][op[d].a].s = "M"
                                                      \/ net'[n].pc = "handoff" /\ net'[n].a = op[d].a
    BY <1>1, <2>5 DEF Dirties
  <2> QED
    BY <2>1, <2>2, <2>3, <2>4, <2>5 DEF CoreInv, CoreNext, CoreFits
<1>2. \A m \in Nodes \ {n} : SameStates(m, stack[m], stack'[m])
  BY SameIsSame
<1>3. \A d \in Cores \ CoresOf(n) : op'[d] = op[d] /\ pc'[d] = pc[d]
  BY DEF WakesOnly
<1> QED
  BY <1>1, <1>2, <1>3, MissFromNode

\* The loop over the waiters, which finds the first of them waiting.
LEMMA WakeFits ==
    ASSUME Types, LockTypes, ThreadInv, MissInv, NEW n \in Nodes, LockFree(n), net[n].pc # "handoff",
           op' = op, NEW a, NEW k, NEW ws, WakeOutcome(n, a, k, ws),
           ws # <<>> => ws[1].c \in CoresOf(n) /\ pc[ws[1].c] = "waiting",
           \A m \in Nodes \ {n} : stack'[m] = stack[m],
           \A d \in CoresOf(n), x \in Addrs :
              /\ stack[n].l1[d][x].s = "I" => stack'[n].l1[d][x].s = "I"
              /\ stack'[n].l1[d][x].s = "M" => \/ stack[n].l1[d][x].s = "M"
                                               \/ x = a /\ ws # <<>> /\ ~NeedsUpgrade(ws[1], k.llc[a])
    PROVE  MissInv'
<1>1. pc \in [Cores -> Control] /\ n \in DOMAIN net
  BY DEF Types, ThreadsOK
<1> DEFINE handed == ws # <<>> /\ ~NeedsUpgrade(ws[1], k.llc[a])
<1>2. CASE handed
  <2>1. net' = [net EXCEPT ![n] = [pc |-> "handoff", a |-> a]] /\ pc' = [pc EXCEPT ![ws[1].c] = "woken"]
    BY <1>2 DEF WakeOutcome
  <2>2. net'[n].pc = "handoff" /\ net'[n].a = a /\ \A m \in Nodes \ {n} : net'[m] = net[m]
    BY <1>1, <2>1
  <2>3. WakesOnly(n)
    <3>1. CoresOf(n) \subseteq Cores
      BY DEF CoresOf
    <3> QED
      BY <1>1, <1>2, <2>1, <3>1 DEF WakesOnly
  <2>4. Dirties(n, a)
    BY <2>2 DEF Dirties
  <2>5. \A m \in Nodes \ {n} : stack'[m] = stack[m] /\ net'[m] = net[m]
    BY <2>2
  <2> QED
    BY <2>3, <2>4, <2>5, NetFits
<1>3. CASE ~handed
  <2>1. net' = [net EXCEPT ![n] = [pc |-> "idle", a |-> None]] /\ pc' = pc
    BY <1>3 DEF WakeOutcome
  <2>2. \A m \in Nodes \ {n} : stack'[m] = stack[m] /\ net'[m] = net[m]
    BY <2>1
  <2>3. WakesOnly(n) /\ Dirties(n, a)
    BY <1>3, <2>1 DEF WakesOnly, Dirties
  <2> QED
    BY <2>2, <2>3, NetFits
<1> QED
  BY <1>2, <1>3

LEMMA ResumeWorks ==
    ASSUME Types, LockTypes, ThreadInv, ErrInv, MissInv, NEW n \in Nodes, ResumeWaiters(n)
    PROVE  failed' = "no" /\ MissInv'
<1> DEFINE a == net[n].a
           ws == Tail(waiters[n][a])
<1>1. net[n].pc = "signalled" /\ LockFree(n) /\ op' = op
  BY DEF ResumeWaiters
<1>2. Woken(n, a, stack[n], ws, <<>>) /\ WakeOutcome(n, a, stack[n], ws)
  BY ResumeDataFacts DEF ThreadInv
<1>3. a \in Addrs /\ waiters[n][a] # <<>> /\ waiters[n][a] \in Seq(Waiter)
  <2>1. a # None /\ waiters[n][a] # <<>>
    BY <1>1 DEF ThreadInv, NetInv
  <2>2. a \in Addrs
    BY <2>1 DEF Types, ThreadsOK
  <2> HIDE DEF a
  <2> QED
    BY <2>1, <2>2, ChannelTypes
<1>4. ASSUME ws # <<>>
      PROVE  ws[1].c \in CoresOf(n) /\ pc[ws[1].c] = "waiting"
  <2>1. ws[1] = waiters[n][a][2] /\ 2 \in DOMAIN waiters[n][a]
    <3> DEFINE q == waiters[n][a]
    <3>1. q \in Seq(Waiter) /\ q # <<>> /\ Tail(q) # <<>>
      BY <1>3, <1>4
    <3> HIDE DEF q
    <3>2. Tail(q)[1] = q[2] /\ 2 \in DOMAIN q
      BY <3>1
    <3> QED
      BY <3>2 DEF q
  <2>2. Live(n, a, 2)
    BY DEF Live
  <2> DEFINE d == waiters[n][a][2].c
  <2>3. pc[d] \in {"waiting", "woken"} /\ (pc[d] = "woken" => 2 = 1)
    BY <1>3, <2>1, <2>2 DEF ThreadInv, WaiterInv
  <2>4. d \in CoresOf(n)
    BY <1>3, <2>1 DEF LockTypes
  <2> QED
    BY <2>1, <2>3, <2>4
<1> HIDE DEF a, ws
<1>5. failed' = "no"
  BY <1>2 DEF Woken, ErrInv
<1>6. stack'[n].l1 = stack[n].l1 /\ \A m \in Nodes \ {n} : stack'[m] = stack[m]
  BY <1>2 DEF Woken
<1>7. MissInv'
  BY <1>1, <1>2, <1>4, <1>6, WakeFits
<1> QED
  BY <1>5, <1>7

\* A request of the directory fails no assertion: an INV_REQ does not find a
\* dirty line, and the others take the data along.
LEMMA HandleReqWorks ==
    ASSUME Types, LockTypes, ThreadInv, ErrInv, failed = "no", InclusionInv, MissInv, EntryInv, Lines,
           NEW n \in Nodes, HandleReq(n)
    PROVE  failed' = "no" /\ MissInv'
<1> DEFINE q == toCache[n]
           m == Head(q)
           a == m.a
           st == stack[n]
           s == st.llc[a].s
<1>1. /\ q # <<>> /\ m.t \in Ask /\ LockFree(n) /\ net[n].pc = "idle"
      /\ pc' = pc /\ op' = op /\ net' = net
  BY Zenon DEF HandleReq, Ask, userVars
<1>2. Answered(n, m) /\ a \in Addrs /\ q \in Seq(ToCache) /\ st \in Stack(n)
  <2>1. failed = stack[n].err
    BY DEF ErrInv
  <2> QED
    BY <1>1, <2>1, HandleReqFacts, HeadOfChannel DEF Types, ThreadsOK, StacksOK, ChannelsOK
<1>3. Tc(n, a)[1] = m.t
  <2>1. Tc(n, a) = View(q, a) /\ KindOf(m) = m.t
    BY <1>1 DEF Tc, KindOf, Ask
  <2> HIDE DEF q
  <2>2. View(q, a)[1] = IF Head(q).a = a THEN KindOf(Head(q)) ELSE "none"
    BY <1>1, <1>2, ViewOfTail
  <2> QED
    BY <2>1, <2>2
<1>4. st.err = "no" /\ Included(n, st)
  BY DEF ErrInv, InclusionInv, NodeInv, Sound
<1>5. s = "M" \/ \A d \in CoresOf(n) : st.l1[d][a].s # "M"
  BY <1>2, <1>4, DirtyAbove
<1> HIDE DEF m, a, st, q
<1>6. Line(n, a) /\ EntryOK(dir[a]) /\ None # n
  BY <1>2, CacheAssumption DEF Lines, EntryInv
<1>7. m.t = "INV_REQ" => s # "M"
  <2> SUFFICES ASSUME m.t = "INV_REQ", s = "M" PROVE FALSE
    OBVIOUS
  <2>1. AskInv(n, s, Tc(n, a), dir[a]) /\ KnownInv(n, s, Tc(n, a), Td(n, a), dir[a])
    BY <1>6 DEF Line, LineOK, st
  <2>2. n \in dir[a].sharers
    BY <1>1, <1>3, <2>1 DEF AskInv, Pos
  <2>3. dir[a].owner = n
    BY <2>1 DEF KnownInv
  <2> QED
    BY <1>6, <2>2, <2>3 DEF EntryOK
<1>8. /\ failed' = stack'[n].err /\ \A l \in Nodes \ {n} : stack'[l] = stack[l]
      /\ s = "I" \/ (m.t = "WB_REQ" /\ s = "u") => stack'[n] = st
  BY <1>2 DEF Answered, a, st
<1>9. ASSUME s # "I", ~(m.t = "WB_REQ" /\ s = "u")
      PROVE  UpdatedLLC(n, st, a, IF m.t = "WB_REQ" THEN "S" ELSE "I", m.t # "INV_REQ", stack'[n])
  BY <1>2, <1>9 DEF Answered, a, st
<1>10. stack'[n].err = "no"
  <2>1. CASE s # "I" /\ ~(m.t = "WB_REQ" /\ s = "u")
    BY <1>4, <1>5, <1>7, <1>9, <2>1 DEF UpdatedLLC
  <2> QED
    BY <1>4, <1>8, <2>1
<1>11. \A d \in CoresOf(n), x \in Addrs :
          /\ st.l1[d][x].s = "I" => stack'[n].l1[d][x].s = "I"
          /\ stack'[n].l1[d][x].s = "M" => st.l1[d][x].s = "M"
  <2>1. CASE s # "I" /\ ~(m.t = "WB_REQ" /\ s = "u")
    BY <1>9, <2>1 DEF UpdatedLLC
  <2> QED
    BY <1>8, <2>1
<1>12. Dirties(n, a) /\ WakesOnly(n)
  BY <1>1, <1>11 DEF Dirties, WakesOnly, st
<1>13. MissInv'
  BY <1>1, <1>8, <1>12, NetFits
<1> QED
  BY <1>8, <1>10, <1>13, Zenon

\* A reply fails one of two assertions at most.
LEMMA HandleRepWorks ==
    ASSUME Types, LockTypes, ThreadInv, ErrInv, InclusionInv, MissInv, TransactionInv, Lines,
           NEW n \in Nodes, HandleRep(n)
    PROVE  OnlyKnownFailures' /\ (failed' = "no" => MissInv')
<1> DEFINE q == toCache[n]
           m == Head(q)
           a == m.a
           st == stack[n]
           ws == waiters[n][a]
           s == st.llc[a].s
<1>1. q # <<>> /\ LockFree(n) /\ net[n].pc = "idle" /\ op' = op
  BY DEF HandleRep
<1>2. m \in ToCache /\ a \in Addrs /\ q \in Seq(ToCache) /\ m \in Message /\ st \in Stack(n)
  BY <1>1, HeadOfChannel, ChannelTypes DEF Types, ToCache, StacksOK
<1>3. RepData(n)
  BY RepDataFacts
<1>4. PICK v \in Addrs \cup {None}, r \in Stack(n), k \in Stack(n) :
       /\ v # a /\ (m.t = "UPGRADE_REP" => v = None) /\ m.t \in Rep
       /\ Replied(n, st, m, v, r) /\ k.l1 = r.l1 /\ k.llc = r.llc
       /\ ws # <<>> => k.err = r.err
       /\ Woken(n, a, k, ws, EvictMsgs(st, v))
       /\ WakeOutcome(n, a, k, ws)
  BY <1>3 DEF RepData
<1>5. Some(Tc(n, a), {KindOf(m)})
  <2>1. Tc(n, a) = View(q, a)
    BY DEF Tc
  <2> HIDE DEF q
  <2>2. View(q, a)[1] = IF Head(q).a = a THEN KindOf(Head(q)) ELSE "none"
    BY <1>1, <1>2, ViewOfTail
  <2> QED
    BY <2>1, <2>2 DEF Some, Pos
<1>6. ws # <<>>
  <2>1. ws = <<>> => Unasked(Tc(n, a), Td(n, a), Qs(n, a))
    BY <1>2, OneUnderWay
  <2>2. KindOf(m) \in Answer
    BY <1>2, <1>4, KindFacts
  <2> QED
    BY <1>5, <2>1, <2>2 DEF Unasked, Some
<1>7. ws[1].c \in CoresOf(n) /\ pc[ws[1].c] = "waiting"
  <2>1. 1 \in DOMAIN ws
    <3>1. ws \in Seq(Waiter)
      BY <1>2, ChannelTypes
    <3> HIDE DEF ws
    <3> QED
      BY <1>6, <3>1
  <2> DEFINE d == ws[1].c
  <2>2. d \in CoresOf(n)
    BY <1>2, <2>1 DEF LockTypes
  <2>3. Live(n, a, 1)
    BY <1>1 DEF Live
  <2>4. pc[d] \in {"waiting", "woken"}
    BY <1>2, <2>1, <2>3 DEF ThreadInv, WaiterInv
  <2>5. pc[d] # "woken"
    BY <1>1, <2>2 DEF ThreadInv, NetInv
  <2> QED
    BY <2>2, <2>4, <2>5
<1>8. st.err = "no" /\ Included(n, st)
  BY DEF ErrInv, InclusionInv, NodeInv, Sound
<1>9. FreshInv(s, Tc(n, a), Td(n, a), Qs(n, a))
  BY <1>2 DEF Lines, Line, LineOK
<1>10. s # "M" => \A d \in CoresOf(n) : st.l1[d][a].s # "M"
  BY <1>2, <1>8, DirtyAbove, Zenon
<1>11. failed' = r.err /\ \A l \in Nodes \ {n} : stack'[l] = stack[l]
  BY <1>4, <1>6, Zenon DEF Woken
<1>12. stack'[n].l1 = r.l1
  BY <1>4, Zenon DEF Woken
<1> HIDE DEF st, m, a, ws, q
<1>13. CASE m.t \in {"EX_REP", "SH_REP"}
  <2>1. KindOf(m) = m.t
    BY <1>13 DEF KindOf
  <2>2. s = "I"
    BY <1>5, <1>9, <1>13, <2>1 DEF FreshInv, Some
  <2>3. PICK cell \in Cell : InsertedLLC(n, st, a, cell, v, r)
    BY <1>4, <1>13 DEF Replied, a
  <2>4. r.err \in {"no", "evicting an upgrading line"}
    BY <1>8, <2>2, <2>3 DEF InsertedLLC
  <2>5. \A d \in CoresOf(n), x \in Addrs : r.l1[d][x].s \in {"I", st.l1[d][x].s}
    BY <2>3 DEF InsertedLLC
  <2>6. \A d \in CoresOf(n), x \in Addrs :
              /\ stack[n].l1[d][x].s = "I" => stack'[n].l1[d][x].s = "I"
              /\ stack'[n].l1[d][x].s = "M" => \/ stack[n].l1[d][x].s = "M"
                                               \/ x = a /\ ws # <<>> /\ ~NeedsUpgrade(ws[1], k.llc[a])
    BY <1>12, <2>5 DEF st
  <2>7. MissInv'
    BY <1>1, <1>4, <1>7, <1>11, <2>6, WakeFits
  <2> QED
    BY <1>11, <2>4, <2>7 DEF OnlyKnownFailures
<1>14. CASE m.t = "UPGRADE_REP"
  <2>1. (m.d <=> s = "I") /\ s \in {"u", "I"}
    <3>1. CASE m.d
      <4>1. KindOf(m) = "UPGRADE_DATA"
        BY <1>14, <3>1 DEF KindOf
      <4> QED
        BY <1>5, <1>9, <3>1, <4>1 DEF FreshInv, Some
    <3>2. CASE ~m.d
      <4>1. KindOf(m) = "UPGRADE_REP"
        BY <1>14, <3>2 DEF KindOf
      <4> QED
        BY <1>5, <1>9, <3>2, <4>1 DEF FreshInv, Some
    <3> QED
      BY <3>1, <3>2
  <2>2. \A d \in CoresOf(n) : st.l1[d][a].s # "M"
    BY <1>10, <2>1
  <2>3. r.err \in {"no", "out_buf never written"}
    BY <1>4, <1>8, <1>14, <2>1, <2>2 DEF Replied, a
  <2>4. \A d \in CoresOf(n), x \in Addrs :
           r.l1[d][x].s = IF x = a /\ st.l1[d][a].s # "I" THEN "M" ELSE st.l1[d][x].s
    BY <1>4, <1>14 DEF Replied, a
  <2>5. ASSUME failed' = "no"
        PROVE  MissInv'
    <3>1. s = "u"
      BY <1>4, <1>11, <1>14, <2>5 DEF Replied, a
    <3>2. k.llc[a].s = "M"
      BY <1>2, <1>4, <1>14, <3>1 DEF Replied, a
    <3>3. ~NeedsUpgrade(ws[1], k.llc[a])
      BY <3>2 DEF NeedsUpgrade
    <3>4. \A d \in CoresOf(n), x \in Addrs :
              /\ stack[n].l1[d][x].s = "I" => stack'[n].l1[d][x].s = "I"
              /\ stack'[n].l1[d][x].s = "M" => \/ stack[n].l1[d][x].s = "M"
                                               \/ x = a /\ ws # <<>> /\ ~NeedsUpgrade(ws[1], k.llc[a])
      BY <1>6, <1>12, <2>4, <3>3 DEF st
    <3> QED
      BY <1>1, <1>4, <1>7, <1>11, <3>4, WakeFits
  <2> QED
    BY <1>11, <2>3, <2>5 DEF OnlyKnownFailures
<1> QED
  BY <1>4, <1>13, <1>14 DEF Rep

FailInv == CoherenceInv /\ OnlyKnownFailures /\ (failed = "no" => MissInv)

LEMMA FailInit == Init => FailInv
<1> SUFFICES ASSUME Init PROVE FailInv
  OBVIOUS
<1>1. OnlyKnownFailures
  BY DEF Init, OnlyKnownFailures
<1>2. \A c \in Cores : pc[c] = "idle" /\ op[c].sig = "NONE"
  BY DEF Init
<1>3. MissInv
  BY <1>2 DEF MissInv, CoreInv, CoreFits
<1> QED
  BY <1>1, <1>3, CoherenceInit DEF FailInv

LEMMA FailNext ==
    ASSUME FailInv, [Next]_vars
    PROVE  FailInv'
<1>1. CoherenceInv'
  BY CoherenceNext DEF FailInv
<1>2. CASE UNCHANGED vars
  <2>1. UNCHANGED <<stack, net, pc, op, failed>>
    BY <1>2 DEF vars, cacheVars, userVars
  <2>2. OnlyKnownFailures' /\ (failed' = "no" => MissInv')
    BY <2>1 DEF FailInv, OnlyKnownFailures, MissInv, CoreInv
  <2> QED
    BY <1>1, <2>2 DEF FailInv
<1> SUFFICES ASSUME Next PROVE OnlyKnownFailures' /\ (failed' = "no" => MissInv')
  BY <1>1, <1>2 DEF FailInv
<1>3. /\ failed = "no" /\ Types /\ LockTypes /\ ErrInv /\ ThreadInv /\ DirectInv /\ TransactionInv
      /\ InclusionInv /\ MissInv /\ (~cfg.direct => EntryInv /\ Lines)
  BY DEF Next, FailInv, CoherenceInv, OneInv, CacheInv, TypeInv
<1>4. failed' = "no" => OnlyKnownFailures'
  BY DEF OnlyKnownFailures
<1>5. ASSUME NEW c \in Cores, UserStep(c)
      PROVE  OnlyKnownFailures' /\ (failed' = "no" => MissInv')
  BY <1>3, <1>4, <1>5, UserWorks
<1>6. ASSUME NEW n \in Nodes, NetStep(n)
      PROVE  OnlyKnownFailures' /\ (failed' = "no" => MissInv')
  <2>1. EntryInv /\ Lines
    BY <1>3, <1>6, Zenon DEF DirectInv, NetStep, HandleRep, ResumeWaiters, HandleReq
  <2>2. HandleRep(n) => OnlyKnownFailures' /\ (failed' = "no" => MissInv')
    BY <1>3, <2>1, HandleRepWorks
  <2>3. ResumeWaiters(n) => failed' = "no" /\ MissInv'
    BY <1>3, ResumeWorks
  <2>4. HandleReq(n) => failed' = "no" /\ MissInv'
    BY <1>3, <2>1, HandleReqWorks
  <2> QED
    BY <1>4, <1>6, <2>2, <2>3, <2>4, Zenon DEF NetStep
<1>7. CASE DirStep
  <2>1. UNCHANGED <<stack, net, pc, op, failed>>
    BY <1>7, Zenon DEF DirStep, DirReceive, DirAsk, DirReply, cacheVars, userVars
  <2> QED
    BY <1>3, <1>4, <2>1, Zenon DEF MissInv, CoreInv
<1> QED
  BY <1>5, <1>6, <1>7 DEF Next

\* Of all the assertions of the cache controller (the asserts and
\* LOG_PRINT_ERRORs of cache_cntlr.cc that failed stands for) at most two can
\* fail, whatever the threads, evictions and messages in flight do: the one of
\* updateCacheBlock on an upgrade reply that finds its line invalidated, and
\* the one of insertCacheBlock on the eviction of a line being upgraded.
THEOREM CacheOnlyKnownFailures == Spec => []OnlyKnownFailures
<1>1. FailInv => OnlyKnownFailures
  BY DEF FailInv
<1> QED
  BY <1>1, FailInit, FailNext, PTL DEF Spec

\* A message in a channel is a word in the view of its line.
LEMMA MessagesSeen ==
    ASSUME Types, NEW m \in Nodes
    PROVE  /\ \A i \in DOMAIN toDir[m] :
                 /\ i \in Pos /\ toDir[m][i] \in ToDir /\ toDir[m][i].a \in Addrs
                 /\ Td(m, toDir[m][i].a)[i] = toDir[m][i].t
           /\ \A i \in DOMAIN toCache[m] :
                 /\ i \in Pos /\ toCache[m][i] \in ToCache /\ toCache[m][i].a \in Addrs
                 /\ toCache[m][i].t # "UPGRADE_REP" => Tc(m, toCache[m][i].a)[i] = toCache[m][i].t
<1>1. toDir[m] \in Seq(ToDir) /\ toCache[m] \in Seq(ToCache)
  BY DEF Types, ChannelsOK
<1>2. ASSUME NEW i \in DOMAIN toDir[m]
      PROVE  /\ i \in Pos /\ toDir[m][i] \in ToDir /\ toDir[m][i].a \in Addrs
             /\ Td(m, toDir[m][i].a)[i] = toDir[m][i].t
  <2>1. i \in Pos /\ toDir[m][i] \in ToDir
    BY <1>1 DEF Pos
  <2>2. toDir[m][i].a \in Addrs /\ toDir[m][i].t # "UPGRADE_REP"
    BY <2>1 DEF ToDir, Message, Requests, Gone, Wb
  <2> QED
    BY <2>1, <2>2 DEF Td, View, KindOf
<1>3. ASSUME NEW i \in DOMAIN toCache[m]
      PROVE  /\ i \in Pos /\ toCache[m][i] \in ToCache /\ toCache[m][i].a \in Addrs
             /\ toCache[m][i].t # "UPGRADE_REP" => Tc(m, toCache[m][i].a)[i] = toCache[m][i].t
  <2>1. i \in Pos /\ toCache[m][i] \in ToCache
    BY <1>1 DEF Pos
  <2>2. toCache[m][i].a \in Addrs
    BY <2>1 DEF ToCache, Message
  <2> QED
    BY <2>1, <2>2 DEF Tc, View, KindOf
<1> QED
  BY <1>2, <1>3

\* No data of a line its owner does not send.
LEMMA DataSent ==
    ASSUME Types, Lines, DataInv, NEW m \in Nodes, NEW i \in DOMAIN toDir[m], toDir[m][i].d
    PROVE  LET x == toDir[m][i].a IN
           /\ x \in Addrs /\ dir[x].owner = m /\ toDir[m][i].f
           /\ Some(Td(m, x), Gone) \/ Some(Td(m, x), Wb)
           /\ stack[m].llc[x].s \notin {"E", "M"} /\ ~Some(Tc(m, x), Answer)
<1> DEFINE x == toDir[m][i].a
<1>1. i \in Pos /\ x \in Addrs /\ Td(m, x)[i] = toDir[m][i].t
  BY MessagesSeen
<1>2. toDir[m][i].t \in {"FLUSH_REP", "WB_REP"} /\ dir[x].owner = m /\ toDir[m][i].f
  BY DEF DataInv, Reports
<1> HIDE DEF x
<1>3. Some(Td(m, x), Gone) \/ Some(Td(m, x), Wb)
  BY <1>1, <1>2 DEF Some, Gone, Wb
<1>4. GoneInv(m, stack[m].llc[x].s, Tc(m, x), Td(m, x), dir[x])
  BY <1>1 DEF Lines, Line, LineOK
<1>5. stack[m].llc[x].s \notin {"E", "M"} /\ ~Some(Tc(m, x), Answer)
  BY <1>3, <1>4 DEF GoneInv
<1> QED
  BY <1>1, <1>2, <1>3, <1>5 DEF x

\* The LLC that may write a line is alone with it.
LEMMA AloneOwner ==
    ASSUME Types, Lines, EntryInv, DataInv, NEW n \in Nodes, NEW a \in Addrs, stack[n].llc[a].s \in {"E", "M"}
    PROVE  AloneAt(n, a)
<1>1. dir[a].owner = n
  BY DEF Lines, Line, LineOK, KnownInv
<1>2. \A m \in Nodes \ {n} : stack[m].llc[a].s = "I"
  BY <1>1, OwnerAlone
<1>3. dir[a].sharers = {}
  BY <1>1, CacheAssumption DEF EntryInv, EntryOK
<1>4. ASSUME NEW m \in Nodes, NEW i \in DOMAIN toCache[m], toCache[m][i].a = a
      PROVE  toCache[m][i].t \notin {"SH_REP", "EX_REP"}
  <2> SUFFICES ASSUME toCache[m][i].t \in {"SH_REP", "EX_REP"} PROVE FALSE
    OBVIOUS
  <2>1. i \in Pos /\ Tc(m, a)[i] = toCache[m][i].t
    BY <1>4, MessagesSeen
  <2>2. /\ FreshInv(stack[m].llc[a].s, Tc(m, a), Td(m, a), Qs(m, a))
        /\ KnownInv(m, stack[m].llc[a].s, Tc(m, a), Td(m, a), dir[a])
    BY DEF Lines, Line, LineOK
  <2>3. Some(Tc(m, a), {"SH_REP", "EX_REP", "UPGRADE_DATA"})
    BY <2>1 DEF Some
  <2>4. m # n
    BY <2>2, <2>3 DEF FreshInv
  <2>5. Some(Tc(m, a), {"SH_REP"}) \/ Some(Tc(m, a), Grant)
    BY <2>1 DEF Some, Grant
  <2>6. Known(m, dir[a])
    BY <2>2, <2>5 DEF KnownInv, Known
  <2> QED
    BY <1>1, <1>3, <2>4, <2>6 DEF Known
<1>5. ASSUME NEW m \in Nodes, NEW i \in DOMAIN toDir[m], toDir[m][i].a = a
      PROVE  ~toDir[m][i].d
  <2> SUFFICES ASSUME toDir[m][i].d PROVE FALSE
    OBVIOUS
  <2>1. dir[a].owner = m /\ stack[m].llc[a].s \notin {"E", "M"}
    BY <1>5, DataSent
  <2> QED
    BY <1>1, <2>1
<1> QED
  BY <1>2, <1>4, <1>5 DEF AloneAt

\* With direct DRAM access nobody else ever has a line.
LEMMA AloneDirect ==
    ASSUME Types, DirectInv, ActiveInv, cfg.direct, NEW n \in Nodes, NEW c \in CoresOf(n), cfg.ops[c] # 0,
           NEW a \in Addrs
    PROVE  AloneAt(n, a) /\ \A x \in Addrs : ~Elsewhere(n, x)
<1>1. cfg \in Configs
  BY DEF Types, ThreadsOK
<1>2. ASSUME NEW m \in Nodes \ {n}, NEW x \in Addrs
      PROVE  stack[m].llc[x].s = "I"
  <2> SUFFICES ASSUME stack[m].llc[x].s # "I" PROVE FALSE
    OBVIOUS
  <2>1. PICK d \in CoresOf(m) : cfg.ops[d] # 0
    BY DEF ActiveInv
  <2>2. c \in Cores /\ d \in Cores /\ NodeOf[c] # NodeOf[d]
    BY <2>1 DEF CoresOf
  <2> QED
    BY <1>1, <2>1, <2>2, CacheAssumption
<1>3. \A m \in Nodes : toDir[m] = <<>> /\ toCache[m] = <<>>
  BY DEF DirectInv
<1>4. \A i : i \notin DOMAIN <<>>
  OBVIOUS
<1>5. AloneAt(n, a)
  BY <1>2, <1>3, <1>4 DEF AloneAt
<1>6. ASSUME NEW x \in Addrs PROVE ~Elsewhere(n, x)
  BY <1>2, <1>3, <1>4 DEF Elsewhere, InFlight
<1> QED
  BY <1>5, <1>6

\* An eviction with direct DRAM access writes a MODIFIED line to DRAM.
LEMMA DramWritten ==
    ASSUME cfg \in Configs, dram \in [Addrs -> BOOLEAN], NEW n \in Nodes, NEW st \in Stack(n),
           NEW v \in Addrs \cup {None}, NodeData(n, st, net[n].a), NEW x \in Addrs,
           dram[x] \/ st.llc[x].s = "M"
    PROVE  DramEvict(st, v)[x] \/ (st.llc[x].s = "M" /\ x # v)
<1>1. CASE v # None /\ st.llc[v].s = "M"
  <2>1. v \in Addrs /\ Good(n, st, v)
    BY <1>1 DEF NodeData, LineData
  <2>2. Evicted(st, v).f /\ Evicted(st, v).s = "M"
    BY <1>1, <2>1, EvictedGood
  <2>3. DramEvict(st, v) = [dram EXCEPT ![v] = Evicted(st, v).f]
    BY <1>1, <2>2 DEF DramEvict
  <2> QED
    BY <2>1, <2>2, <2>3
<1>2. CASE v = None
  <2>1. DramEvict(st, v) = dram
    BY <1>2 DEF DramEvict
  <2> QED
    BY <1>2, <2>1, CacheAssumption
<1>3. CASE v # None /\ st.llc[v].s # "M"
  <2>1. Evicted(st, v).s # "M"
    BY <1>3, EvictFacts, CacheAssumption
  <2>2. DramEvict(st, v) = dram
    BY <2>1 DEF DramEvict
  <2> QED
    BY <1>3, <2>2
<1> QED
  BY <1>1, <1>2, <1>3

\* With direct DRAM access a line that is absent is read from DRAM.
LEMMA InsertReady ==
    ASSUME cfg \in Configs, dram \in [Addrs -> BOOLEAN], NEW n \in Nodes, NEW st \in Stack(n),
           NEW a \in Addrs, NEW v \in Addrs \cup {None}, v # a, NEW s \in {"S", "M"},
           Ready(n, st, dram), Included(n, st), st.llc[a].s = "I", \A x \in Addrs : ~Elsewhere(n, x)
    PROVE  Ready(n, InsertLLC(st, a, [s |-> s, f |-> dram[a]], v), DramEvict(st, v))
<1> DEFINE cell == [s |-> s, f |-> dram[a]]
           r == InsertLLC(st, a, cell, v)
           d == DramEvict(st, v)
<1>1. cell \in Cell /\ cell.s # "u" /\ cell.f = dram[a]
  BY DEF Cell, States
<1>2. dram[a]
  BY DEF Ready
<1> HIDE DEF cell
<1>3. NodeData(n, st, net[n].a) /\ None \notin Addrs
  BY CacheAssumption DEF Ready
<1>4. NodeData(n, r, net[n].a)
  BY <1>1, <1>2, <1>3, InsertGood
<1>5. InsertedLLC(n, st, a, cell, v, r)
  BY <1>1, <1>3, InsertLLCFacts
<1> HIDE DEF r
<1>6. ASSUME NEW x \in Addrs
      PROVE  d[x] \/ r.llc[x].s = "M"
  <2>1. dram[x] \/ st.llc[x].s = "M"
    BY DEF Ready
  <2>2. d[x] \/ (st.llc[x].s = "M" /\ x # v)
    BY <1>3, <2>1, DramWritten
  <2>3. st.llc[x].s = "M" /\ x # v => r.llc[x].s = "M"
    BY <1>5, Zenon DEF InsertedLLC
  <2> QED
    BY <2>2, <2>3
<1>7. Ready(n, r, d)
  BY <1>4, <1>6 DEF Ready
<1> QED
  BY <1>7 DEF r, cell

\* What the LLC serves leaves all data in the caches of the node or in DRAM.
LEMMA ServedReady ==
    ASSUME cfg \in Configs, dram \in [Addrs -> BOOLEAN], NEW n \in Nodes, NEW st \in Stack(n),
           NEW C \in SUBSET CoresOf(n), NEW t, NEW a \in Addrs, NEW r \in Served(t, a, st, C),
           Ready(n, st, dram), Included(n, st), cfg.direct => \A x \in Addrs : ~Elsewhere(n, x)
    PROVE  Ready(n, r.st, r.dram)
<1> DEFINE up == Upgrade(st, C, a)
           hit == ServeHit(st, C, t, a)
           new == [s |-> IF t \in {"R", "P"} THEN "S" ELSE "M", f |-> dram[a]]
<1>1. CASE Permissible(st.llc[a], t)
  <2>1. Permissible(up.llc[a], t)
    BY <1>1, UpgradeKeepsPermission
  <2>2. r = [st |-> hit, dram |-> dram]
    BY <1>1, <2>1 DEF Served
  <2>3. Kind(n, st, hit)
    BY HitKind
  <2>4. Ready(n, hit, dram)
    BY <2>3, ReadyKind
  <2> HIDE DEF hit, up
  <2> QED
    BY <2>2, <2>4
<1>2. CASE ~Permissible(st.llc[a], t) /\ Permissible(up.llc[a], t)
  <2>1. r = [st |-> up, dram |-> dram]
    BY <1>2 DEF Served
  <2>2. Kind(n, st, up)
    BY UpgradeKind
  <2>3. Ready(n, up, dram)
    BY <2>2, ReadyKind
  <2> HIDE DEF hit, up
  <2> QED
    BY <2>1, <2>3
<1>3. CASE ~Permissible(st.llc[a], t) /\ ~Permissible(up.llc[a], t)
  <2>1. r \in IF cfg.direct THEN {[st |-> InsertLLC(st, a, new, v), dram |-> DramEvict(st, v)] :
                                    v \in Victims(st.llc, a, LLCWays)} ELSE {}
    BY <1>3 DEF Served
  <2>2. cfg.direct
    BY <2>1
  <2>3. PICK v \in Victims(st.llc, a, LLCWays) :
             r = [st |-> InsertLLC(st, a, new, v), dram |-> DramEvict(st, v)]
    BY <2>1, <2>2
  <2>4. v \in Addrs \cup {None} /\ v # a
    BY VictimFacts, CacheAssumption
  <2>5. st.llc[a].s = "I"
    BY <1>3, <2>2, UpgradePermits
  <2> DEFINE s == IF t \in {"R", "P"} THEN "S" ELSE "M"
  <2>6. s \in {"S", "M"} /\ new = [s |-> s, f |-> dram[a]]
    OBVIOUS
  <2> HIDE DEF s, new
  <2>7. \A x \in Addrs : ~Elsewhere(n, x)
    BY <2>2
  <2>8. Ready(n, InsertLLC(st, a, [s |-> s, f |-> dram[a]], v), DramEvict(st, v))
    BY <2>4, <2>5, <2>6, <2>7, InsertReady
  <2>9. Ready(n, InsertLLC(st, a, new, v), DramEvict(st, v))
    BY <2>6, <2>8
  <2> QED
    BY <2>3, <2>9
<1> QED
  BY <1>1, <1>2, <1>3

-----------------------------------------------------------------------------
(* The steps of the user threads keep the data *)

Running == FailInv /\ failed = "no" /\ DataInv

LEMMA RunningFacts ==
    ASSUME Running
    PROVE  /\ Types /\ LockTypes /\ ThreadInv /\ ErrInv /\ OpsUsed /\ cfg \in Configs
           /\ InclusionInv /\ DirectInv /\ TransactionInv /\ ActiveInv /\ MissInv /\ DataInv
           /\ ~cfg.direct => EntryInv /\ Lines
           /\ StacksOK /\ ChannelsOK /\ ThreadsOK /\ None \notin Addrs \cup Nodes
<1>1. Types /\ LockTypes /\ ThreadInv /\ ErrInv
  BY DEF Running, FailInv, CoherenceInv, OneInv, CacheInv, TypeInv
<1>2. OpsUsed
  BY <1>1 DEF OpsUsed, ThreadInv, OpInv
<1>3. InclusionInv /\ DirectInv /\ TransactionInv
  BY DEF Running, FailInv, CoherenceInv, OneInv, CacheInv
<1>4. ActiveInv /\ MissInv /\ DataInv /\ (~cfg.direct => EntryInv /\ Lines)
  BY DEF Running, FailInv, CoherenceInv
<1>5. StacksOK /\ ChannelsOK /\ ThreadsOK /\ cfg \in Configs
  BY <1>1 DEF Types, ThreadsOK
<1> QED
  BY <1>1, <1>2, <1>3, <1>4, <1>5, CacheAssumption

\* A core that is about to write a line is alone with it.
LEMMA AloneCore ==
    ASSUME Running, NEW c \in Cores, UserStep(c), NEW a \in Addrs
    PROVE  /\ cfg.direct \/ stack[NodeOf[c]].llc[a].s \in {"E", "M"} => AloneAt(NodeOf[c], a)
           /\ cfg.direct => \A x \in Addrs : ~Elsewhere(NodeOf[c], x)
<1>1. NodeOf[c] \in Nodes /\ c \in CoresOf(NodeOf[c])
  BY NodeOfCore
<1>2. /\ Types /\ LockTypes /\ OpsUsed /\ DirectInv /\ ActiveInv /\ DataInv
      /\ ~cfg.direct => EntryInv /\ Lines
  BY RunningFacts
<1>3. CASE cfg.direct
  <2>1. cfg.ops[c] # 0
    BY <1>2, <1>3, UserActive
  <2> QED
    BY <1>1, <1>2, <1>3, <2>1, AloneDirect
<1>4. ASSUME ~cfg.direct, stack[NodeOf[c]].llc[a].s \in {"E", "M"}
      PROVE  AloneAt(NodeOf[c], a)
  BY <1>1, <1>2, <1>4, AloneOwner
<1> QED
  BY <1>3, <1>4

\* No line is being handed over while a core that was not woken has the lock.
LEMMA NoHandoff ==
    ASSUME Types, LockTypes, ThreadInv, NEW n \in Nodes, NEW c \in CoresOf(n), lock[n].ex \in {c, "free"},
           pc[c] # "woken"
    PROVE  net[n].pc # "handoff" /\ Exempt(n) = {}
<1> SUFFICES ASSUME net[n].pc = "handoff" PROVE FALSE
  BY DEF Exempt
<1>1. net[n].a \in Addrs /\ waiters[n][net[n].a] \in Seq(Waiter) /\ waiters[n][net[n].a] # <<>>
  <2>1. net[n].a # None /\ net[n].a \in Addrs \cup {None}
    BY DEF ThreadInv, NetInv, Types, ThreadsOK
  <2> QED
    BY <2>1 DEF ThreadInv, NetInv, Types, ThreadsOK
<1>2. waiters[n][net[n].a][1].c \in CoresOf(n)
  BY <1>1 DEF LockTypes
<1>3. pc[waiters[n][net[n].a][1].c] = "woken"
  BY DEF ThreadInv, NetInv
<1>4. lock[n].ex = waiters[n][net[n].a][1].c
  BY <1>2, <1>3 DEF ThreadInv, NetInv
<1> QED
  BY <1>2, <1>3, <1>4, CacheAssumption DEF CoresOf

\* The access that ends an operation, of a core whose line is clean elsewhere.
LEMMA AccessReady ==
    ASSUME DataInv, Types, InclusionInv, NEW n \in Nodes, NEW c \in CoresOf(n), NEW o \in Op, o.a \in Addrs,
           NEW st \in Stack(n), NEW d \in [Addrs -> BOOLEAN], Ready(n, st, d), Access(n, c, o, st),
           dram' = DramAfter(d, o), failed' = "no", UNCHANGED <<cfg, dir>>, SameWork,
           o.t = "W" /\ st.l1[c][o.a].s = "M" =>
              st.llc[o.a].s = "M" /\ OthersClean(n, st, c, o.a) /\ AloneAt(n, o.a)
    PROVE  DataInv'
<1>1. StacksOK /\ ChannelsOK /\ cfg \in Configs
  BY DEF Types, ThreadsOK
<1>2. Accessed(n, c, o, st)
  BY <1>1, AccessFacts
<1>3. CASE o.t = "W"
  <2>1. Writes(n, c, o.a, st)
    BY <1>1, <1>3, AccessData
  <2>2. SameStates(n, st, stack'[n]) /\ \A m \in Nodes \ {n} : SameStates(m, stack[m], stack'[m])
    BY <1>2 DEF Accessed
  <2>3. st.l1[c][o.a].s = "M"
    BY <1>2, <1>3 DEF Accessed, Permissible
  <2>4. st.llc[o.a].s = "M" /\ OthersClean(n, st, c, o.a) /\ AloneAt(n, o.a)
    BY <1>3, <2>3
  <2>5. dram' = [d EXCEPT ![o.a] = FALSE]
    BY <1>3 DEF DramAfter
  <2> QED
    BY <1>1, <2>1, <2>2, <2>3, <2>4, <2>5, ReadyWrite
<1>4. CASE o.t # "W"
  <2>1. Reads(n, st) /\ dram' = d
    BY <1>1, <1>4, AccessData DEF DramAfter
  <2>2. Ready(n, st, dram')
    BY <2>1
  <2> QED
    BY <2>1, <2>2, ReadyEnd DEF Reads
<1> QED
  BY <1>3, <1>4

\* An L1 that is filled from its LLC, and the access.
LEMMA FillReady ==
    ASSUME DataInv, Types, InclusionInv, NEW n \in Nodes, NEW c \in CoresOf(n), NEW o \in Op, o.a \in Addrs,
           NEW st \in Stack(n), NEW d \in [Addrs -> BOOLEAN], Ready(n, st, d), FillAndAccess(n, c, o, st, d),
           failed' = "no", UNCHANGED <<cfg, dir>>, SameWork, Clean(CoresOf(n), st, o.a), st.llc[o.a].s # "I",
           o.t = "W" /\ st.llc[o.a].s = "M" => AloneAt(n, o.a)
    PROVE  DataInv'
<1>1. PICK v \in Victims(st.l1[c], o.a, L1Ways) :
          /\ Access(n, c, o, CopyDataFromNextLevel(st, c, o.t, o.a, v))
          /\ dram' = DramAfter(d, o)
  BY DEF FillAndAccess
<1> DEFINE k == CopyDataFromNextLevel(st, c, o.t, o.a, v)
<1>2. v \in Addrs \cup {None} /\ v # o.a /\ None \notin Addrs /\ cfg \in Configs
  BY VictimFacts, CacheAssumption DEF Types, ThreadsOK
<1>3. Copied(n, st, c, o.t, o.a, v, k)
  BY <1>2, CopyFacts
<1>4. Good(n, st, o.a)
  BY DEF Ready, NodeData, LineData
<1>5. Kind(n, st, k)
  BY <1>2, <1>4, CopyKind
<1>6. Access(n, c, o, k)
  BY <1>1
<1> HIDE DEF k
<1>7. Ready(n, k, d)
  BY <1>5, ReadyKind
<1>8. k \in Stack(n)
  BY <1>3 DEF Copied
<1>9. k.l1[c][o.a].s = st.llc[o.a].s /\ k.llc[o.a].s = st.llc[o.a].s
  BY <1>3 DEF Copied
<1>10. OthersClean(n, k, c, o.a)
  BY <1>3 DEF Copied, OthersClean, Clean
<1> QED
  BY <1>1, <1>6, <1>7, <1>8, <1>9, <1>10, AccessReady

\* The first-level look-up: a hit writes a line that is MODIFIED here, and so
\* dirty nowhere else; a miss does nothing yet.
LEMMA FirstLevelReady ==
    ASSUME Running, NEW c \in Cores, UserStep(c), NEW o \in Op, o.a \in Addrs, FirstLevel(NodeOf[c], c, o),
           failed' = "no", lock[NodeOf[c]].ex \in {c, "free"}, pc[c] # "woken"
    PROVE  DataInv'
<1> DEFINE n == NodeOf[c]
<1>1. /\ n \in Nodes /\ c \in CoresOf(n) /\ Types /\ LockTypes /\ ThreadInv /\ InclusionInv /\ DataInv
      /\ stack[n] \in Stack(n) /\ dram \in [Addrs -> BOOLEAN]
  BY NodeOfCore, RunningFacts DEF StacksOK, ChannelsOK
<1>2. UNCHANGED <<cfg, net, dir>>
  BY DEF FirstLevel
<1>3. SameWork
  BY <1>2 DEF SameWork
<1>4. FirstLevel(n, c, o) /\ lock[n].ex \in {c, "free"}
  OBVIOUS
<1>5. cfg.direct \/ stack[n].llc[o.a].s \in {"E", "M"} => AloneAt(n, o.a)
  BY AloneCore
<1> HIDE DEF n
<1>6. Exempt(n) = {}
  BY <1>1, <1>4, NoHandoff
<1>7. Sound(n, stack[n], Exempt(n))
  BY <1>1 DEF InclusionInv, NodeInv
<1>8. Included(n, stack[n]) /\ OneDirty(n, stack[n], o.a)
  BY <1>6, <1>7 DEF Sound
<1>9. Ready(n, stack[n], dram)
  BY <1>1, ReadyNow
<1>10. CASE Permissible(stack[n].l1[c][o.a], o.t)
  <2>1. Access(n, c, o, stack[n]) /\ dram' = DramAfter(dram, o)
    BY <1>4, <1>10 DEF FirstLevel
  <2>2. ASSUME stack[n].l1[c][o.a].s = "M"
        PROVE  stack[n].llc[o.a].s = "M" /\ OthersClean(n, stack[n], c, o.a) /\ AloneAt(n, o.a)
    <3>1. stack[n].llc[o.a].s = "M"
      BY <1>1, <1>8, <2>2, DirtyAbove
    <3>2. OthersClean(n, stack[n], c, o.a)
      BY <1>1, <1>8, <2>2 DEF OneDirty, OthersClean, Clean
    <3> QED
      BY <1>5, <3>1, <3>2
  <2> QED
    BY <1>1, <1>2, <1>3, <1>9, <2>1, <2>2, AccessReady
<1>11. CASE ~Permissible(stack[n].l1[c][o.a], o.t)
  <2>1. UNCHANGED <<stack, toDir, toCache, dram>>
    BY <1>4, <1>11 DEF FirstLevel
  <2>2. Ready(n, stack[n], dram')
    BY <1>9, <2>1
  <2> QED
    BY <1>1, <1>2, <1>3, <2>1, <2>2, ReadyEnd
<1> QED
  BY <1>10, <1>11

LEMMA IssueReady ==
    ASSUME Running, NEW c \in Cores, UserStep(c), NEW t \in {"R", "W", "X"}, NEW a \in Addrs,
           Issue(c, Operation(t, a)), failed' = "no"
    PROVE  DataInv'
<1> DEFINE o == Operation(t, a)
<1>1. o \in Op /\ o.a \in Addrs
  BY DEF Operation, Op
<1>2. Issue(c, o)
  OBVIOUS
<1> HIDE DEF o
<1>3. FirstLevel(NodeOf[c], c, o) /\ pc[c] # "woken"
  BY <1>2 DEF Issue
<1>4. lock[NodeOf[c]].ex = "free"
  BY <1>2 DEF Issue, LockFree
<1> QED
  BY <1>1, <1>3, <1>4, FirstLevelReady

LEMMA IssueUnlockReady ==
    ASSUME Running, NEW c \in Cores, UserStep(c), IssueUnlock(c), failed' = "no"
    PROVE  DataInv'
<1> DEFINE n == NodeOf[c]
           o == [t |-> "W", a |-> op[c].a, sig |-> "UNLOCK"]
<1>1. n \in Nodes /\ c \in CoresOf(n) /\ Types /\ LockTypes /\ ThreadInv
  BY NodeOfCore, RunningFacts
<1>2. pc[c] = "locked" /\ FirstLevel(NodeOf[c], c, o)
  BY DEF IssueUnlock
<1>3. o \in Op /\ o.a \in Addrs
  <2>1. op[c].a \in Addrs
    BY <1>1, <1>2 DEF ThreadInv, OpInv
  <2> QED
    BY <2>1 DEF Op
<1>4. lock[n].ex \in {c, "free"}
  BY <1>1, <1>2 DEF ThreadInv, LockInv, LockTypes
<1> HIDE DEF o
<1> QED
  BY <1>2, <1>3, <1>4, FirstLevelReady

\* The L1's own copy, which is not dirty, is dropped.
LEMMA MissKind ==
    ASSUME Types, LockTypes, ThreadInv, MissInv, NEW c \in Cores, op[c].a \in Addrs, pc[c] = "missed",
           LockFree(NodeOf[c]) \/ lock[NodeOf[c]].ex = c
    PROVE  Kind(NodeOf[c], stack[NodeOf[c]], MissStack(NodeOf[c], c, op[c].a))
<1> DEFINE n == NodeOf[c]
           a == op[c].a
<1>1. n \in Nodes /\ c \in CoresOf(n) /\ stack[n] \in Stack(n)
  BY NodeOfCore DEF Types, StacksOK
<1>2. net[n].pc # "handoff"
  BY <1>1, NoneWoken
<1>3. stack[n].l1[c][a].s # "M"
  BY <1>2 DEF MissInv, CoreInv, CoreFits
<1> HIDE DEF n, a
<1>4. a \in Addrs
  BY DEF a
<1>5. ASSUME Valid(stack[n].l1[c][a])
      PROVE  Kind(n, stack[n], MissStack(n, c, a))
  <2>1. MissStack(n, c, a) = InvalidateL1(stack[n], c, a)
    BY <1>5 DEF MissStack
  <2> DEFINE r == InvalidateL1(stack[n], c, a)
  <2>2. Conserves(n, stack[n], r)
    BY <1>1, <1>3, <1>4, InvalidateKeeps
  <2> HIDE DEF r
  <2>3. Kind(n, stack[n], r)
    BY <2>2, ConservedKind
  <2> QED
    BY <2>1, <2>3 DEF r
<1>6. ASSUME ~Valid(stack[n].l1[c][a])
      PROVE  Kind(n, stack[n], MissStack(n, c, a))
  BY <1>6, SameKind DEF MissStack
<1>7. Kind(n, stack[n], MissStack(n, c, a))
  BY <1>5, <1>6
<1> QED
  BY <1>7 DEF n, a

\* The miss that the LLC serves.
LEMMA NextLevelServed ==
    ASSUME Running, NEW c \in Cores, UserStep(c), NextLevel(c), failed' = "no",
           NEW st, st = MissStack(NodeOf[c], c, op[c].a),
           NEW r \in Served(op[c].t, op[c].a, st, CoresOf(NodeOf[c]) \ {c}),
           FillAndAccess(NodeOf[c], c, op[c], r.st, r.dram)
    PROVE  DataInv'
<1> DEFINE n == NodeOf[c]
           o == op[c]
           C == CoresOf(n) \ {c}
<1>1. /\ n \in Nodes /\ c \in CoresOf(n) /\ o \in Op /\ stack[n] \in Stack(n) /\ C \in SUBSET CoresOf(n)
      /\ Types /\ LockTypes /\ ThreadInv /\ InclusionInv /\ DataInv /\ cfg \in Configs /\ MissInv
      /\ StacksOK /\ dram \in [Addrs -> BOOLEAN]
  BY NodeOfCore, RunningFacts, Zenon DEF ThreadsOK, ChannelsOK, StacksOK
<1>2. pc[c] = "missed" /\ (LockFree(n) \/ lock[n].ex = c) /\ UNCHANGED <<cfg, net, dir>>
  BY Zenon DEF NextLevel
<1>3. o.a \in Addrs
  BY <1>1, <1>2 DEF ThreadInv, OpInv
<1>4. Kind(n, stack[n], st)
  BY <1>1, <1>2, <1>3, MissKind
<1>5. /\ cfg.direct \/ stack[n].llc[o.a].s \in {"E", "M"} => AloneAt(n, o.a)
      /\ cfg.direct => \A x \in Addrs : ~Elsewhere(n, x)
  BY <1>3, AloneCore
<1>6. r \in Served(o.t, o.a, st, C) /\ FillAndAccess(n, c, o, r.st, r.dram) /\ st = MissStack(n, c, o.a)
  OBVIOUS
<1>7. SameWork
  BY <1>2 DEF SameWork
<1> HIDE DEF n, o, C
<1>8. Invalidated(n, stack[n], c, o.a, st)
  BY <1>1, <1>3, <1>6, MissStackFacts
<1>9. Exempt(n) = {}
  BY <1>1, <1>2, NoneWoken
<1>10. Sound(n, stack[n], {})
  BY <1>1, <1>9 DEF InclusionInv, NodeInv
<1>11. Sound(n, st, {}) /\ \A x \in Addrs : st.llc[x].s = stack[n].llc[x].s
  <2> DEFINE s == stack[n]
             a == o.a
             P == {}
  <2>1. s \in Stack(n) /\ a \in Addrs /\ Sound(n, s, P) /\ Invalidated(n, s, c, a, st)
    BY <1>1, <1>3, <1>8, <1>10
  <2> HIDE DEF s, a, P
  <2>2. Sound(n, st, P) /\ \A x \in Addrs : st.llc[x].s = s.llc[x].s
    BY <1>1, <2>1, InvalidatedSound
  <2> QED
    BY <2>2 DEF s, P
<1>12. st \in Stack(n) /\ st.l1[c][o.a].s = "I" /\ Included(n, st)
  BY <1>1, <1>3, <1>8, <1>11 DEF Invalidated, Sound
<1>13. Ready(n, st, dram)
  BY <1>1, <1>4, ReadyNow, ReadyKind
<1>14. Ready(n, r.st, r.dram)
  BY <1>1, <1>3, <1>5, <1>6, <1>12, <1>13, ServedReady
<1>15. AnyServed(n, st, C, o.t, o.a, r) /\ r.st \in Stack(n) /\ r.dram \in [Addrs -> BOOLEAN]
  BY <1>1, <1>3, <1>6, <1>12, ServedFacts DEF AnyServed
<1>16. Clean(C, r.st, o.a)
  BY <1>1, <1>3, <1>11, <1>12, <1>15, ServedSound, ZenonT(30)
<1>17. Permissible(r.st.llc[o.a], o.t) /\ Weaker(CoresOf(n), st, r.st)
  BY <1>1, <1>3, <1>12, <1>15, ServedWorks
<1>18. Clean(CoresOf(n), r.st, o.a) /\ r.st.llc[o.a].s # "I"
  BY <1>1, <1>3, <1>12, <1>16, <1>17 DEF Clean, Weaker, Permissible, C
<1>19. ASSUME ~cfg.direct
       PROVE  Kept(stack[n].llc[o.a].s, r.st.llc[o.a].s)
  BY <1>1, <1>3, <1>11, <1>15, <1>19, ServedKept
<1>20. o.t = "W" /\ r.st.llc[o.a].s = "M" => AloneAt(n, o.a)
  BY <1>5, <1>19 DEF Kept
<1>21. UNCHANGED <<cfg, dir>>
  BY <1>2
<1> QED
  BY <1>1, <1>3, <1>6, <1>7, <1>14, <1>15, <1>18, <1>20, <1>21, FillReady

\* A woken thread fills its L1 from the line it was granted.
LEMMA RefillReady ==
    ASSUME Running, NEW c \in Cores, UserStep(c), Refill(c), failed' = "no"
    PROVE  DataInv'
<1> DEFINE n == NodeOf[c]
           o == op[c]
           C == CoresOf(n) \ {c}
           k == RefillChecked(n, c, o)
           j == Refilled(n, c, o)
<1>1. /\ n \in Nodes /\ c \in CoresOf(n) /\ o \in Op /\ stack[n] \in Stack(n) /\ C \in SUBSET CoresOf(n)
      /\ Types /\ LockTypes /\ ThreadInv /\ InclusionInv /\ DataInv /\ cfg \in Configs /\ MissInv
      /\ StacksOK /\ dram \in [Addrs -> BOOLEAN] /\ ThreadsOK
  BY NodeOfCore, RunningFacts DEF ThreadsOK, ChannelsOK, StacksOK
<1>2. /\ pc[c] = "woken" /\ o.t # "P" /\ net' = [net EXCEPT ![n].pc = "signalled"]
      /\ FillAndAccess(n, c, o, k, dram) /\ UNCHANGED <<cfg, dir>>
  BY <1>1, RefillParts
<1>3. o.a \in Addrs
  BY <1>1, <1>2 DEF ThreadInv, OpInv
<1>4. cfg.direct \/ stack[n].llc[o.a].s \in {"E", "M"} => AloneAt(n, o.a)
  BY <1>3, AloneCore
<1>5. stack[n].l1[c][o.a].s = "I"
  BY <1>1, <1>2 DEF MissInv, CoreInv, CoreFits
<1>6. SameWork
  BY <1>1, <1>2 DEF SameWork, ThreadsOK
<1>7. net[n].pc = "handoff" /\ net[n].a = o.a
  BY <1>1, <1>2, WokenFacts
<1>8. Sound(n, stack[n], {o.a}) /\ stack[n].llc[o.a].s \in {"S", "E", "M"}
  BY <1>1, <1>7 DEF InclusionInv, NodeInv, Exempt, Present
<1>9. k = Check(j, \/ Permissible(stack[n].llc[o.a], o.t)
                   \/ Permissible(Upgrade(stack[n], {}, o.a).llc[o.a], o.t), "refill missed")
  BY DEF RefillChecked
<1>10. RefillStack(n, c, o, k)
  BY <1>1, <1>3, RefillFacts
<1>11. j = IF Permissible(stack[n].llc[o.a], o.t) THEN ServeHit(stack[n], C, o.t, o.a)
                                                  ELSE Upgrade(stack[n], C, o.a)
  BY DEF Refilled
<1> HIDE DEF n, o, C, k, j
<1>12. Kind(n, stack[n], j) /\ j \in Stack(n)
  <2>1. /\ Kind(n, stack[n], ServeHit(stack[n], C, o.t, o.a))
        /\ Kind(n, stack[n], Upgrade(stack[n], C, o.a))
    BY <1>1, <1>3, HitKind, UpgradeKind
  <2>2. ServeHit(stack[n], C, o.t, o.a) \in Stack(n) /\ Upgrade(stack[n], C, o.a) \in Stack(n)
    BY <1>1, <1>3, ServeHitFacts, UpgradeFacts DEF HitServed, Upgraded
  <2> QED
    BY <1>11, <2>1, <2>2
<1>13. k.l1 = j.l1 /\ k.llc = j.llc
  BY <1>9, <1>12, Zenon DEF Check, Stack
<1>14. Kind(n, stack[n], k)
  BY <1>12, <1>13, SameKind, KindChain
<1>15. Ready(n, k, dram)
  BY <1>1, <1>14, ReadyNow, ReadyKind
<1>16. k \in Stack(n)
  BY <1>10 DEF RefillStack
<1>17. Filled(n, c, o, k)
  BY <1>1, <1>2, <1>3, <1>16, FillFacts
<1>18. k.err = "no"
  BY <1>17 DEF Filled, Accessed, Copied
<1>19. PICK i \in Stack(n) :
         /\ \/ Permissible(stack[n].llc[o.a], o.t) /\ HitServed(n, stack[n], C, o.t, o.a, i)
            \/ ~Permissible(stack[n].llc[o.a], o.t) /\ Upgraded(n, stack[n], C, o.a, i)
         /\ k.l1 = i.l1 /\ k.llc = i.llc /\ Permissible(i.llc[o.a], o.t)
  BY <1>10, <1>18 DEF RefillStack, C
<1>20. /\ Clean(C, i, o.a) /\ i.l1[c][o.a].s = "I"
       /\ ~cfg.direct /\ i.llc[o.a].s = "M" => stack[n].llc[o.a].s \in {"E", "M"}
  <2> DEFINE P == {o.a}
             s == stack[n]
             a == o.a
             t == o.t
  <2>0. Sound(n, s, P) /\ s \in Stack(n) /\ a \in Addrs /\ s.l1[c][a].s = "I" /\ s.llc[a].s \in {"S", "E", "M"}
    BY <1>1, <1>3, <1>5, <1>8 DEF n, o
  <2>1. ASSUME Permissible(s.llc[a], t), HitServed(n, s, C, t, a, i)
        PROVE  Clean(C, i, a) /\ i.l1[c][a].s = "I" /\ i.llc[a].s = s.llc[a].s
    <3> HIDE DEF P, s, a, t
    <3>1. Clean(C, i, a) /\ i.llc[a].s = s.llc[a].s
      BY <1>1, <2>0, <2>1, HitSound
    <3>2. i.l1[c][a].s = "I"
      BY <1>1, <2>0, <2>1 DEF HitServed
    <3> QED
      BY <3>1, <3>2
  <2>2. ASSUME ~Permissible(s.llc[a], t), Upgraded(n, s, C, a, i), Permissible(i.llc[a], t)
        PROVE  /\ Clean(C, i, a) /\ i.l1[c][a].s = "I"
               /\ ~cfg.direct => Kept(s.llc[a].s, i.llc[a].s)
    <3> HIDE DEF P, s, a, t
    <3>1. Clean(C, i, a)
      BY <1>1, <2>0, <2>2, UpgradedSound
    <3>2. i.l1[c][a].s = "I"
      BY <1>1, <2>0, <2>2 DEF Upgraded
    <3>3. ~cfg.direct => Kept(s.llc[a].s, i.llc[a].s)
      BY <1>1, <2>0, <2>2, UpgradedKept
    <3> QED
      BY <3>1, <3>2, <3>3
  <2>3. \/ Permissible(s.llc[a], t) /\ HitServed(n, s, C, t, a, i)
        \/ ~Permissible(s.llc[a], t) /\ Upgraded(n, s, C, a, i) /\ Permissible(i.llc[a], t)
    BY <1>19
  <2> QED
    BY <2>0, <2>1, <2>2, <2>3 DEF Kept
<1>21. Clean(CoresOf(n), k, o.a) /\ k.llc[o.a].s # "I"
  BY <1>19, <1>20 DEF Clean, Permissible, C
<1>22. o.t = "W" /\ k.llc[o.a].s = "M" => AloneAt(n, o.a)
  BY <1>4, <1>19, <1>20
<1> QED
  BY <1>1, <1>2, <1>3, <1>6, <1>15, <1>16, <1>21, <1>22, FillReady

LEMMA EndPrefetchReady ==
    ASSUME DataInv, Types, NEW n \in Nodes, NEW c, NEW r \in Stack(n), NEW d, Ready(n, r, d),
           EndPrefetch(n, c, r, d), UNCHANGED <<cfg, dir>>, SameWork
    PROVE  DataInv'
<1>1. stack' = [stack EXCEPT ![n] = r] /\ dram' = d /\ UNCHANGED <<toDir, toCache>>
  BY DEF EndPrefetch
<1>2. stack'[n] = r /\ \A m \in Nodes \ {n} : stack'[m] = stack[m]
  BY <1>1 DEF Types, StacksOK
<1>3. Ready(n, r, dram') /\ stack'[n].l1 = r.l1 /\ stack'[n].llc = r.llc
  BY <1>1, <1>2
<1>4. UNCHANGED <<cfg, toDir, toCache, dir>>
  BY <1>1
<1> QED
  BY <1>2, <1>3, <1>4, ReadyEnd

LEMMA PrefetchReady ==
    ASSUME Running, NEW c \in Cores, Prefetch(c)
    PROVE  DataInv'
<1> DEFINE n == NodeOf[c]
<1>1. n \in Nodes /\ Types /\ DataInv
  BY NodeOfCore, RunningFacts
<1>2. UNCHANGED <<cfg, stack, net, toDir, toCache, dir, dram>>
  BY <1>1, PrefetchParts DEF dirVars
<1> HIDE DEF n
<1>3. Ready(n, stack[n], dram')
  BY <1>1, <1>2, ReadyNow
<1>4. SameWork
  BY <1>2 DEF SameWork
<1>5. UNCHANGED <<cfg, toDir, toCache, dir>> /\ stack' = stack
  BY <1>2
<1> QED
  BY <1>1, <1>3, <1>4, <1>5, ReadyEnd

LEMMA RefillPrefetchReady ==
    ASSUME Running, NEW c \in Cores, RefillPrefetch(c)
    PROVE  DataInv'
<1> DEFINE n == NodeOf[c]
           a == op[c].a
           ok == Permissible(stack[n].llc[a], "P")
           k == Check(stack[n], ok, "line not there after prefetch")
           C == DOMAIN k.l1
           r == ServeHit(k, C, "P", a)
<1>1. /\ n \in Nodes /\ Types /\ DataInv /\ ThreadsOK /\ cfg \in Configs /\ OpsUsed
      /\ stack[n] \in Stack(n) /\ pc[c] = "woken"
  BY NodeOfCore, RunningFacts, Zenon DEF StacksOK, RefillPrefetch
<1>2. a \in Addrs
  BY <1>1, Zenon DEF OpsUsed
<1>3. /\ net' = [net EXCEPT ![n].pc = "signalled"] /\ UNCHANGED <<cfg, dir>>
      /\ EndPrefetch(n, c, r, dram)
  BY Zenon DEF RefillPrefetch
<1>4. k \in Stack(n) /\ k.l1 = stack[n].l1 /\ k.llc = stack[n].llc
  BY <1>1, Zenon DEF Check, Stack, Errors
<1>5. C = CoresOf(n)
  BY <1>1, <1>4, StackFields, Zenon
<1>6. SameWork
  BY <1>1, <1>3, Zenon DEF SameWork, ThreadsOK
<1> HIDE DEF n, a, k, C
<1>7. HitServed(n, k, C, "P", a, r) /\ Kind(n, k, r)
  BY <1>1, <1>2, <1>4, <1>5, HitKind, ServeHitFacts
<1> HIDE DEF r
<1>8. r \in Stack(n)
  BY <1>7 DEF HitServed
<1>9. Kind(n, stack[n], r)
  BY <1>4, <1>7, SameKind, KindChain
<1>10. Ready(n, r, dram)
  BY <1>1, <1>9, ReadyNow, ReadyKind
<1> QED
  BY <1>1, <1>3, <1>6, <1>8, <1>10, EndPrefetchReady

LEMMA DoPrefetchServed ==
    ASSUME Running, NEW c \in Cores, UserStep(c), DoPrefetch(c), DoPrefetchEnds(c)
    PROVE  DataInv'
<1> DEFINE n == NodeOf[c]
           a == op[c].a
           C == CoresOf(n)
           st == stack[n]
<1>1. /\ n \in Nodes /\ Types /\ DataInv /\ cfg \in Configs /\ OpsUsed /\ InclusionInv
      /\ stack[n] \in Stack(n) /\ pc[c] = "prefetching" /\ dram \in [Addrs -> BOOLEAN] /\ C \in SUBSET CoresOf(n)
  BY NodeOfCore, RunningFacts DEF StacksOK, ChannelsOK, DoPrefetch
<1>2. a \in Addrs
  BY <1>1 DEF OpsUsed
<1>3. PICK r \in Served("P", a, st, C) : EndPrefetch(n, c, r.st, r.dram)
  BY DEF DoPrefetchEnds
<1>4. UNCHANGED <<cfg, net, dir>>
  BY DEF DoPrefetch
<1>5. SameWork
  BY <1>4 DEF SameWork
<1>6. cfg.direct => \A x \in Addrs : ~Elsewhere(n, x)
  BY <1>2, AloneCore
<1>7. Ready(n, st, dram) /\ Included(n, st) /\ st \in Stack(n)
  BY <1>1, ReadyNow DEF InclusionInv, NodeInv, Sound
<1> HIDE DEF n, a, C, st
<1>8. Ready(n, r.st, r.dram)
  BY <1>1, <1>2, <1>6, <1>7, ServedReady
<1>9. r.st \in Stack(n)
  BY <1>1, <1>2, <1>7, ServedFacts
<1>10. EndPrefetch(n, c, r.st, r.dram)
  BY <1>3
<1>11. UNCHANGED <<cfg, dir>>
  BY <1>4
<1> QED
  BY <1>1, <1>5, <1>8, <1>9, <1>10, <1>11, EndPrefetchReady
-----------------------------------------------------------------------------
(* A step of one node that sends messages *)

Longer(q, r) == \A i \in DOMAIN q : i \in DOMAIN r /\ r[i] = q[i]

LEMMA NodeEnd ==
    ASSUME DataInv, NEW n \in Nodes,
           \A m \in Nodes \ {n} : /\ stack'[m] = stack[m] /\ toDir'[m] = toDir[m]
                                  /\ toCache'[m] = toCache[m] /\ net'[m].a = net[m].a,
           UNCHANGED <<cfg, dir>>, NodeData(n, stack'[n], net'[n].a), Carried(toCache'[n]),
           Reports(n, toDir'[n], dir), Longer(toDir[n], toDir'[n]),
           \A x \in Addrs : dram'[x] \/ stack'[n].llc[x].s = "M" \/ Elsewhere(n, x) \/ InFlight(x, toDir')
    PROVE  DataInv'
<1>1. ASSUME NEW m \in Nodes
      PROVE  /\ NodeData(m, stack'[m], net'[m].a)
             /\ Carried(toCache'[m]) /\ Reports(m, toDir'[m], dir')
  <2>1. CASE m = n
    BY <2>1
  <2>2. CASE m # n
    BY <2>2 DEF DataInv
  <2> QED
    BY <2>1, <2>2
<1>2. ASSUME NEW x, InFlight(x, toDir)
      PROVE  InFlight(x, toDir')
  <2>1. PICK m \in Nodes : \E i \in DOMAIN toDir[m] : toDir[m][i].a = x /\ toDir[m][i].d
    BY <1>2 DEF InFlight
  <2>2. Longer(toDir[m], toDir'[m])
    BY DEF Longer
  <2>3. \E i \in DOMAIN toDir'[m] : toDir'[m][i].a = x /\ toDir'[m][i].d
    BY <2>1, <2>2 DEF Longer
  <2> QED
    BY <2>3 DEF InFlight
<1>3. ASSUME NEW x \in Addrs
      PROVE  dram'[x] \/ (\E m \in Nodes : stack'[m].llc[x].s = "M") \/ InFlight(x, toDir')
  BY <1>2 DEF Elsewhere
<1>4. cfg' = cfg
  OBVIOUS
<1> QED
  BY <1>1, <1>3, <1>4, DataNext

LEMMA LongerFacts ==
    ASSUME NEW T, NEW q \in Seq(T), NEW g \in T
    PROVE  Longer(q, q) /\ Longer(q, Append(q, g))
BY DEF Longer

LEMMA ReportsAppend ==
    ASSUME NEW n, NEW q \in Seq(ToDir), NEW g \in ToDir, NEW D, Reports(n, q, D),
           g.d <=> g.t \in {"FLUSH_REP", "WB_REP"},
           g.d => /\ g.f /\ D[g.a].owner = n
                  /\ \A i \in DOMAIN q : q[i].a = g.a => ~q[i].d
    PROVE  Reports(n, Append(q, g), D)
<1> DEFINE r == Append(q, g)
<1>1. ASSUME NEW i \in DOMAIN r
      PROVE  \/ i \in DOMAIN q /\ r[i] = q[i]
             \/ i = Len(q) + 1 /\ r[i] = g
  BY EntryOfAppend
<1>2. \A i \in DOMAIN q : i # Len(q) + 1
  OBVIOUS
<1> HIDE DEF r
<1>3. Reports(n, r, D)
  BY <1>1, <1>2 DEF Reports
<1> QED
  BY <1>3 DEF r

\* What a request queued for the directory does to the data: all L1 copies of
\* a line that is upgraded are gone.
LEMMA InitiateReady ==
    ASSUME Running, NEW n \in Nodes, NEW c, NEW t, NEW a \in Addrs, NEW st \in Stack(n),
           InitiateDirectoryAccess(n, c, t, a, st), Kind(n, stack[n], st), UNCHANGED <<cfg, net, dir>>,
           Sends(n, t, a, st) => \A d \in CoresOf(n) : st.l1[d][a].s = "I"
    PROVE  DataInv'
<1> DEFINE first == FirstWaiter(n, a)
           excl == t \notin {"R", "P"}
           upgrade == first /\ excl /\ st.llc[a].s = "S"
           k == IF upgrade THEN Upgrading(st, a) ELSE st
           ok == first /\ excl => k.llc[a].s \in {"I", "u"}
           r == Check(k, ok, "EX_REQ for a held line")
           req == IF upgrade THEN "UPGRADE_REQ" ELSE IF excl THEN "EX_REQ" ELSE "SH_REQ"
           g == Msg(req, a, FALSE, FALSE)
           ms == IF first THEN <<g>> ELSE <<>>
           w == net[n].a
<1>1. /\ stack' = [stack EXCEPT ![n] = r] /\ toDir' = [toDir EXCEPT ![n] = @ \o ms]
      /\ toCache' = toCache /\ dram' = dram
  BY Zenon DEF InitiateDirectoryAccess, Send
<1>2. /\ StacksOK /\ ChannelsOK /\ DataInv /\ stack[n] \in Stack(n) /\ toDir[n] \in Seq(ToDir)
      /\ toDir \in [Nodes -> Seq(ToDir)] /\ DOMAIN stack = Nodes
  BY RunningFacts DEF StacksOK, ChannelsOK
<1>3. /\ g \in ToDir /\ ~g.d /\ g.t \notin {"FLUSH_REP", "WB_REP"}
  <2>1. req \in Requests /\ req \notin {"FLUSH_REP", "WB_REP"}
    BY DEF Requests
  <2> HIDE DEF req
  <2>2. g.t = req /\ ~g.d /\ g \in ToDir
    BY <2>1, MsgFacts
  <2> QED
    BY <2>1, <2>2
<1>4. Ready(n, st, dram)
  BY <1>2, ReadyNow, ReadyKind
<1>5. NodeData(n, k, w) /\ k \in Stack(n) /\ \A x \in Addrs : st.llc[x].s = "M" => k.llc[x].s = "M"
  <2>1. NodeData(n, st, w)
    BY <1>4 DEF Ready
  <2>2. CASE upgrade
    <3>1. Sends(n, t, a, st)
      BY <2>2 DEF Sends, IsWriter
    <3>2. Sharp(n, st, a)
      BY <3>1 DEF Sharp
    <3>3. NodeData(n, Upgrading(st, a), w)
      BY <2>1, <2>2, <3>2, UpgradingData
    <3>4. SetUpgrading(n, st, a, Upgrading(st, a))
      BY UpgradingFacts
    <3>5. \A x \in Addrs : st.llc[x].s = "M" => Upgrading(st, a).llc[x].s = "M"
      BY <2>2, <3>4 DEF SetUpgrading
    <3> QED
      BY <2>2, <3>3, <3>4, <3>5 DEF SetUpgrading
  <2>3. CASE ~upgrade
    BY <2>1, <2>3
  <2> QED
    BY <2>2, <2>3
<1> HIDE DEF g, k
<1>6. r.l1 = k.l1 /\ r.llc = k.llc
  BY <1>5 DEF Check, Stack
<1> HIDE DEF r
<1>7. NodeData(n, r, w)
  BY <1>5, <1>6, SameKind, KindNode
<1>8. stack'[n] = r /\ \A m \in Nodes \ {n} : stack'[m] = stack[m] /\ toDir'[m] = toDir[m]
  BY <1>1, <1>2
<1>9. toDir'[n] \in {toDir[n], Append(toDir[n], g)}
  <2>1. toDir'[n] = toDir[n] \o ms
    BY <1>1, <1>2
  <2>2. toDir[n] \o <<>> = toDir[n] /\ toDir[n] \o <<g>> = Append(toDir[n], g)
    BY <1>2, <1>3, SendOne
  <2> QED
    BY <2>1, <2>2
<1>10. Reports(n, toDir[n], dir) /\ Carried(toCache[n])
  BY <1>2 DEF DataInv
<1>11. Reports(n, Append(toDir[n], g), dir)
  BY <1>2, <1>3, <1>10, ReportsAppend
<1>12. Longer(toDir[n], toDir[n]) /\ Longer(toDir[n], Append(toDir[n], g))
  BY <1>2, <1>3, LongerFacts
<1>13. Reports(n, toDir'[n], dir) /\ Longer(toDir[n], toDir'[n]) /\ Carried(toCache'[n])
  BY <1>1, <1>9, <1>10, <1>11, <1>12
<1>14. \A x \in Addrs : dram'[x] \/ stack'[n].llc[x].s = "M" \/ Elsewhere(n, x)
  BY <1>1, <1>4, <1>5, <1>6, <1>8 DEF Ready
<1>15. NodeData(n, stack'[n], net'[n].a)
  BY <1>7, <1>8
<1>16. UNCHANGED <<cfg, dir>> /\ toCache' = toCache /\ net' = net
  BY <1>1
<1>17. \A m \in Nodes \ {n} : /\ stack'[m] = stack[m] /\ toDir'[m] = toDir[m]
                              /\ toCache'[m] = toCache[m] /\ net'[m].a = net[m].a
  BY <1>8, <1>16
<1> QED
  BY <1>2, <1>13, <1>14, <1>15, <1>16, <1>17, NodeEnd

\* A miss that is queued: the writer's copies are gone.
LEMMA NextLevelQueued ==
    ASSUME Running, NEW c \in Cores, NextLevel(c),
           NEW st, st = MissStack(NodeOf[c], c, op[c].a),
           InitiateDirectoryAccess(NodeOf[c], c, op[c].t, op[c].a,
                                   Upgrade(st, CoresOf(NodeOf[c]) \ {c}, op[c].a))
    PROVE  DataInv'
<1> DEFINE n == NodeOf[c]
           o == op[c]
           C == CoresOf(n) \ {c}
           k == Upgrade(st, C, o.a)
<1>1. /\ n \in Nodes /\ c \in CoresOf(n) /\ stack[n] \in Stack(n) /\ C \in SUBSET CoresOf(n)
      /\ Types /\ LockTypes /\ ThreadInv /\ MissInv /\ StacksOK /\ cfg \in Configs
  BY NodeOfCore, RunningFacts, Zenon DEF StacksOK
<1>2. pc[c] = "missed" /\ (LockFree(n) \/ lock[n].ex = c) /\ UNCHANGED <<cfg, net, dir>>
  BY Zenon DEF NextLevel
<1>3. o.a \in Addrs
  BY <1>1, <1>2 DEF ThreadInv, OpInv
<1>4. Kind(n, stack[n], st)
  BY <1>1, <1>2, <1>3, MissKind
<1>5. InitiateDirectoryAccess(n, c, o.t, o.a, k) /\ st = MissStack(n, c, o.a)
  OBVIOUS
<1> HIDE DEF n, o, C
<1>6. Invalidated(n, stack[n], c, o.a, st)
  BY <1>1, <1>3, <1>5, MissStackFacts
<1>7. st \in Stack(n) /\ st.l1[c][o.a].s = "I"
  BY <1>1, <1>3, <1>6 DEF Invalidated
<1>8. Kind(n, st, k) /\ Upgraded(n, st, C, o.a, k)
  BY <1>1, <1>3, <1>7, UpgradeKind, UpgradeFacts
<1> HIDE DEF k
<1>9. Kind(n, stack[n], k) /\ k \in Stack(n)
  BY <1>4, <1>8, KindChain, Zenon DEF Upgraded
<1>10. ASSUME Sends(n, o.t, o.a, k)
       PROVE  \A d \in CoresOf(n) : k.l1[d][o.a].s = "I"
  <2>1. k.llc[o.a].s = "S"
    BY <1>10, Zenon DEF Sends
  <2>2. st.llc[o.a].s = "S"
    BY <1>8, <2>1, Zenon DEF Upgraded
  <2> QED
    BY <1>3, <1>7, <1>8, <2>2 DEF Upgraded, C
<1>11. UNCHANGED <<cfg, net, dir>>
  BY <1>2
<1> QED
  BY <1>1, <1>3, <1>5, <1>9, <1>10, <1>11, InitiateReady

LEMMA NextLevelReady ==
    ASSUME Running, NEW c \in Cores, UserStep(c), NextLevel(c), failed' = "no"
    PROVE  DataInv'
<1> DEFINE n == NodeOf[c]
           o == op[c]
           st == MissStack(n, c, o.a)
           others == DOMAIN st.l1 \ {c}
<1>1. n \in Nodes /\ c \in CoresOf(n) /\ StacksOK /\ ThreadInv
  BY NodeOfCore, RunningFacts, Zenon
<1>2. pc[c] = "missed"
  BY Zenon DEF NextLevel
<1>3. o.a \in Addrs
  BY <1>1, <1>2, Zenon DEF ThreadInv, OpInv
<1>4. \/ \E r \in Served(o.t, o.a, st, others) : FillAndAccess(n, c, o, r.st, r.dram)
      \/ InitiateDirectoryAccess(n, c, o.t, o.a, Upgrade(st, others, o.a))
  BY Zenon DEF NextLevel, MissStack
<1>5. Invalidated(n, stack[n], c, o.a, st)
  BY <1>1, <1>3, MissStackFacts
<1>6. st = MissStack(NodeOf[c], c, op[c].a)
  OBVIOUS
<1> HIDE DEF st
<1>7. st \in Stack(n)
  BY <1>5 DEF Invalidated
<1>8. others = CoresOf(n) \ {c}
  BY <1>1, <1>7, StackFields
<1> HIDE DEF others
<1>9. CASE \E r \in Served(o.t, o.a, st, others) : FillAndAccess(n, c, o, r.st, r.dram)
  BY <1>6, <1>8, <1>9, NextLevelServed
<1>10. CASE InitiateDirectoryAccess(n, c, o.t, o.a, Upgrade(st, others, o.a))
  BY <1>6, <1>8, <1>10, NextLevelQueued
<1> QED
  BY <1>4, <1>9, <1>10

LEMMA DoPrefetchReady ==
    ASSUME Running, NEW c \in Cores, UserStep(c), DoPrefetch(c)
    PROVE  DataInv'
<1> DEFINE n == NodeOf[c]
           a == op[c].a
           C == CoresOf(n)
           k == Upgrade(stack[n], C, a)
<1>1. /\ n \in Nodes /\ Types /\ OpsUsed /\ stack[n] \in Stack(n) /\ C \in SUBSET CoresOf(n) /\ cfg \in Configs
  BY NodeOfCore, RunningFacts DEF StacksOK
<1>2. /\ pc[c] = "prefetching" /\ UNCHANGED <<cfg, net, dir>>
      /\ DoPrefetchEnds(c) \/ InitiateDirectoryAccess(n, c, "P", a, k)
  BY <1>1, DoPrefetchParts
<1>3. a \in Addrs
  BY <1>1, <1>2 DEF OpsUsed
<1>4. ASSUME InitiateDirectoryAccess(n, c, "P", a, k)
      PROVE  DataInv'
  <2> HIDE DEF n, a, C
  <2>1. Kind(n, stack[n], k) /\ Upgraded(n, stack[n], C, a, k)
    BY <1>1, <1>3, UpgradeKind, UpgradeFacts
  <2> HIDE DEF k
  <2>2. k \in Stack(n)
    BY <2>1 DEF Upgraded
  <2>3. ~Sends(n, "P", a, k)
    BY DEF Sends, IsWriter
  <2>4. UNCHANGED <<cfg, net, dir>>
    BY <1>2
  <2> QED
    BY <1>1, <1>3, <1>4, <2>1, <2>2, <2>3, <2>4, InitiateReady
<1> QED
  BY <1>2, <1>4, DoPrefetchServed

\* Every step of a user thread keeps the value written last.
LEMMA UserReady ==
    ASSUME Running, NEW c \in Cores, UserStep(c), failed' = "no"
    PROVE  DataInv'
<1>1. ASSUME NEW t \in Kinds[c], NEW a \in Addrs, Issue(c, Operation(t, a))
      PROVE  DataInv'
  <2>1. t \in {"R", "W", "X"}
    BY CacheAssumption
  <2> QED
    BY <1>1, <2>1, IssueReady
<1> QED
  BY <1>1, IssueUnlockReady, NextLevelReady, RefillReady, PrefetchReady, DoPrefetchReady, RefillPrefetchReady
  DEF UserStep
-----------------------------------------------------------------------------
(* The steps of the network thread keep the data *)

\* The data of line x is among the messages q.
Told(q, x) == \E i \in DOMAIN q : q[i].a = x /\ q[i].d
\* What the eviction of line v sends: the data of a dirty line goes along.
LEMMA EvictReports ==
    ASSUME Running, ~cfg.direct, NEW n \in Nodes, NEW v \in Addrs \cup {None},
           NEW ms, ms = EvictMsgs(stack[n], v), NEW q, q = toDir[n] \o ms
    PROVE  /\ Evicting(ms) /\ Reports(n, q, dir) /\ Longer(toDir[n], q)
           /\ v # None /\ stack[n].llc[v].s = "M" => Told(q, v)
<1> DEFINE st == stack[n]
           p == toDir[n]
<1>1. /\ cfg \in Configs /\ st \in Stack(n) /\ None \notin Addrs /\ p \in Seq(ToDir)
      /\ Types /\ Lines /\ DataInv
  BY RunningFacts DEF StacksOK, ChannelsOK
<1>2. Reports(n, p, dir)
  BY <1>1 DEF DataInv
<1>3. CASE v = None
  <2>1. ms = <<>>
    BY <1>1, <1>3, EvictFacts
  <2>2. q = p
    BY <1>1, <2>1
  <2>3. Longer(p, p)
    BY DEF Longer
  <2> QED
    BY <1>2, <1>3, <2>1, <2>2, <2>3 DEF Evicting
<1>4. CASE v # None
  <2> DEFINE ev == Evicted(st, v)
             g == IF ev.s = "M" THEN Msg("FLUSH_REP", v, ev.f, TRUE) ELSE Msg("INV_REP", v, FALSE, FALSE)
  <2>1. v \in Addrs
    BY <1>4
  <2>2. ev \in Cell /\ ev.s = st.llc[v].s
    BY <1>1, <1>4, EvictFacts
  <2>3. ms = <<g>>
    BY <1>4 DEF EvictMsgs
  <2>4. st.llc[v].s # "I" => ev.f
    <3>1. Good(n, st, v)
      BY <1>1, <2>1 DEF DataInv, NodeData, LineData
    <3> QED
      BY <1>1, <2>1, <3>1, EvictedGood
  <2> HIDE DEF ev
  <2>5. /\ g \in ToDir /\ g.a = v /\ g.t \in Gone
        /\ g.d <=> ev.s = "M"
        /\ g.d <=> g.t \in {"FLUSH_REP", "WB_REP"}
        /\ g.d => g.f = ev.f
    <3>0. ev.f \in BOOLEAN
      BY <2>2 DEF Cell
    <3>1. CASE ev.s = "M"
      <4>1. g = Msg("FLUSH_REP", v, ev.f, TRUE)
        BY <3>1
      <4> QED
        BY <2>1, <3>0, <3>1, <4>1 DEF Msg, ToDir, Message, MsgTypes, Gone
    <3>2. CASE ev.s # "M"
      <4>1. g = Msg("INV_REP", v, FALSE, FALSE)
        BY <3>2
      <4> QED
        BY <2>1, <3>2, <4>1 DEF Msg, ToDir, Message, MsgTypes, Gone
    <3> QED
      BY <3>1, <3>2
  <2> HIDE DEF g
  <2>6. q = Append(p, g)
    BY <1>1, <2>3, <2>5, SendOne
  <2>7. ASSUME g.d
        PROVE  /\ g.f /\ dir[g.a].owner = n
               /\ \A i \in DOMAIN p : p[i].a = g.a => ~p[i].d
    <3>1. st.llc[v].s = "M"
      BY <2>2, <2>5, <2>7
    <3>2. g.f
      BY <2>4, <2>5, <2>7, <3>1
    <3>3. dir[v].owner = n
      <4>1. Line(n, v)
        BY <1>1, <2>1 DEF Lines
      <4> QED
        BY <3>1, <4>1 DEF Line, LineOK, KnownInv
    <3>4. \A i \in DOMAIN p : p[i].d => p[i].a # v
      BY <1>1, <3>1, DataSent
    <3> QED
      BY <2>5, <3>2, <3>3, <3>4
  <2>8. Reports(n, q, dir)
    BY <1>1, <1>2, <2>5, <2>6, <2>7, ReportsAppend
  <2>9. Longer(p, q)
    BY <1>1, <2>5, <2>6, LongerFacts
  <2>10. Len(p) + 1 \in DOMAIN q /\ q[Len(p) + 1] = g
    BY <1>1, <2>5, <2>6
  <2>11. st.llc[v].s = "M" => Told(q, v)
    BY <2>2, <2>5, <2>10 DEF Told
  <2> QED
    BY <2>3, <2>5, <2>8, <2>9, <2>11 DEF Evicting
<1> QED
  BY <1>3, <1>4

\* The loop over the waiters of line a, with the caches k: an upgrade that is
\* sent finds every copy of the line with the value written last.
LEMMA WakeReady ==
    ASSUME Running, NEW n \in Nodes, NEW a \in Addrs, NEW k \in Stack(n), NEW ws, NEW ms, Evicting(ms),
           WakeWaiters(n, a, k, ws, ms), \A z \in {a, None} : NodeData(n, k, z),
           Reports(n, toDir[n] \o ms, dir), Longer(toDir[n], toDir[n] \o ms)
    PROVE  /\ \A m \in Nodes \ {n} : /\ stack'[m] = stack[m] /\ toDir'[m] = toDir[m]
                                     /\ net'[m].a = net[m].a
           /\ NodeData(n, stack'[n], net'[n].a)
           /\ \A x \in Addrs : k.llc[x].s = "M" => stack'[n].llc[x].s = "M"
           /\ Reports(n, toDir'[n], dir) /\ Longer(toDir[n], toDir'[n])
           /\ Longer(toDir[n] \o ms, toDir'[n])
<1> DEFINE q == toDir[n] \o ms
           u == Msg("UPGRADE_REQ", a, FALSE, FALSE)
<1>1. /\ StacksOK /\ ChannelsOK /\ ThreadsOK /\ toDir[n] \in Seq(ToDir) /\ ms \in Seq(ToDir)
      /\ DOMAIN net = Nodes
  <2>1. ms \in Seq(ToDir)
    <3>1. ASSUME NEW g \in ToDir, ms = <<g>>
          PROVE  ms \in Seq(ToDir)
      BY <3>1
    <3>2. ms = <<>> => ms \in Seq(ToDir)
      OBVIOUS
    <3> QED
      BY <3>1, <3>2 DEF Evicting
  <2> QED
    BY <2>1, RunningFacts DEF ThreadsOK, ChannelsOK
<1>2. Woken(n, a, k, ws, ms)
  BY <1>1, WakeFacts
<1>3. u \in ToDir /\ ~u.d /\ u.t = "UPGRADE_REQ" /\ q \in Seq(ToDir) /\ toDir[n] \o (ms \o <<u>>) = Append(q, u)
  <2>1. u.t = "UPGRADE_REQ" /\ ~u.d
    BY MsgFacts
  <2> QED
    BY <1>1, <2>1, TwoSends, UpgradeRequest
<1>4. \A m \in Nodes \ {n} : net'[m].a = net[m].a
  BY <1>1 DEF WakeWaiters
<1>5. \A m \in Nodes \ {n} : stack'[m] = stack[m] /\ toDir'[m] = toDir[m]
  BY <1>2 DEF Woken
<1>6. CASE ws # <<>> /\ NeedsUpgrade(ws[1], k.llc[a])
  <2>1. stack' = [stack EXCEPT ![n] = Upgrading(k, a)] /\ net' = [net EXCEPT ![n] = [pc |-> "idle", a |-> None]]
    BY <1>6 DEF WakeWaiters
  <2>2. k.llc[a].s = "S"
    BY <1>6 DEF NeedsUpgrade
  <2>3. Sharp(n, k, a) /\ NodeData(n, k, None)
    BY <2>2 DEF NodeData, LineData
  <2>4. NodeData(n, Upgrading(k, a), None) /\ SetUpgrading(n, k, a, Upgrading(k, a))
    BY <2>2, <2>3, UpgradingData, UpgradingFacts
  <2> DEFINE r == Upgrading(k, a)
  <2>5. stack'[n] = r /\ net'[n].a = None
    BY <1>1, <2>1 DEF StacksOK
  <2>6. NodeData(n, r, None) /\ \A x \in Addrs : k.llc[x].s = "M" => r.llc[x].s = "M"
    BY <2>2, <2>4 DEF SetUpgrading
  <2> HIDE DEF r
  <2>7. toDir'[n] = Append(q, u)
    BY <1>2, <1>3, <1>6 DEF Woken
  <2> HIDE DEF u, q
  <2>8. Reports(n, Append(q, u), dir)
    BY <1>3, ReportsAppend DEF q
  <2>9. Longer(q, Append(q, u))
    BY <1>3, LongerFacts
  <2>10. Longer(toDir[n], q)
    BY DEF q
  <2>11. Longer(toDir[n], Append(q, u))
    BY <2>9, <2>10 DEF Longer
  <2> QED
    BY <1>4, <1>5, <2>5, <2>6, <2>7, <2>8, <2>9, <2>11 DEF q
<1>7. CASE ~(ws # <<>> /\ NeedsUpgrade(ws[1], k.llc[a]))
  <2>1. /\ stack' = [stack EXCEPT ![n] = k]
        /\ \/ net' = [net EXCEPT ![n] = [pc |-> "idle", a |-> None]]
           \/ net' = [net EXCEPT ![n] = [pc |-> "handoff", a |-> a]]
    BY <1>7 DEF WakeWaiters
  <2>2. stack'[n] = k /\ net'[n].a \in {a, None}
    BY <1>1, <2>1 DEF StacksOK
  <2>3. toDir'[n] = q
    BY <1>2, <1>7 DEF Woken
  <2>4. Longer(q, q)
    BY DEF Longer
  <2> QED
    BY <1>4, <1>5, <2>2, <2>3, <2>4
<1> QED
  BY <1>6, <1>7

\* A reply that is taken brings the value written last, or finds it.
LEMMA ReplyGood ==
    ASSUME Running, NEW n \in Nodes, NEW st, st = stack[n], net[n].a = None, NEW m \in ToCache, m.t \in Rep,
           m.t \in {"SH_REP", "EX_REP"} => m.f, NEW v \in Addrs \cup {None}, v # m.a,
           m.t = "UPGRADE_REP" => v = None, NEW r, r = RepState(st, m, v), r.err = "no"
    PROVE  /\ \A z \in {m.a, None} : NodeData(n, r, z)
           /\ \A x \in Addrs : st.llc[x].s = "M" => x = v \/ r.llc[x].s = "M"
<1> DEFINE a == m.a
<1>1. /\ cfg \in Configs /\ st \in Stack(n) /\ None \notin Addrs /\ NodeData(n, st, None) /\ Included(n, st)
      /\ a \in Addrs /\ m.f \in BOOLEAN
  BY RunningFacts DEF StacksOK, DataInv, InclusionInv, NodeInv, Sound, ToCache, Message
<1>2. ASSUME m.t \in {"SH_REP", "EX_REP"}
      PROVE  /\ \A z \in {a, None} : NodeData(n, r, z)
             /\ \A x \in Addrs : st.llc[x].s = "M" => x = v \/ r.llc[x].s = "M"
  <2> DEFINE cell == [s |-> IF m.t = "EX_REP" THEN "E" ELSE "S", f |-> m.f]
  <2>1. r = InsertLLC(st, a, cell, v)
    BY <1>2, Zenon DEF RepState
  <2>2. cell \in Cell /\ cell.f /\ cell.s # "u"
    BY <1>1, <1>2 DEF Cell, States
  <2> HIDE DEF cell, a
  <2>3. InsertedLLC(n, st, a, cell, v, r)
    BY <1>1, <2>1, <2>2, InsertLLCFacts DEF a
  <2>4. st.llc[a].s = "I"
    BY <2>3 DEF InsertedLLC
  <2>5. v # a
    BY DEF a
  <2>6. ASSUME NEW z \in {a, None}
        PROVE  NodeData(n, r, z)
    BY <1>1, <2>1, <2>2, <2>4, <2>5, <2>6, InsertGood
  <2>7. \A x \in Addrs : st.llc[x].s = "M" => x = v \/ r.llc[x].s = "M"
    BY <2>3, <2>4 DEF InsertedLLC
  <2> QED
    BY <2>6, <2>7
<1>3. ASSUME m.t = "UPGRADE_REP"
      PROVE  /\ \A z \in {a, None} : NodeData(n, r, z)
             /\ \A x \in Addrs : st.llc[x].s = "M" => x = v \/ r.llc[x].s = "M"
  <2> DEFINE ok1 == st.llc[a].s = "I" => m.d
             ok2 == st.llc[a].s \in {"I", "u"}
             st1 == Check(st, ok1, "upgrade reply without data")
             st2 == Check(st1, ok2, "upgrade reply for a held line")
  <2>1. r = UpdateLLC(st2, a, "M", st.llc[a].s = "I")
    BY <1>3, Zenon DEF RepState
  <2>2. Replied(n, st, m, v, r)
    BY <1>1, RepFacts
  <2>3. st.llc[a].s = "u" /\ \A x \in Addrs : st.llc[x].s = "M" => r.llc[x].s = "M"
    BY <1>1, <1>3, <2>2 DEF Replied
  <2>4. st1 \in Stack(n) /\ st1.l1 = st.l1 /\ st1.llc = st.llc
    BY <1>1, Zenon DEF Check, Stack, Errors
  <2> HIDE DEF ok1, st1
  <2>5. st2 \in Stack(n) /\ st2.l1 = st.l1 /\ st2.llc = st.llc
    BY <2>4, Zenon DEF Check, Stack, Errors
  <2> HIDE DEF st2, ok2
  <2>6. NodeData(n, st2, None) /\ st2.llc[a].s = "u"
    BY <1>1, <2>3, <2>5, SameKind, KindNode
  <2>7. st.llc[a].s = "I" <=> FALSE
    BY <2>3
  <2>8. r = UpdateLLC(st2, a, "M", FALSE)
    BY <2>1, <2>7
  <2> HIDE DEF a
  <2>9. ASSUME NEW z \in {a, None}
        PROVE  NodeData(n, r, z)
    BY <1>1, <2>5, <2>6, <2>8, <2>9, RaisedGood
  <2> QED
    BY <2>3, <2>9
<1> QED
  BY <1>2, <1>3 DEF Rep

\* What the rest of a channel says of the lines that come.
LEMMA CarriedTail ==
    ASSUME NEW q \in Seq(ToCache), q # <<>>, Carried(q)
    PROVE  Carried(Tail(q)) /\ (Head(q).t \in {"SH_REP", "EX_REP"} => Head(q).f)
<1>1. 1 \in DOMAIN q /\ q[1] = Head(q)
  OBVIOUS
<1>2. \A i \in DOMAIN Tail(q) : i \in Pos
  BY DEF Pos
<1>3. \A i \in DOMAIN Tail(q) : i + 1 \in DOMAIN q /\ Tail(q)[i] = q[i + 1]
  BY <1>2, PlacesOfTail
<1> QED
  BY <1>1, <1>3 DEF Carried

\* The network thread takes a reply.
LEMMA HandleRepReady ==
    ASSUME Running, NEW n \in Nodes, HandleRep(n), failed' = "no"
    PROVE  DataInv'
<1> DEFINE m == Head(toCache[n])
           st == stack[n]
           ws == waiters[n][m.a]
           vs == IF m.t = "UPGRADE_REP" THEN {None} ELSE Victims(st.llc, m.a, LLCWays)
<1>1. /\ cfg \in Configs /\ StacksOK /\ ChannelsOK /\ ThreadsOK /\ NetInv /\ DataInv /\ DirectInv
      /\ st \in Stack(n) /\ None \notin Addrs /\ LLCWays \in Nat \ {0} /\ toCache \in [Nodes -> Seq(ToCache)]
  BY RunningFacts, CacheAssumption DEF StacksOK, ThreadInv, ChannelsOK
<1>2. /\ net[n].pc = "idle" /\ toCache[n] # <<>> /\ m.t \in Rep
      /\ toCache' = [toCache EXCEPT ![n] = Tail(@)] /\ UNCHANGED <<cfg, dir, dram>>
  BY Zenon DEF HandleRep, Rep, dirVars
<1>3. m \in ToCache /\ m.a \in Addrs
  BY <1>1, <1>2, HeadOfChannel
<1>4. net[n].a = None /\ ~cfg.direct
  BY <1>1, <1>2 DEF NetInv, DirectInv
<1>5. Carried(toCache[n]) /\ toCache[n] \in Seq(ToCache)
  BY <1>1 DEF DataInv
<1>6. Carried(Tail(toCache[n])) /\ (m.t \in {"SH_REP", "EX_REP"} => m.f)
  BY <1>2, <1>5, CarriedTail
<1>7. PICK v \in vs : WakeWaiters(n, m.a, Check(RepState(st, m, v), ws # <<>>, "reply without waiter"),
                                  ws, EvictMsgs(st, v))
  BY Zenon DEF HandleRep
<1> HIDE DEF m
<1>8. v \in Addrs \cup {None} /\ v # m.a /\ (m.t = "UPGRADE_REP" => v = None)
  <2>1. CASE m.t = "UPGRADE_REP"
    BY <1>1, <1>3, <2>1
  <2>2. CASE m.t # "UPGRADE_REP"
    BY <1>1, <1>3, <2>2, VictimFacts
  <2> QED
    BY <2>1, <2>2
<1> DEFINE r == RepState(st, m, v)
           ok == ws # <<>>
           k == Check(r, ok, "reply without waiter")
           ms == EvictMsgs(st, v)
           q == toDir[n] \o ms
<1>9. r \in Stack(n)
  BY <1>1, <1>2, <1>3, <1>8, RepFacts, Zenon DEF Replied
<1>10. WakeWaiters(n, m.a, k, ws, ms)
  BY <1>7, Zenon
<1>11. failed' = k.err
  BY <1>10, Zenon DEF WakeWaiters
<1>12. r = RepState(st, m, v) /\ st = stack[n] /\ ms = EvictMsgs(stack[n], v) /\ q = toDir[n] \o ms
  OBVIOUS
<1> HIDE DEF r, ms, q, vs, ws
<1>13. k \in Stack(n) /\ k.l1 = r.l1 /\ k.llc = r.llc /\ (k.err = "no" => r.err = "no")
  BY <1>9, Zenon DEF Check, Stack, Errors
<1> HIDE DEF k, ok
<1>14. r.err = "no"
  BY <1>11, <1>13
<1> DEFINE s == st
<1>15. /\ \A z \in {m.a, None} : NodeData(n, r, z)
       /\ \A x \in Addrs : s.llc[x].s = "M" => x = v \/ r.llc[x].s = "M"
  <2>1. s = stack[n] /\ r = RepState(s, m, v)
    BY <1>12
  <2> HIDE DEF s
  <2> QED
    BY <1>2, <1>3, <1>4, <1>6, <1>8, <1>14, <2>1, ReplyGood
<1>16. \A z \in {m.a, None} : NodeData(n, k, z)
  BY <1>13, <1>15, SameKind, KindNode
<1>17. /\ Evicting(ms) /\ Reports(n, q, dir) /\ Longer(toDir[n], q)
       /\ v # None /\ s.llc[v].s = "M" => Told(q, v)
  <2>1. ms = EvictMsgs(stack[n], v) /\ q = toDir[n] \o ms /\ v \in Addrs \cup {None} /\ ~cfg.direct
    BY <1>4, <1>8, <1>12
  <2> QED
    BY <2>1, EvictReports
<1>18. /\ \A l \in Nodes \ {n} : /\ stack'[l] = stack[l] /\ toDir'[l] = toDir[l]
                                 /\ net'[l].a = net[l].a
       /\ NodeData(n, stack'[n], net'[n].a)
       /\ \A x \in Addrs : k.llc[x].s = "M" => stack'[n].llc[x].s = "M"
       /\ Reports(n, toDir'[n], dir) /\ Longer(toDir[n], toDir'[n])
       /\ Longer(q, toDir'[n])
  <2>1. Reports(n, toDir[n] \o ms, dir) /\ Longer(toDir[n], toDir[n] \o ms)
    BY <1>12, <1>17
  <2>2. /\ \A l \in Nodes \ {n} : /\ stack'[l] = stack[l] /\ toDir'[l] = toDir[l]
                                  /\ net'[l].a = net[l].a
        /\ NodeData(n, stack'[n], net'[n].a)
        /\ \A x \in Addrs : k.llc[x].s = "M" => stack'[n].llc[x].s = "M"
        /\ Reports(n, toDir'[n], dir) /\ Longer(toDir[n], toDir'[n])
        /\ Longer(toDir[n] \o ms, toDir'[n])
    BY <1>3, <1>10, <1>13, <1>16, <1>17, <2>1, WakeReady
  <2> QED
    BY <1>12, <2>2
<1>19. ASSUME NEW x \in Addrs
       PROVE  dram'[x] \/ stack'[n].llc[x].s = "M" \/ Elsewhere(n, x) \/ InFlight(x, toDir')
  <2>1. dram[x] \/ s.llc[x].s = "M" \/ Elsewhere(n, x)
    BY <1>1, ReadyNow DEF Ready
  <2>2. ASSUME s.llc[x].s = "M", x = v
        PROVE  InFlight(x, toDir')
    <3>1. PICK i \in DOMAIN q : q[i].a = v /\ q[i].d
      BY <1>1, <1>17, <2>2 DEF Told
    <3>2. i \in DOMAIN toDir'[n] /\ toDir'[n][i] = q[i]
      BY <1>18 DEF Longer
    <3> QED
      BY <2>2, <3>1, <3>2 DEF InFlight
  <2>3. ASSUME s.llc[x].s = "M", x # v
        PROVE  stack'[n].llc[x].s = "M"
    BY <1>13, <1>15, <1>18, <2>3
  <2> QED
    BY <1>2, <2>1, <2>2, <2>3
<1>20. \A l \in Nodes \ {n} : /\ stack'[l] = stack[l] /\ toDir'[l] = toDir[l]
                              /\ toCache'[l] = toCache[l] /\ net'[l].a = net[l].a
  BY <1>1, <1>2, <1>18
<1>21. Carried(toCache'[n])
  BY <1>1, <1>2, <1>6
<1>22. UNCHANGED <<cfg, dir>>
  BY <1>2
<1> QED
  BY <1>1, <1>18, <1>19, <1>20, <1>21, <1>22, NodeEnd

\* The network thread goes on to the next waiter.
LEMMA ResumeReady ==
    ASSUME Running, NEW n \in Nodes, ResumeWaiters(n)
    PROVE  DataInv'
<1> DEFINE a == net[n].a
           k == stack[n]
           ws == Tail(waiters[n][a])
           p == toDir[n]
<1>1. /\ cfg \in Configs /\ StacksOK /\ ChannelsOK /\ ThreadsOK /\ NetInv /\ DataInv
      /\ k \in Stack(n) /\ None \notin Addrs /\ p \in Seq(ToDir)
  BY RunningFacts DEF StacksOK, ThreadInv, ChannelsOK
<1>2. /\ net[n].pc = "signalled" /\ WakeWaiters(n, a, k, ws, <<>>) /\ UNCHANGED <<cfg, toCache, dir, dram>>
  BY DEF ResumeWaiters, dirVars
<1>3. a \in Addrs
  BY <1>1, <1>2 DEF NetInv, ThreadsOK
<1>4. NodeData(n, k, a) /\ Reports(n, p, dir) /\ Carried(toCache[n])
  BY <1>1 DEF DataInv
<1>5. NodeData(n, k, None)
  BY <1>1, <1>4 DEF NodeData, LineData
<1>6. p \o <<>> = p /\ Longer(p, p) /\ Evicting(<<>>)
  BY <1>1 DEF Longer, Evicting
<1>7. Reports(n, p \o <<>>, dir) /\ Longer(p, p \o <<>>) /\ \A z \in {a, None} : NodeData(n, k, z)
  BY <1>4, <1>5, <1>6
<1> HIDE DEF a, k, ws
<1>8. /\ \A l \in Nodes \ {n} : /\ stack'[l] = stack[l] /\ toDir'[l] = toDir[l]
                                /\ net'[l].a = net[l].a
      /\ NodeData(n, stack'[n], net'[n].a)
      /\ \A x \in Addrs : k.llc[x].s = "M" => stack'[n].llc[x].s = "M"
      /\ Reports(n, toDir'[n], dir) /\ Longer(toDir[n], toDir'[n])
  BY <1>1, <1>2, <1>3, <1>6, <1>7, WakeReady
<1>9. \A x \in Addrs : dram'[x] \/ stack'[n].llc[x].s = "M" \/ Elsewhere(n, x)
  <2>1. \A x \in Addrs : dram[x] \/ k.llc[x].s = "M" \/ Elsewhere(n, x)
    BY <1>1, ReadyNow DEF Ready, k
  <2> QED
    BY <1>2, <1>8, <2>1
<1>10. UNCHANGED <<cfg, dir>> /\ \A l \in Nodes : toCache'[l] = toCache[l]
  BY <1>2
<1> QED
  BY <1>1, <1>4, <1>8, <1>9, <1>10, NodeEnd

\* No data of line a is on its way in q.
NoData(q, a) == \A i \in DOMAIN q : q[i].d => q[i].a # a

\* The answer g to a request of the directory for line a: the LLC's dirty data goes along.
LEMMA AnswerReady ==
    ASSUME Running, NEW n \in Nodes, NEW a \in Addrs, NEW new \in {"I", "S"}, NEW wants \in BOOLEAN,
           NEW g \in ToDir, g.a = a, g.d <=> wants, g.d <=> g.t \in {"FLUSH_REP", "WB_REP"},
           wants => /\ g.f /\ dir[a].owner = n
                    /\ NoData(toDir[n], a),
           ~wants => stack[n].llc[a].s # "M", net[n].a = None, toCache[n] # <<>>,
           stack' = [stack EXCEPT ![n] = UpdateLLC(stack[n], a, new, wants)],
           toDir' = [toDir EXCEPT ![n] = Append(@, g)], toCache' = [toCache EXCEPT ![n] = Tail(@)],
           UNCHANGED <<cfg, net, dir, dram>>
    PROVE  DataInv'
<1> DEFINE st == stack[n]
           p == toDir[n]
           c == toCache[n]
           r == UpdateLLC(st, a, new, wants)
<1>1. /\ cfg \in Configs /\ StacksOK /\ ChannelsOK /\ DataInv /\ st \in Stack(n) /\ None \notin Addrs
      /\ p \in Seq(ToDir) /\ c \in Seq(ToCache)
  BY RunningFacts DEF StacksOK, ChannelsOK
<1>2. NodeData(n, st, None) /\ Reports(n, p, dir) /\ Carried(c)
  BY <1>1 DEF DataInv
<1>3. UpdatedLLC(n, st, a, new, wants, r)
  BY <1>1, UpdateLLCFacts
<1>4. NodeData(n, r, None)
  BY <1>1, <1>2, TakenGood
<1>5. stack'[n] = r /\ \A m \in Nodes \ {n} : stack'[m] = stack[m]
  BY <1>1 DEF StacksOK
<1>6. toDir'[n] = Append(p, g) /\ \A m \in Nodes \ {n} : toDir'[m] = toDir[m]
  BY <1>1 DEF ChannelsOK
<1>7. toCache'[n] = Tail(c) /\ \A m \in Nodes \ {n} : toCache'[m] = toCache[m]
  BY <1>1 DEF ChannelsOK
<1>8. Carried(Tail(c))
  BY <1>1, <1>2, CarriedTail
<1> HIDE DEF r
<1>9. Reports(n, Append(p, g), dir)
  BY <1>1, <1>2, ReportsAppend DEF NoData
<1>10. Longer(p, Append(p, g))
  BY <1>1, LongerFacts
<1>11. ASSUME NEW x \in Addrs
       PROVE  dram'[x] \/ stack'[n].llc[x].s = "M" \/ Elsewhere(n, x) \/ InFlight(x, toDir')
  <2>1. dram[x] \/ st.llc[x].s = "M" \/ Elsewhere(n, x)
    BY <1>1, ReadyNow DEF Ready
  <2>2. ASSUME wants, x = a
        PROVE  InFlight(x, toDir')
    <3>1. Len(p) + 1 \in DOMAIN Append(p, g) /\ Append(p, g)[Len(p) + 1] = g
      BY <1>1
    <3> QED
      BY <1>6, <2>2, <3>1 DEF InFlight
  <2>3. x # a => r.llc[x].s = st.llc[x].s
    BY <1>3, Zenon DEF UpdatedLLC
  <2> QED
    BY <1>5, <2>1, <2>2, <2>3
<1>12. /\ NodeData(n, stack'[n], net'[n].a) /\ Carried(toCache'[n]) /\ Reports(n, toDir'[n], dir)
       /\ Longer(toDir[n], toDir'[n])
  BY <1>4, <1>5, <1>6, <1>7, <1>8, <1>9, <1>10
<1>13. \A m \in Nodes \ {n} : /\ stack'[m] = stack[m] /\ toDir'[m] = toDir[m]
                              /\ toCache'[m] = toCache[m] /\ net'[m].a = net[m].a
  BY <1>5, <1>6, <1>7
<1>14. UNCHANGED <<cfg, dir>>
  OBVIOUS
<1> QED
  BY <1>1, <1>11, <1>12, <1>13, <1>14, NodeEnd

\* What the directory asks of a line that is there: the dirty data is not
\* dropped, and it is the only data of the line on its way.
LEMMA AskedData ==
    ASSUME Running, ~cfg.direct, NEW n \in Nodes, toCache[n] # <<>>, NEW m, m = Head(toCache[n]), m.t \in Ask,
           stack[n].llc[m.a].s # "I"
    PROVE  /\ m.t = "INV_REQ" => stack[n].llc[m.a].s # "M"
           /\ m.t # "INV_REQ" => /\ stack[n].llc[m.a].s # "u" /\ dir[m.a].owner = n
                                 /\ NoData(toDir[n], m.a)
<1> DEFINE q == toCache[n]
           a == m.a
           s == stack[n].llc[a].s
<1>1. /\ Types /\ Lines /\ EntryInv /\ DataInv /\ ChannelsOK /\ q \in Seq(ToCache) /\ None # n
  BY RunningFacts DEF ChannelsOK
<1>2. a \in Addrs /\ m \in ToCache
  BY <1>1, HeadOfChannel
<1>3. Tc(n, a)[1] = m.t /\ Moved(Tc(n, a), View(Tail(q), a)) /\ 1 \in Pos
  <2>1. Tc(n, a) = View(q, a) /\ KindOf(m) = m.t /\ 1 \in Pos
    BY DEF Tc, KindOf, Ask, Pos
  <2> HIDE DEF q, a
  <2>2. Moved(View(q, a), View(Tail(q), a)) /\ View(q, a)[1] = IF Head(q).a = a THEN KindOf(Head(q)) ELSE "none"
    BY <1>1, ViewOfTail DEF q
  <2> QED
    BY <2>1, <2>2 DEF a, q
<1>4. Line(n, a) /\ EntryOK(dir[a])
  BY <1>1, <1>2 DEF Lines, EntryInv
<1> HIDE DEF a
<1>5. AskInv(n, s, Tc(n, a), dir[a]) /\ KnownInv(n, s, Tc(n, a), Td(n, a), dir[a])
      /\ LineOK(n, s, Tc(n, a), Td(n, a), Qs(n, a), dir[a])
  BY <1>4 DEF Line, LineOK
<1>6. s # "I"
  BY DEF a
<1>7. m.t = "INV_REQ" => s # "M"
  <2> SUFFICES ASSUME m.t = "INV_REQ", s = "M" PROVE FALSE
    OBVIOUS
  <2>1. n \in dir[a].sharers
    BY <1>3, <1>5 DEF AskInv
  <2>2. dir[a].owner = n
    BY <1>5 DEF KnownInv
  <2> QED
    BY <1>1, <1>4, <2>1, <2>2 DEF EntryOK
<1>8. ASSUME m.t # "INV_REQ"
      PROVE  s \in {"E", "M"} /\ dir[a].owner = n
  <2>1. m.t \in {"FLUSH_REQ", "WB_REQ"}
    BY <1>8 DEF Ask
  <2>2. Tc(n, a)[1] \in Ask
    BY <1>3
  <2> DEFINE v == Tc(n, a)
             w == View(Tail(q), a)
             td == Td(n, a)
             qs == Qs(n, a)
             e == dir[a]
  <2>3. LineOK(n, s, v, td, qs, e) /\ s # "I" /\ v[1] \in Ask /\ Moved(v, w)
    BY <1>3, <1>5, <1>6, <2>2
  <2>4. v[1] = m.t
    BY <1>3
  <2> HIDE DEF v, w, td, qs, e, s
  <2>5. v[1] \in {"FLUSH_REQ", "WB_REQ"} => e.owner = n /\ s \in {"E", "M"}
    BY <2>3, AskFound
  <2> QED
    BY <2>1, <2>4, <2>5 DEF e
<1>9. ASSUME s \in {"E", "M"}
      PROVE  NoData(toDir[n], a)
  BY <1>1, <1>9, DataSent DEF NoData
<1> QED
  BY <1>7, <1>8, <1>9 DEF a

\* The network thread answers the directory.
LEMMA HandleReqReady ==
    ASSUME Running, NEW n \in Nodes, HandleReq(n)
    PROVE  DataInv'
<1> DEFINE m == Head(toCache[n])
           st == stack[n]
           a == m.a
           held == Valid(st.llc[a])
           st2 == CASE m.t = "INV_REQ" -> UpdateLLC(st, a, "I", FALSE)
                    [] m.t = "FLUSH_REQ" -> UpdateLLC(st, a, "I", TRUE)
                    [] m.t = "WB_REQ" -> IF st.llc[a].s = "u" THEN st
                                         ELSE UpdateLLC(st, a, "S", TRUE)
           data == /\ st.llc[a].s # "u"
                   /\ UpdatePrev(st, DOMAIN st.l1, a, "S", FALSE).llc[a].f
           rep == CASE m.t = "INV_REQ" -> Msg("INV_REP", a, FALSE, FALSE)
                    [] m.t = "FLUSH_REQ" -> Msg("FLUSH_REP", a, data, TRUE)
                    [] m.t = "WB_REQ" -> Msg("WB_REP", a, data, TRUE)
<1>1. /\ cfg \in Configs /\ StacksOK /\ ChannelsOK /\ ThreadsOK /\ NetInv /\ DataInv /\ DirectInv
      /\ st \in Stack(n) /\ None \notin Addrs /\ toDir \in [Nodes -> Seq(ToDir)] /\ toDir[n] \in Seq(ToDir)
  BY RunningFacts DEF StacksOK, ThreadInv, ChannelsOK
<1>2. /\ net[n].pc = "idle" /\ toCache[n] # <<>> /\ m.t \in Ask
      /\ toCache' = [toCache EXCEPT ![n] = Tail(@)] /\ UNCHANGED <<cfg, net, dir, dram>>
      /\ stack' = IF held THEN [stack EXCEPT ![n] = st2] ELSE stack
      /\ Send(n, IF held THEN <<rep>> ELSE <<>>)
  BY Zenon DEF HandleReq, Ask, dirVars
<1> HIDE DEF data, rep, st2
<1>3. m \in ToCache /\ a \in Addrs
  BY <1>1, <1>2, HeadOfChannel, Zenon
<1>4. net[n].a = None /\ ~cfg.direct
  BY <1>1, <1>2, Zenon DEF NetInv, DirectInv
<1>5. CASE ~held
  <2>1. stack' = stack /\ Send(n, <<>>)
    BY <1>2, <1>5
  <2>2. toDir'[n] = toDir[n] \o <<>> /\ \A l \in Nodes \ {n} : toDir'[l] = toDir[l]
    <3>1. <<>> \in Seq(ToDir)
      OBVIOUS
    <3> QED
      BY <1>1, <2>1, <3>1, SendFacts
  <2>3. toDir'[n] = toDir[n] /\ Longer(toDir[n], toDir[n])
    BY <1>1, <2>2 DEF Longer
  <2>4. NodeData(n, st, net[n].a) /\ Reports(n, toDir[n], dir) /\ Carried(toCache[n]) /\ toCache[n] \in Seq(ToCache)
    BY <1>1 DEF DataInv, ChannelsOK
  <2>5. Carried(Tail(toCache[n]))
    BY <1>2, <2>4, CarriedTail
  <2>6. toCache'[n] = Tail(toCache[n]) /\ \A l \in Nodes \ {n} : toCache'[l] = toCache[l]
    BY <1>1, <1>2 DEF ChannelsOK
  <2>7. \A x \in Addrs : dram[x] \/ st.llc[x].s = "M" \/ Elsewhere(n, x)
    BY <1>1, ReadyNow DEF Ready
  <2>8. /\ NodeData(n, stack'[n], net'[n].a) /\ Carried(toCache'[n]) /\ Reports(n, toDir'[n], dir)
        /\ Longer(toDir[n], toDir'[n])
        /\ \A x \in Addrs : dram'[x] \/ stack'[n].llc[x].s = "M" \/ Elsewhere(n, x)
    BY <1>2, <2>1, <2>3, <2>4, <2>5, <2>6, <2>7
  <2>9. \A l \in Nodes \ {n} : /\ stack'[l] = stack[l] /\ toDir'[l] = toDir[l]
                               /\ toCache'[l] = toCache[l] /\ net'[l].a = net[l].a
    BY <1>2, <2>1, <2>2, <2>6
  <2>10. UNCHANGED <<cfg, dir>>
    BY <1>2
  <2> QED
    BY <1>1, <2>8, <2>9, <2>10, NodeEnd
<1>6. CASE held
  <2>1. stack' = [stack EXCEPT ![n] = st2] /\ Send(n, <<rep>>) /\ st.llc[a].s # "I"
    BY <1>2, <1>6 DEF Valid
  <2>2. /\ m.t = "INV_REQ" => st.llc[a].s # "M"
        /\ m.t # "INV_REQ" => /\ st.llc[a].s # "u" /\ dir[a].owner = n
                              /\ NoData(toDir[n], a)
    <3>1. stack[n].llc[m.a].s # "I"
      BY <2>1
    <3>2. m = Head(toCache[n])
      OBVIOUS
    <3> HIDE DEF m
    <3>3. stack[n].llc[m.a].s # "I" /\ m.t \in Ask /\ toCache[n] # <<>> /\ ~cfg.direct
      BY <1>2, <1>4, <3>1
    <3>4. /\ m.t = "INV_REQ" => stack[n].llc[m.a].s # "M"
          /\ m.t # "INV_REQ" => /\ stack[n].llc[m.a].s # "u" /\ dir[m.a].owner = n
                                /\ NoData(toDir[n], m.a)
      BY <3>2, <3>3, AskedData, Zenon
    <3> QED
      BY <3>4
  <2>3. m.t # "INV_REQ" => data = TRUE
    <3> DEFINE f == UpdatePrev(st, DOMAIN st.l1, a, "S", FALSE).llc[a].f
    <3>1. Good(n, st, a) /\ DOMAIN st.l1 = CoresOf(n)
      BY <1>1, <1>3, StackFields DEF DataInv, NodeData, LineData
    <3>2. UpdatePrev(st, CoresOf(n), a, "S", FALSE).llc[a].f
      BY <1>1, <1>3, <2>1, <3>1, SharedGood
    <3>3. f
      BY <3>1, <3>2
    <3>4. f \in BOOLEAN
      <4> DEFINE u == UpdatePrev(st, CoresOf(n), a, "S", FALSE)
      <4>1. PrevUpdated(n, st, CoresOf(n), a, "S", FALSE, u)
        BY <1>1, <1>3, UpdatePrevFacts
      <4>2. f = u.llc[a].f
        BY <3>1
      <4> HIDE DEF u, f
      <4>3. u.llc[a].f \in BOOLEAN
        BY <1>3, <4>1, StackFields DEF PrevUpdated
      <4> QED
        BY <4>2, <4>3
    <3>5. data = ((st.llc[a].s # "u") /\ f)
      BY DEF data
    <3> HIDE DEF f
    <3> QED
      BY <2>2, <3>3, <3>4, <3>5, Zenon
  <2>4. PICK new \in {"I", "S"}, wants \in BOOLEAN :
           /\ st2 = UpdateLLC(st, a, new, wants) /\ (wants <=> m.t # "INV_REQ")
           /\ rep \in ToDir /\ rep.a = a /\ rep.d = wants
           /\ rep.d <=> rep.t \in {"FLUSH_REP", "WB_REP"}
           /\ wants => rep.f
    <3>1. CASE m.t = "INV_REQ"
      <4>1. rep = Msg("INV_REP", a, FALSE, FALSE) /\ st2 = UpdateLLC(st, a, "I", FALSE)
        BY <3>1 DEF rep, st2
      <4>2. /\ rep \in ToDir /\ rep.a = a /\ rep.d = FALSE
            /\ rep.d <=> rep.t \in {"FLUSH_REP", "WB_REP"}
        <5> HIDE DEF a, m
        <5> QED
          BY <1>3, <4>1 DEF Msg, ToDir, Message, MsgTypes, Requests, Gone, Wb
      <4> QED
        BY <3>1, <4>1, <4>2
    <3>2. CASE m.t = "FLUSH_REQ"
      <4>1. rep = Msg("FLUSH_REP", a, TRUE, TRUE) /\ st2 = UpdateLLC(st, a, "I", TRUE)
        BY <2>3, <3>2 DEF rep, st2
      <4>2. /\ rep \in ToDir /\ rep.a = a /\ rep.d = TRUE /\ rep.f
            /\ rep.d <=> rep.t \in {"FLUSH_REP", "WB_REP"}
        <5> HIDE DEF a, m
        <5> QED
          BY <1>3, <4>1 DEF Msg, ToDir, Message, MsgTypes, Requests, Gone, Wb
      <4> QED
        BY <3>2, <4>1, <4>2
    <3>3. CASE m.t = "WB_REQ"
      <4>1. rep = Msg("WB_REP", a, TRUE, TRUE) /\ st2 = UpdateLLC(st, a, "S", TRUE)
        BY <2>2, <2>3, <3>3 DEF rep, st2
      <4>2. /\ rep \in ToDir /\ rep.a = a /\ rep.d = TRUE /\ rep.f
            /\ rep.d <=> rep.t \in {"FLUSH_REP", "WB_REP"}
        <5> HIDE DEF a, m
        <5> QED
          BY <1>3, <4>1 DEF Msg, ToDir, Message, MsgTypes, Requests, Gone, Wb
      <4> QED
        BY <3>3, <4>1, <4>2
    <3> QED
      BY <1>2, <3>1, <3>2, <3>3 DEF Ask
  <2>5. stack' = [stack EXCEPT ![n] = UpdateLLC(stack[n], a, new, wants)]
    BY <2>1, <2>4
  <2>6. toDir' = [toDir EXCEPT ![n] = Append(@, rep)]
    <3>1. toDir[n] \o <<rep>> = Append(toDir[n], rep)
      BY <1>1, <2>4, SendOne
    <3>2. toDir' = [toDir EXCEPT ![n] = toDir[n] \o <<rep>>]
      BY <2>1 DEF Send
    <3> QED
      BY <3>1, <3>2
  <2>7. /\ wants => /\ rep.f /\ dir[a].owner = n
                    /\ NoData(toDir[n], a)
        /\ ~wants => stack[n].llc[a].s # "M"
        /\ rep.d <=> wants
    BY <2>2, <2>4
  <2>8. /\ toCache[n] # <<>> /\ net[n].a = None /\ a \in Addrs
        /\ toCache' = [toCache EXCEPT ![n] = Tail(@)] /\ UNCHANGED <<cfg, net, dir, dram>>
    BY <1>2, <1>3, <1>4
  <2> HIDE DEF a, m
  <2> QED
    BY <2>4, <2>5, <2>6, <2>7, <2>8, AnswerReady
<1> QED
  BY <1>5, <1>6

\* Every step of a network thread keeps the value written last.
LEMMA NetReady ==
    ASSUME Running, NEW n \in Nodes, NetStep(n), failed' = "no"
    PROVE  DataInv'
  BY HandleRepReady, ResumeReady, HandleReqReady DEF NetStep

-----------------------------------------------------------------------------
(* The directory's steps keep the data *)
LEMMA TailReports ==
    ASSUME NEW n, NEW q \in Seq(ToDir), q # <<>>, NEW D, Reports(n, q, D), NEW E,
           \A i \in DOMAIN q : i # 1 /\ q[i].d => E[q[i].a].owner = n
    PROVE  Reports(n, Tail(q), E)
<1> DEFINE p == Tail(q)
<1>1. ASSUME NEW i \in DOMAIN p
      PROVE  i \in Pos /\ i + 1 \in DOMAIN q /\ p[i] = q[i + 1] /\ i + 1 # 1
  <2>1. i \in Pos
    BY <1>1 DEF Pos
  <2>2. i + 1 \in DOMAIN q /\ p[i] = q[i + 1]
    BY <1>1, <2>1, PlacesOfTail
  <2> QED
    BY <2>1, <2>2 DEF Pos
<1> HIDE DEF p
<1>2. ASSUME NEW i \in DOMAIN p
      PROVE  p[i].d <=> p[i].t \in {"FLUSH_REP", "WB_REP"}
  BY <1>1 DEF Reports
<1>3. ASSUME NEW i \in DOMAIN p, p[i].d
      PROVE  p[i].f /\ E[p[i].a].owner = n
  BY <1>1, <1>3 DEF Reports
<1>4. ASSUME NEW i \in DOMAIN p, p[i].d, NEW j \in DOMAIN p, p[j].d, p[j].a = p[i].a
      PROVE  j = i
  <2>1. j + 1 = i + 1
    BY <1>1, <1>4 DEF Reports
  <2> QED
    BY <1>1, <2>1 DEF Pos
<1> QED
  BY <1>2, <1>3, <1>4 DEF Reports, p

\* The directory forgets an owner only with the last data that comes from it.
LEMMA ReceivedOwner ==
    ASSUME Running, ~cfg.direct, NEW n \in Nodes, DirReceive(n), NEW k \in Nodes, NEW j \in DOMAIN toDir[k],
           k = n => j # 1, toDir[k][j].d
    PROVE  dir'[toDir[k][j].a].owner = k
<1> DEFINE m == Head(toDir[n])
           a == m.a
           x == toDir[k][j].a
<1>1. /\ Types /\ Lines /\ EntryInv /\ DataInv /\ ChannelsOK /\ toDir[n] \in Seq(ToDir) /\ None \notin Nodes
  BY RunningFacts DEF ChannelsOK
<1>2. /\ toDir[n] # <<>> /\ \A y \in Addrs \ {a} : dir'[y] = dir[y]
      /\ Received(n, m, dir[a], dir'[a])
  BY <1>1, ReceivedFacts
<1>3. m \in ToDir /\ a \in Addrs /\ m.t \in Requests \cup Gone \cup Wb
  BY <1>1, <1>2, HeadOfReports
<1>4. x \in Addrs /\ dir[x].owner = k
  BY <1>1, DataSent
<1>5. CASE x # a
  BY <1>2, <1>4, <1>5
<1>6. CASE x = a /\ m.t \in Requests
  <2>1. dir'[a] = [dir[a] EXCEPT !.q = Append(@, [t |-> m.t, n |-> n])]
    BY <1>2, <1>6 DEF Received
  <2>2. dir[a] \in Entry
    BY <1>1, <1>3 DEF ChannelsOK
  <2>3. dir'[a].owner = dir[a].owner
    BY <2>1, <2>2 DEF Entry
  <2> QED
    BY <1>4, <1>6, <2>3
<1>7. CASE x = a /\ m.t \in Gone \cup Wb
  <2>1. dir'[a].owner = IF dir[a].owner = n THEN None ELSE dir[a].owner
    BY <1>2, <1>7 DEF Received
  <2>2. CASE k # n
    BY <1>4, <1>7, <2>1, <2>2
  <2>3. CASE k = n
    <3> SUFFICES FALSE
      OBVIOUS
    <3>1. j # 1 /\ j \in DOMAIN toDir[n] /\ toDir[n][j].d /\ toDir[n][j].a = a
      BY <1>7, <2>3
    <3>2. 1 \in DOMAIN toDir[n] /\ toDir[n][1] = m
      <4>1. 1 \in Pos
        BY DEF Pos
      <4> QED
        BY <1>1, <1>2, <4>1, PlacesOfTail
    <3>3. ~m.d
      BY <1>1, <3>1, <3>2 DEF DataInv, Reports
    <3>4. /\ m.d <=> m.t \in {"FLUSH_REP", "WB_REP"}
          /\ toDir[n][j].t \in {"FLUSH_REP", "WB_REP"}
      BY <1>1, <3>1, <3>2 DEF DataInv, Reports
    <3>5. m.t \in Gone
      BY <1>7, <3>3, <3>4 DEF Gone, Wb
    <3>6. Td(n, a)[1] = m.t /\ Td(n, a)[j] = toDir[n][j].t /\ 1 \in Pos /\ j \in Pos
      BY <1>1, <3>1, <3>2, MessagesSeen
    <3>7. OnceInv(Td(n, a))
      BY <1>1, <1>3 DEF Lines, Line, LineOK
    <3>8. Td(n, a)[j] \in Gone \cup Wb
      BY <3>4, <3>6 DEF Gone, Wb
    <3> DEFINE v == Td(n, a)
    <3> HIDE DEF v
    <3>9. v[1] \in Gone /\ v[j] \in Gone \cup Wb /\ OnceInv(v)
      BY <3>5, <3>6, <3>7, <3>8 DEF v
    <3>10. j < 1
      BY <3>1, <3>6, <3>9 DEF OnceInv
    <3> QED
      BY <3>6, <3>10 DEF Pos
  <2> QED
    BY <2>2, <2>3
<1> QED
  BY <1>3, <1>5, <1>6, <1>7

\* Data that is not taken is still on its way.
LEMMA TailInFlight ==
    ASSUME ChannelsOK, NEW n \in Nodes, toDir[n] # <<>>, toDir'[n] = Tail(toDir[n]),
           \A k \in Nodes \ {n} : toDir'[k] = toDir[k], NEW x, InFlight(x, toDir),
           ~(Head(toDir[n]).a = x /\ Head(toDir[n]).d)
    PROVE  InFlight(x, toDir')
<1>0. PICK k \in Nodes : \E i \in DOMAIN toDir[k] : toDir[k][i].a = x /\ toDir[k][i].d
  BY DEF InFlight
<1>1. PICK i \in DOMAIN toDir[k] : toDir[k][i].a = x /\ toDir[k][i].d
  BY <1>0
<1>2. CASE k # n
  <2>1. toDir'[k] = toDir[k]
    BY <1>2
  <2> QED
    BY <1>1, <2>1 DEF InFlight
<1>3. CASE k = n
  <2> DEFINE q == toDir[n]
  <2>1. q \in Seq(ToDir) /\ q # <<>> /\ i \in DOMAIN q /\ q[i].a = x /\ q[i].d
    BY <1>1, <1>3 DEF ChannelsOK
  <2>2. ~(Head(q).a = x /\ Head(q).d) /\ toDir'[n] = Tail(q)
    OBVIOUS
  <2> HIDE DEF q
  <2>3. i \in Nat /\ i # 0 /\ Len(q) \in Nat /\ i <= Len(q)
    BY <2>1
  <2>4. i # 1
    BY <2>1, <2>2
  <2>5. i - 1 \in DOMAIN Tail(q) /\ Tail(q)[i - 1] = q[i]
    BY <2>1, <2>3, <2>4
  <2> QED
    BY <2>1, <2>2, <2>5 DEF InFlight
<1> QED
  BY <1>2, <1>3

\* The directory takes a message: the data of a line that was dirty goes to DRAM.
LEMMA DirReceiveReady ==
    ASSUME Running, NEW n \in Nodes, DirReceive(n)
    PROVE  DataInv'
<1> DEFINE m == Head(toDir[n])
           a == m.a
<1>1. /\ Types /\ DataInv /\ ChannelsOK /\ DirectInv /\ toDir[n] \in Seq(ToDir)
      /\ dram \in [Addrs -> BOOLEAN]
  BY RunningFacts DEF ChannelsOK
<1>2. /\ toDir[n] # <<>> /\ toDir'[n] = Tail(toDir[n]) /\ \A k \in Nodes \ {n} : toDir'[k] = toDir[k]
      /\ UNCHANGED <<stack, toCache>>
  BY <1>1, ReceivedFacts
<1>3. ~cfg.direct
  BY <1>1, <1>2 DEF DirectInv
<1>4. m \in ToDir /\ a \in Addrs
  BY <1>1, <1>2, HeadOfReports, Zenon
<1>5. dram' = (IF m.d THEN [dram EXCEPT ![m.a] = m.f] ELSE dram) /\ cfg' = cfg /\ net' = net
  BY Zenon DEF DirReceive, cacheVars
<1>6. 1 \in DOMAIN toDir[n] /\ toDir[n][1] = m
  <2>1. 1 \in Pos
    BY DEF Pos
  <2> QED
    BY <1>1, <1>2, <2>1, PlacesOfTail
<1>7. m.d => m.f
  BY <1>1, <1>6 DEF DataInv, Reports
<1>8. ASSUME NEW k \in Nodes
      PROVE  /\ NodeData(k, stack'[k], net'[k].a)
             /\ Carried(toCache'[k]) /\ Reports(k, toDir'[k], dir')
  <2>1. NodeData(k, stack[k], net[k].a) /\ Carried(toCache[k]) /\ Reports(k, toDir[k], dir)
    BY <1>1 DEF DataInv
  <2>2. \A i \in DOMAIN toDir[k] : (k = n => i # 1) /\ toDir[k][i].d => dir'[toDir[k][i].a].owner = k
    BY <1>3, ReceivedOwner
  <2>3. Reports(k, toDir'[k], dir')
    <3>1. CASE k = n
      <4> DEFINE q == toDir[n]
      <4>1. q \in Seq(ToDir) /\ q # <<>> /\ Reports(n, q, dir) /\ toDir'[n] = Tail(q)
        BY <1>1, <1>2, <2>1, <3>1
      <4>2. \A i \in DOMAIN q : i # 1 /\ q[i].d => dir'[q[i].a].owner = n
        BY <2>2, <3>1
      <4> HIDE DEF q
      <4>3. Reports(n, Tail(q), dir')
        BY <4>1, <4>2, TailReports
      <4> QED
        BY <3>1, <4>1, <4>3
    <3>2. CASE k # n
      <4>1. toDir'[k] = toDir[k]
        BY <1>2, <3>2
      <4>2. \A i \in DOMAIN toDir[k] : toDir[k][i].d => dir'[toDir[k][i].a].owner = k
        BY <2>2, <3>2
      <4> QED
        BY <2>1, <4>1, <4>2 DEF Reports
    <3> QED
      BY <3>1, <3>2
  <2> QED
    BY <1>2, <1>5, <2>1, <2>3
<1>9. ASSUME NEW x \in Addrs
      PROVE  dram'[x] \/ (\E k \in Nodes : stack'[k].llc[x].s = "M") \/ InFlight(x, toDir')
  <2>1. dram[x] \/ (\E k \in Nodes : stack[k].llc[x].s = "M") \/ InFlight(x, toDir)
    BY <1>1 DEF DataInv
  <2>2. m.a = x /\ m.d => dram'[x]
    BY <1>1, <1>5, <1>7
  <2>3. ~(m.a = x /\ m.d) => dram'[x] = dram[x]
    BY <1>1, <1>5
  <2>4. ~(m.a = x /\ m.d) /\ InFlight(x, toDir) => InFlight(x, toDir')
    BY <1>1, <1>2, TailInFlight
  <2> QED
    BY <1>2, <2>1, <2>2, <2>3, <2>4
<1> QED
  BY <1>5, <1>8, <1>9, DataNext

LEMMA CarriedAppend ==
    ASSUME NEW q \in Seq(ToCache), NEW g \in ToCache, Carried(q), g.t \in {"SH_REP", "EX_REP"} => g.f
    PROVE  Carried(Append(q, g))
<1> DEFINE p == Append(q, g)
<1>1. \A i \in DOMAIN p : (i \in DOMAIN q /\ p[i] = q[i]) \/ p[i] = g
  OBVIOUS
<1> HIDE DEF p
<1>2. Carried(p)
  BY <1>1 DEF Carried
<1> QED
  BY <1>2 DEF p

\* A step that only sends messages to the caches and works on the entries.
LEMMA SentReady ==
    ASSUME DataInv, UNCHANGED <<cfg, stack, net, toDir, dram>>, \A n \in Nodes : Carried(toCache'[n]),
           \A n \in Nodes : \A i \in DOMAIN toDir[n] :
              toDir[n][i].d /\ dir[toDir[n][i].a].owner = n => dir'[toDir[n][i].a].owner = n
    PROVE  DataInv'
<1>1. ASSUME NEW n \in Nodes
      PROVE  /\ NodeData(n, stack'[n], net'[n].a)
             /\ Carried(toCache'[n]) /\ Reports(n, toDir'[n], dir')
  <2>1. NodeData(n, stack[n], net[n].a) /\ Reports(n, toDir[n], dir)
    BY DEF DataInv
  <2>2. Reports(n, toDir[n], dir')
    BY <2>1 DEF Reports
  <2> QED
    BY <2>1, <2>2
<1>2. ASSUME NEW x \in Addrs
      PROVE  dram'[x] \/ (\E n \in Nodes : stack'[n].llc[x].s = "M") \/ InFlight(x, toDir')
  BY DEF DataInv
<1> QED
  BY <1>1, <1>2, DataNext

\* The directory asks for copies.
LEMMA DirAskReady ==
    ASSUME Running, NEW a \in Addrs, DirAsk(a)
    PROVE  DataInv'
<1>1. Types /\ DataInv /\ ChannelsOK
  BY RunningFacts
<1>2. /\ UNCHANGED <<stack, toDir>> /\ AskedOf(a) \subseteq Nodes
      /\ \A x \in Addrs \ {a} : dir'[x] = dir[x]
      /\ dir'[a].owner = dir[a].owner
      /\ \A k \in Nodes \ AskedOf(a) : toCache'[k] = toCache[k]
      /\ \A k \in AskedOf(a) : \E t \in Ask : toCache'[k] = Append(toCache[k], Msg(t, a, FALSE, FALSE))
  BY <1>1, AskedFacts
<1>3. UNCHANGED <<cfg, net, dram>>
  BY DEF DirAsk, cacheVars
<1>4. ASSUME NEW k \in Nodes
      PROVE  Carried(toCache'[k])
  <2>1. Carried(toCache[k]) /\ toCache[k] \in Seq(ToCache)
    BY <1>1 DEF DataInv, ChannelsOK
  <2>2. CASE k \notin AskedOf(a)
    BY <1>2, <2>1, <2>2
  <2>3. CASE k \in AskedOf(a)
    <3>1. PICK t \in Ask : toCache'[k] = Append(toCache[k], Msg(t, a, FALSE, FALSE))
      BY <1>2, <2>3
    <3> DEFINE g == Msg(t, a, FALSE, FALSE)
    <3>2. g \in ToCache /\ g.t \notin {"SH_REP", "EX_REP"}
      BY DEF Msg, ToCache, Message, MsgTypes, Ask
    <3> HIDE DEF g
    <3>3. Carried(Append(toCache[k], g))
      BY <2>1, <3>2, CarriedAppend
    <3> QED
      BY <3>1, <3>3 DEF g
  <2> QED
    BY <2>2, <2>3
<1>5. ASSUME NEW k \in Nodes, NEW i \in DOMAIN toDir[k], dir[toDir[k][i].a].owner = k
      PROVE  dir'[toDir[k][i].a].owner = k
  <2>1. toDir[k][i].a \in Addrs
    BY <1>1, MessagesSeen
  <2> QED
    BY <1>2, <1>5, <2>1
<1> QED
  BY <1>1, <1>2, <1>3, <1>4, <1>5, SentReady

\* The value of a line that nobody owns is in DRAM.
LEMMA DramSharp ==
    ASSUME Running, ~cfg.direct, NEW a \in Addrs, dir[a].owner = None
    PROVE  dram[a]
<1>1. Types /\ Lines /\ DataInv /\ None \notin Nodes
  BY RunningFacts
<1>2. ASSUME NEW n \in Nodes, stack[n].llc[a].s = "M"
      PROVE  FALSE
  BY <1>1, <1>2 DEF Lines, Line, LineOK, KnownInv
<1>3. ASSUME NEW n \in Nodes, NEW i \in DOMAIN toDir[n], toDir[n][i].a = a, toDir[n][i].d
      PROVE  FALSE
  BY <1>1, <1>3 DEF DataInv, Reports
<1> QED
  BY <1>1, <1>2, <1>3 DEF DataInv, InFlight

\* The reply to a reader or a writer without the line comes from DRAM.
LEMMA ReplyData ==
    ASSUME ChannelsOK, NEW a \in Addrs, DirReply(a)
    PROVE  LET r == Head(dir[a].q) IN
           \E g \in ToCache : /\ toCache' = [toCache EXCEPT ![r.n] = Append(@, g)]
                              /\ g.t \in {"SH_REP", "EX_REP"} => r.t \in Fetch /\ g.f = dram[a]
<1> DEFINE e == dir[a]
           r == Head(e.q)
           own == [e EXCEPT !.owner = r.n, !.sharers = {}, !.q = Tail(@), !.asked = {}]
           share == [e EXCEPT !.sharers = @ \cup {r.n}, !.q = Tail(@), !.asked = {}]
           m(t, d) == Msg(t, a, d /\ dram[a], d)
           to(g) == toCache' = [toCache EXCEPT ![r.n] = Append(@, g)]
<1>1. ASSUME NEW t \in Rep, NEW d \in BOOLEAN
      PROVE  m(t, d) \in ToCache /\ m(t, d).t = t /\ m(t, d).f = (d /\ dram[a])
  <2>1. dram[a] \in BOOLEAN
    BY Zenon DEF ChannelsOK
  <2> HIDE DEF r
  <2> QED
    BY <1>1, <2>1 DEF Msg, ToCache, Message, MsgTypes, Rep
<1>2. \/ r.t = "SH_REQ" /\ to(m("SH_REP", TRUE))
      \/ r.t = "SH_REQ" /\ to(m("EX_REP", TRUE))
      \/ r.t = "EX_REQ" /\ to(m("EX_REP", TRUE))
      \/ r.t = "UPGRADE_REQ" /\ to(m("UPGRADE_REP", r.n \notin e.sharers))
  BY Zenon DEF DirReply
<1>3. dram[a] \in BOOLEAN /\ (r.n \notin e.sharers) \in BOOLEAN
  BY DEF ChannelsOK
<1> DEFINE s == m("SH_REP", TRUE)
           x == m("EX_REP", TRUE)
           u == m("UPGRADE_REP", r.n \notin e.sharers)
<1>4. /\ s \in ToCache /\ s.t = "SH_REP" /\ s.f = dram[a]
      /\ x \in ToCache /\ x.t = "EX_REP" /\ x.f = dram[a]
      /\ u \in ToCache /\ u.t = "UPGRADE_REP"
  BY <1>1, <1>3, Zenon DEF Rep
<1>5. \/ r.t = "SH_REQ" /\ to(s)
      \/ r.t = "SH_REQ" /\ to(x)
      \/ r.t = "EX_REQ" /\ to(x)
      \/ r.t = "UPGRADE_REQ" /\ to(u)
  BY <1>2, Zenon
<1> HIDE DEF s, x, u, m, r
<1> QED
  BY <1>4, <1>5, Zenon DEF Fetch, r

\* The directory answers a request.
LEMMA DirReplyReady ==
    ASSUME Running, NEW a \in Addrs, DirReply(a)
    PROVE  DataInv'
<1> DEFINE e == dir[a]
           r == Head(e.q)
<1>1. Types /\ DataInv /\ ChannelsOK /\ DirectInv /\ None \notin Nodes
  BY RunningFacts
<1>2. /\ e.q # <<>> /\ Targets(e, r) = {} /\ r.t \in Requests /\ r.n \in Nodes
      /\ UNCHANGED <<stack, toDir>> /\ \A x \in Addrs \ {a} : dir'[x] = dir[x]
      /\ \A k \in Nodes \ {r.n} : toCache'[k] = toCache[k]
      /\ \E g \in ToCache : Granting(r, e, dir'[a], g)
  BY <1>1, GrantFacts, Zenon
<1>3. UNCHANGED <<cfg, net, dram>>
  BY Zenon DEF DirReply, cacheVars
<1>4. ~cfg.direct
  BY <1>1, <1>2 DEF DirectInv
<1>5. EntryOK(e) /\ e \in Entry
  BY <1>1, <1>4, RunningFacts DEF EntryInv, ChannelsOK
<1>6. PICK h \in ToCache : Granting(r, e, dir'[a], h)
  BY <1>2
<1>7. PICK g \in ToCache : /\ toCache' = [toCache EXCEPT ![r.n] = Append(@, g)]
                           /\ g.t \in {"SH_REP", "EX_REP"} => r.t \in Fetch /\ g.f = dram[a]
  BY <1>1, ReplyData
<1> DEFINE f == dir'[a]
<1>8. r = Head(e.q)
  OBVIOUS
<1> HIDE DEF e, r, f
<1>9. /\ r.t \in Fetch => e.owner = None
      /\ \A k \in Nodes \ {r.n} : SameEntry(k, e, f)
  BY <1>1, <1>2, <1>5, <1>6, <1>8, GrantTargets DEF f
<1>10. g.t \in {"SH_REP", "EX_REP"} => g.f
  BY <1>4, <1>7, <1>9, DramSharp DEF e
<1>11. ASSUME NEW k \in Nodes
       PROVE  Carried(toCache'[k])
  <2>1. Carried(toCache[k]) /\ toCache[k] \in Seq(ToCache) /\ DOMAIN toCache = Nodes
    BY <1>1 DEF DataInv, ChannelsOK
  <2>2. CASE k # r.n
    BY <1>2, <2>1, <2>2
  <2>3. CASE k = r.n
    <3>1. toCache'[k] = Append(toCache[k], g)
      BY <1>7, <2>1, <2>3
    <3>2. Carried(Append(toCache[k], g))
      BY <1>10, <2>1, CarriedAppend
    <3> QED
      BY <3>1, <3>2
  <2> QED
    BY <2>2, <2>3
<1>12. ASSUME NEW k \in Nodes, e.owner = k
       PROVE  f.owner = k
  <2>1. CASE k # r.n
    BY <1>9, <1>12, <2>1 DEF SameEntry
  <2>2. CASE k = r.n
    <3>1. r.t \in Raise
      BY <1>1, <1>2, <1>9, <1>12 DEF Requests, Fetch, Raise
    <3> QED
      BY <1>6, <2>2, <3>1 DEF Granting, f
  <2> QED
    BY <2>1, <2>2
<1>13. ASSUME NEW k \in Nodes, NEW i \in DOMAIN toDir[k], dir[toDir[k][i].a].owner = k
       PROVE  dir'[toDir[k][i].a].owner = k
  <2>1. toDir[k][i].a \in Addrs
    BY <1>1, MessagesSeen
  <2> QED
    BY <1>2, <1>12, <1>13, <2>1 DEF e, f
<1> QED
  BY <1>1, <1>2, <1>3, <1>11, <1>13, SentReady

LatestInv == FailInv /\ (failed = "no" => DataInv)

LEMMA LatestInit == Init => LatestInv
<1> SUFFICES ASSUME Init PROVE LatestInv
  OBVIOUS
<1> DEFINE up(n) == [c \in CoresOf(n) |-> [a \in Addrs |-> NoCell]]
           llc == [a \in Addrs |-> NoCell]
<1>1. stack = [n \in Nodes |-> [l1 |-> up(n), llc |-> llc, err |-> "no"]]
  BY DEF Init
<1>2. /\ \A n \in Nodes : toDir[n] = <<>> /\ toCache[n] = <<>>
      /\ \A x \in Addrs : dram[x]
  BY DEF Init
<1>3. ASSUME NEW n \in Nodes
      PROVE  NodeData(n, stack[n], net[n].a)
  <2>0. NoCell.s = "I"
    BY DEF NoCell
  <2>1. ASSUME NEW x \in Addrs
        PROVE  stack[n].llc[x].s = "I" /\ \A d \in CoresOf(n) : stack[n].l1[d][x].s = "I"
    <3>1. stack[n].llc = llc /\ stack[n].l1 = up(n)
      <4> HIDE DEF llc, up
      <4> QED
        BY <1>1
    <3>2. stack[n].llc[x].s = "I"
      BY <2>0, <3>1
    <3>4. ASSUME NEW d \in CoresOf(n)
          PROVE  stack[n].l1[d][x].s = "I"
      <4>1. up(n)[d] = [a \in Addrs |-> NoCell]
        OBVIOUS
      <4>2. stack[n].l1[d] = [a \in Addrs |-> NoCell]
        BY <3>1, <4>1
      <4> QED
        BY <2>0, <4>2
    <3> QED
      BY <3>2, <3>4
  <2> QED
    BY <2>1 DEF NodeData, LineData, Good, Sharp
<1>4. ASSUME NEW n \in Nodes
      PROVE  Carried(toCache[n]) /\ Reports(n, toDir[n], dir)
  BY <1>2 DEF Carried, Reports
<1> QED
  BY <1>2, <1>3, <1>4, FailInit DEF LatestInv, DataInv

\* Nothing of what holds the data changes.
LEMMA StutterReady ==
    ASSUME DataInv, UNCHANGED vars
    PROVE  DataInv'
<1>1. UNCHANGED <<cfg, stack, net, toDir, toCache, dir, dram>>
  BY DEF vars, cacheVars, dirVars
<1>2. ASSUME NEW n \in Nodes
      PROVE  /\ NodeData(n, stack'[n], net'[n].a)
             /\ Carried(toCache'[n]) /\ Reports(n, toDir'[n], dir')
  BY <1>1 DEF DataInv
<1>3. ASSUME NEW x \in Addrs
      PROVE  dram'[x] \/ (\E n \in Nodes : stack'[n].llc[x].s = "M") \/ InFlight(x, toDir')
  BY <1>1 DEF DataInv
<1> QED
  BY <1>1, <1>2, <1>3, DataNext

LEMMA LatestNext ==
    ASSUME LatestInv, [Next]_vars
    PROVE  LatestInv'
<1>1. FailInv'
  BY FailNext DEF LatestInv
<1>2. ASSUME failed' = "no"
      PROVE  DataInv'
  <2>1. CASE UNCHANGED vars
    <3>1. failed = "no"
      BY <1>2, <2>1 DEF vars
    <3> QED
      BY <2>1, <3>1, StutterReady DEF LatestInv
  <2>2. CASE Next
    <3>1. Running
      BY <2>2 DEF Next, LatestInv, Running
    <3>2. ASSUME NEW c \in Cores, UserStep(c)
          PROVE  DataInv'
      BY <1>2, <3>1, <3>2, UserReady
    <3>3. ASSUME NEW n \in Nodes, NetStep(n)
          PROVE  DataInv'
      BY <1>2, <3>1, <3>3, NetReady
    <3>4. ASSUME DirStep
          PROVE  DataInv'
      BY <3>1, <3>4, DirReceiveReady, DirAskReady, DirReplyReady DEF DirStep
    <3> QED
      BY <2>2, <3>2, <3>3, <3>4 DEF Next
  <2> QED
    BY <2>1, <2>2
<1>3. LatestInv' <=> FailInv' /\ (failed' = "no" => DataInv')
  BY DEF LatestInv
<1> QED
  BY <1>1, <1>2, <1>3

LEMMA LatestSeen ==
    ASSUME LatestInv
    PROVE  LatestKept
<1> SUFFICES ASSUME failed = "no", NEW a \in Addrs
             PROVE  /\ \A n \in Nodes :
                          LET dirty == {c \in CoresOf(n) : stack[n].l1[c][a].s = "M"}
                          IN /\ (~cfg.wt => \A c \in dirty : stack[n].l1[c][a].f)
                             /\ Valid(stack[n].llc[a]) /\ (dirty = {} \/ cfg.wt) => stack[n].llc[a].f
                    /\ \/ dram[a]
                       \/ \E n \in Nodes : stack[n].llc[a].s = "M"
                       \/ \E n \in Nodes : \E i \in 1 .. Len(toDir[n]) :
                             toDir[n][i].a = a /\ toDir[n][i].d /\ toDir[n][i].f
  BY DEF LatestKept
<1>1. DataInv /\ ChannelsOK
  BY DEF LatestInv, FailInv, CoherenceInv, OneInv, CacheInv, TypeInv, Types
<1>2. ASSUME NEW n \in Nodes
      PROVE  LET dirty == {c \in CoresOf(n) : stack[n].l1[c][a].s = "M"}
             IN /\ (~cfg.wt => \A c \in dirty : stack[n].l1[c][a].f)
                /\ Valid(stack[n].llc[a]) /\ (dirty = {} \/ cfg.wt) => stack[n].llc[a].f
  <2>1. Good(n, stack[n], a)
    BY <1>1 DEF DataInv, NodeData, LineData
  <2> QED
    BY <2>1 DEF Good, Clean, Valid
<1>3. ASSUME InFlight(a, toDir)
      PROVE  \E n \in Nodes : \E i \in 1 .. Len(toDir[n]) :
                toDir[n][i].a = a /\ toDir[n][i].d /\ toDir[n][i].f
  <2>1. PICK n \in Nodes : \E i \in DOMAIN toDir[n] : toDir[n][i].a = a /\ toDir[n][i].d
    BY <1>3 DEF InFlight
  <2>2. PICK i \in DOMAIN toDir[n] : toDir[n][i].a = a /\ toDir[n][i].d
    BY <2>1
  <2>3. toDir[n][i].f
    BY <1>1, <2>2 DEF DataInv, Reports
  <2>4. i \in 1 .. Len(toDir[n])
    BY <1>1, <2>2 DEF ChannelsOK
  <2> QED
    BY <2>2, <2>3, <2>4
<1> QED
  BY <1>1, <1>2, <1>3 DEF DataInv

\* The value written last is never lost as long as no assertion fails: a dirty
\* L1 copy has it, the LLC's copy has it unless an L1 is dirty above it
\* (writebacks and flushes of updateCacheBlock, retrieveCacheBlock and
\* writeCacheBlock), and DRAM has it unless an LLC is MODIFIED or a message
\* brings it (the FLUSH_REPs and WB_REPs that processInvReqFromDramDirectory,
\* processFlushReqFromDramDirectory, processWbReqFromDramDirectory and
\* insertCacheBlock send), whatever the threads and evictions do meanwhile.
THEOREM CacheLatestKept == Spec => []LatestKept
<1> QED
  BY LatestSeen, LatestInit, LatestNext, PTL DEF Spec
=============================================================================
