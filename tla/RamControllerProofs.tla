------------------------- MODULE RamControllerProofs -------------------------
(***************************************************************************)
(* Proofs about the channel controller, for every number of banks, every   *)
(* set of addresses, queue size, read latency and number of requests.      *)
(***************************************************************************)
EXTENDS RamController, ProofLemmas

(***************************************************************************)
(* Sequences and the scheduler's choice                                    *)
(***************************************************************************)

LEMMA FirstIsIn ==
  ASSUME NEW S, S \subseteq Nat, S # {}
  PROVE  First(S) \in S /\ \A j \in S : First(S) <= j
<1> DEFINE R == {ss \in Nat \X Nat : ss[1] < ss[2]}
<1>1. IsWellFoundedOn(R, Nat)
  <2>1. OpToRel(<, Nat) = R
    BY Zenon DEF OpToRel
  <2>2. QED
    BY <2>1, NatLessThanWellFounded, Zenon
<1>2. PICK x \in S : \A y \in S : ~(<<y, x>> \in R)
  <2> HIDE DEF R
  <2>1. QED
    BY <1>1, WFMin, Zenon
<1>3. \A y \in S : x <= y
  <2> SUFFICES ASSUME NEW y \in S, ~(x <= y) PROVE FALSE
    OBVIOUS
  <2>1. <<y, x>> \in Nat \X Nat /\ y < x
    OBVIOUS
  <2>2. <<y, x>> \in R
    BY <2>1
  <2>3. QED
    BY <1>2, <2>2
<1>4. QED
  BY <1>3 DEF First

LEMMA AppendKeeps ==
  ASSUME NEW S, NEW q \in Seq(S), NEW e, NEW i \in DOMAIN q
  PROVE  i \in DOMAIN Append(q, e) /\ Append(q, e)[i] = q[i]
<1>1. i \in 1 .. Len(q) /\ Len(q) \in Nat /\ Len(Append(q, e)) = Len(q) + 1
  OBVIOUS
<1>2. DOMAIN Append(q, e) = 1 .. Len(q) + 1
  OBVIOUS
<1>3. QED
  BY <1>1, <1>2

\* A queue that was left alone, or got a new request at its end, keeps its requests.
LEMMA GrownKeeps ==
  ASSUME NEW S, NEW q \in Seq(S), NEW e, NEW p, p = q \/ p = Append(q, e)
  PROVE  \A i \in DOMAIN q : i \in DOMAIN p /\ p[i] = q[i]
<1>1. CASE p = q
  BY <1>1
<1>2. CASE p = Append(q, e)
  <2> TAKE i \in DOMAIN q
  <2>1. i \in DOMAIN Append(q, e) /\ Append(q, e)[i] = q[i]
    BY AppendKeeps
  <2>2. QED
    BY <1>2, <2>1
<1>3. QED
  BY <1>1, <1>2

\* Dropping the i-th element keeps the others, in their order.
LEMMA WithoutProperties ==
  ASSUME NEW S, NEW q \in Seq(S), NEW i \in DOMAIN q
  PROVE  /\ Without(q, i) \in Seq(S)
         /\ Len(Without(q, i)) = Len(q) - 1
         /\ \A k \in 1 .. Len(q) - 1 :
               Without(q, i)[k] = IF k < i THEN q[k] ELSE q[k + 1]
<1>1. Without(q, i) = Removed(q, i)
  BY DEF Without, Removed
<1> QED
  BY <1>1, RemovedProperties

\* get_head returns an index of the queue or 0, and what it returns would not close
\* a row that another request of the queue hits.
LEMMA HeadProperties ==
  ASSUME NEW S, NEW q \in Seq(S), NEW rdy, get_head(q, rdy) # 0
  PROVE  /\ get_head(q, rdy) \in DOMAIN q
         /\ ~violate_hit(q, get_head(q, rdy))
<1> DEFINE ready == {i \in DOMAIN q : is_ready(q[i], rdy)}
           hits  == {i \in ready : is_row_hit(q[i])}
           kind  == {i \in ready : ~violate_hit(q, i)}
<1>1. hits \subseteq Nat /\ kind \subseteq Nat
  OBVIOUS
<1>2. get_head(q, rdy) = IF hits # {} THEN First(hits) ELSE First(kind)
  BY DEF get_head
<1>3. CASE hits # {}
  <2>1. First(hits) \in hits
    BY <1>1, <1>3, FirstIsIn
  <2>2. QED
    BY <2>1, <1>2, <1>3 DEF violate_hit
<1>4. CASE hits = {}
  <2>1. kind # {}
    BY <1>2, <1>4 DEF First
  <2>2. First(kind) \in kind
    BY <1>1, <2>1, FirstIsIn
  <2>3. QED
    BY <2>2, <1>2, <1>4
<1>5. QED
  BY <1>3, <1>4

LEMMA RequestFields ==
  ASSUME NEW t \in {"RD", "WR"}, NEW r \in Request(t)
  PROVE  /\ r.addr \in Addr /\ r.addr.bank \in Bank /\ r.addr.row \in Row
         /\ r.type = t /\ r.counted \in 0 .. 2 /\ r.no \in 0 .. NReq
<1>1. /\ r.addr \in Addr /\ r.type = t /\ r.counted \in 0 .. 2 /\ r.no \in 0 .. NReq
  BY DEF Request
<1>2. r.addr \in [bank : Bank, row : Row, col : Col]
  BY <1>1, RamAssumption
<1>3. QED
  BY <1>1, <1>2

\* A command for the i-th request removes that request or counts it, and leaves the
\* addresses and the order of arrival of the others alone.
LEMMA ScheduledProperties ==
  ASSUME NEW t \in {"RD", "WR"}, NEW q \in Seq(Request(t)), NEW i \in DOMAIN q
  PROVE  /\ Scheduled(q, i) \in Seq(Request(t))
         /\ Len(Scheduled(q, i)) <= Len(q)
         /\ \A k \in DOMAIN Scheduled(q, i) : \E j \in DOMAIN q :
               Scheduled(q, i)[k].addr = q[j].addr /\ Scheduled(q, i)[k].no = q[j].no
         /\ \A j \in DOMAIN q : j # i \/ decode(q[i]) # t =>
               \E k \in DOMAIN Scheduled(q, i) : Scheduled(q, i)[k].addr = q[j].addr
<1>1. q[i] \in Request(t) /\ q[i].type = t /\ q[i].counted \in 0 .. 2
  BY RequestFields
<1>2. DOMAIN q = 1 .. Len(q) /\ Len(q) \in Nat
  OBVIOUS
<1>3. CASE decode(q[i]) = t
  <2> DEFINE w == Without(q, i)
  <2>1. Scheduled(q, i) = w
    BY <1>1, <1>3 DEF Scheduled
  <2>2. /\ w \in Seq(Request(t)) /\ Len(w) = Len(q) - 1
        /\ \A k \in 1 .. Len(q) - 1 : w[k] = IF k < i THEN q[k] ELSE q[k + 1]
    BY WithoutProperties
  <2> HIDE DEF w
  <2>3. DOMAIN w = 1 .. Len(q) - 1
    BY <2>2, <1>2
  <2>4. \A k \in DOMAIN w : \E j \in DOMAIN q : w[k] = q[j]
    <3> TAKE k \in DOMAIN w
    <3>1. CASE k < i
      BY <3>1, <2>2, <2>3, <1>2
    <3>2. CASE ~(k < i)
      <4>1. k + 1 \in DOMAIN q /\ w[k] = q[k + 1]
        BY <3>2, <2>2, <2>3, <1>2
      <4>2. QED
        BY <4>1
    <3>3. QED
      BY <3>1, <3>2
  <2>5. \A j \in DOMAIN q : j # i => \E k \in DOMAIN w : w[k] = q[j]
    <3> SUFFICES ASSUME NEW j \in DOMAIN q, j # i
                 PROVE  \E k \in DOMAIN w : w[k] = q[j]
      OBVIOUS
    <3>1. CASE j < i
      <4>1. j \in DOMAIN w /\ w[j] = q[j]
        BY <3>1, <2>2, <2>3, <1>2
      <4>2. QED
        BY <4>1
    <3>2. CASE i < j
      <4>1. j - 1 \in DOMAIN w /\ ~(j - 1 < i) /\ j - 1 + 1 = j
        BY <3>2, <2>3, <1>2
      <4>2. w[j - 1] = q[j]
        BY <4>1, <2>2, <2>3
      <4>3. QED
        BY <4>1, <4>2
    <3>3. QED
      BY <3>1, <3>2, <1>2
  <2>6. Len(w) <= Len(q)
    BY <2>2, <1>2
  <2>7. QED
    BY <1>3, <2>1, <2>2, <2>4, <2>5, <2>6
<1>4. CASE decode(q[i]) # t
  <2> DEFINE e == [q[i] EXCEPT !.counted = Counted(q[i].counted)]
             w == [q EXCEPT ![i] = e]
  <2>1. Scheduled(q, i) = w
    BY <1>1, <1>4 DEF Scheduled
  <2>2. e \in Request(t) /\ e.addr = q[i].addr /\ e.no = q[i].no
    BY <1>1 DEF Request, Counted
  <2> HIDE DEF e
  <2>3. /\ w \in Seq(Request(t)) /\ Len(w) = Len(q)
        /\ \A j \in 1 .. Len(q) : w[j] = IF j = i THEN e ELSE q[j]
    BY <2>2, ExceptSeq
  <2> HIDE DEF w
  <2>4. DOMAIN w = DOMAIN q
    BY <2>3
  <2>5. \A j \in DOMAIN q : w[j].addr = q[j].addr /\ w[j].no = q[j].no
    BY <2>2, <2>3, <1>2
  <2>6. QED
    BY <2>1, <2>3, <2>4, <2>5, <1>2
<1>5. QED
  BY <1>3, <1>4

(***************************************************************************)
(* Types                                                                   *)
(***************************************************************************)

LEMMA PendingType ==
  ASSUME RamTypeOK
  PROVE  /\ PendingNow \in Seq(Pending)
         /\ ServingNow \in [Bank -> Int]
<1>1. pending \in Seq(Pending) /\ DOMAIN pending = 1 .. Len(pending) /\ Len(pending) \in Nat
  BY DEF RamTypeOK
<1>2. \A i \in 1 .. Len(pending) :
         [pending[i] EXCEPT !.left = IF @ = 0 THEN 0 ELSE @ - 1] \in Pending
  <2> TAKE i \in 1 .. Len(pending)
  <2>1. pending[i] \in Pending
    BY <1>1
  <2>2. QED
    BY <2>1, RamAssumption DEF Pending
<1>3. AgedPending \in Seq(Pending) /\ Len(AgedPending) = Len(pending)
  BY <1>1, <1>2 DEF AgedPending
<1>4. PendingNow \in Seq(Pending)
  <2>1. CASE Departs
    <3>1. AgedPending # <<>>
      BY <2>1, <1>1, <1>3 DEF Departs
    <3>2. QED
      BY <2>1, <3>1, <1>3, HeadTailProperties DEF PendingNow
  <2>2. CASE ~Departs
    BY <2>2, <1>3 DEF PendingNow
  <2>3. QED
    BY <2>1, <2>2
<1>5. ServingNow \in [Bank -> Int]
  <2>1. CASE Departs
    <3>1. Head(pending) \in Pending
      BY <2>1, <1>1 DEF Departs
    <3>2. Head(pending).addr \in [bank : Bank, row : Row, col : Col]
      BY <3>1, RamAssumption DEF Pending
    <3>3. QED
      BY <3>2 DEF ServingNow, RamTypeOK
  <2>2. CASE ~Departs
    BY <2>2 DEF ServingNow, RamTypeOK
  <2>3. QED
    BY <2>1, <2>2
<1>6. QED
  BY <1>4, <1>5

LEMMA DecodeCases ==
  ASSUME NEW t \in {"RD", "WR"}, NEW r \in Request(t)
  PROVE  \/ decode(r) = "ACT" /\ ~is_row_open(r)
         \/ decode(r) = t /\ is_row_hit(r)
         \/ decode(r) = "PRE" /\ is_row_open(r) /\ ~is_row_hit(r)
  BY RequestFields DEF decode, is_row_hit

LEMMA IssueType ==
  ASSUME RamTypeOK, NEW t \in {"RD", "WR"}, NEW q \in Seq(Request(t)), NEW i \in DOMAIN q,
         issueFor(q, i)
  PROVE  /\ pending' \in Seq(Pending)
         /\ serving' \in [Bank -> Int]
         /\ state' \in [Bank -> {"Opened", "Closed"}]
         /\ row_state' \in [Bank -> SUBSET Row]
         /\ DOMAIN table' \subseteq Bank
         /\ table' \in [DOMAIN table' -> [row : Row, hits : 0 .. 1]]
<1> DEFINE r == q[i]
           b == r.addr.bank
<1>1. /\ r \in Request(t) /\ r.addr \in Addr /\ b \in Bank /\ r.addr.row \in Row
  BY RequestFields
<1>2. /\ issue_cmd(decode(r), b, r.addr.row)
      /\ serving' = Finished(r, Started(r, ServingNow))
      /\ pending' = IF decode(r) = "RD"
                      THEN Append(PendingNow, [addr |-> r.addr, left |-> ReadLatency, latency |-> 2])
                      ELSE PendingNow
  BY DEF issueFor
<1> HIDE DEF r
<1>3. pending' \in Seq(Pending)
  <2>1. [addr |-> r.addr, left |-> ReadLatency, latency |-> 2] \in Pending
    BY <1>1, RamAssumption DEF Pending
  <2>2. QED
    BY <1>2, <2>1, PendingType, AppendProperties
<1>4. serving' \in [Bank -> Int]
  BY <1>1, <1>2, PendingType DEF Finished, Started
<1>5. state' \in [Bank -> {"Opened", "Closed"}] /\ row_state' \in [Bank -> SUBSET Row]
  BY <1>1, <1>2 DEF issue_cmd, updateState, RamTypeOK
<1>6. DOMAIN table' \subseteq Bank /\ table' \in [DOMAIN table' -> [row : Row, hits : 0 .. 1]]
  <2>1. DOMAIN table \subseteq Bank /\ table \in [DOMAIN table -> [row : Row, hits : 0 .. 1]]
    BY DEF RamTypeOK
  <2>2. CASE decode(r) = "ACT"
    BY <1>1, <1>2, <2>1, <2>2 DEF issue_cmd, updateTable
  <2>3. CASE decode(r) = "PRE"
    BY <1>1, <1>2, <2>1, <2>3 DEF issue_cmd, updateTable
  <2>4. CASE decode(r) # "ACT" /\ decode(r) # "PRE"
    <3>1. table' = [table EXCEPT ![b].hits = 1]
      BY <1>2, <2>4 DEF issue_cmd, updateTable
    <3>2. CASE b \in DOMAIN table
      <4>1. [table[b] EXCEPT !.hits = 1] \in [row : Row, hits : 0 .. 1]
        BY <2>1, <3>2
      <4>2. table' = [table EXCEPT ![b] = [table[b] EXCEPT !.hits = 1]]
        BY <3>1
      <4>3. QED
        BY <2>1, <4>1, <4>2
    <3>3. CASE b \notin DOMAIN table
      <4>1. table' = table
        BY <2>1, <3>1, <3>3
      <4>2. QED
        BY <2>1, <4>1
    <3>4. QED
      BY <3>2, <3>3
  <2>5. QED
    BY <2>2, <2>3, <2>4
<1>7. QED
  BY <1>3, <1>4, <1>5, <1>6

LEMMA TypeStep == RamTypeOK /\ [Next]_vars => RamTypeOK'
<1> SUFFICES ASSUME RamTypeOK, [Next]_vars PROVE RamTypeOK'
  OBVIOUS
<1>1. ASSUME NEW a \in Addr, enqueueRead(a) PROVE RamTypeOK'
  <2>1. NewRequest("RD", a) \in Request("RD")
    BY <1>1, RamAssumption DEF NewRequest, Request, RamTypeOK, enqueueRead
  <2>2. [addr |-> a, left |-> 1, latency |-> 1] \in Pending
    BY RamAssumption DEF Pending
  <2>3. readq' \in Seq(Request("RD")) /\ Len(readq') <= QMax
    <3>1. /\ readq \in Seq(Request("RD")) /\ Len(readq) <= QMax /\ Len(readq) # QMax
          /\ readq' = readq \/ readq' = Append(readq, NewRequest("RD", a))
      BY <1>1 DEF enqueueRead, RamTypeOK
    <3>2. QED
      BY <3>1, <2>1, RamAssumption, AppendProperties
  <2>4. pending' \in Seq(Pending)
    <3>1. /\ pending \in Seq(Pending)
          /\ pending' = pending \/ pending' = Append(pending, [addr |-> a, left |-> 1, latency |-> 1])
      BY <1>1 DEF enqueueRead, RamTypeOK
    <3>2. QED
      BY <3>1, <2>2, AppendProperties
  <2>5. sent' \in 0 .. NReq
    <3>1. sent \in 0 .. NReq /\ sent < NReq /\ sent' = sent + 1
      BY <1>1 DEF enqueueRead, RamTypeOK
    <3>2. QED
      BY <3>1, RamAssumption
  <2>6. QED
    BY <1>1, <2>3, <2>4, <2>5 DEF enqueueRead, RamTypeOK, banks
<1>2. ASSUME NEW a \in Addr, enqueueWrite(a) PROVE RamTypeOK'
  <2>1. NewRequest("WR", a) \in Request("WR")
    BY <1>2, RamAssumption DEF NewRequest, Request, RamTypeOK, enqueueWrite
  <2>2. writeq' \in Seq(Request("WR")) /\ Len(writeq') <= QMax
    BY <1>2, <2>1, RamAssumption, AppendProperties DEF enqueueWrite, RamTypeOK
  <2>3. sent' \in 0 .. NReq
    BY <1>2, RamAssumption DEF enqueueWrite, RamTypeOK
  <2>4. QED
    BY <1>2, <2>2, <2>3 DEF enqueueWrite, RamTypeOK, banks
<1>3. ASSUME NEW due \in Due PROVE OtherqNow(due) \in Seq(Bank)
  <2>1. due \in Seq(Bank)
    BY RamAssumption DEF Due
  <2>2. QED
    BY <2>1, ConcatProperties DEF OtherqNow, RamTypeOK
<1>4. ModeNow \in BOOLEAN
  BY DEF ModeNow
<1>5. ASSUME NoCommand PROVE /\ pending' \in Seq(Pending) /\ serving' \in [Bank -> Int]
                             /\ UNCHANGED <<readq, writeq, state, row_state, table>>
  BY <1>5, PendingType DEF NoCommand, banks
<1>6. ASSUME NEW due \in Due, tickRefresh(due) PROVE RamTypeOK'
  <2>1. otherq' \in Seq(Bank)
    <3>1. PICK i \in 0 .. Len(OtherqNow(due)) :
             otherq' = IF i = 0 THEN OtherqNow(due) ELSE Without(OtherqNow(due), i)
      BY <1>6 DEF tickRefresh
    <3>2. QED
      BY <3>1, <1>3, WithoutProperties
  <2>2. QED
    BY <2>1, <1>4, <1>5, <1>6 DEF tickRefresh, RamTypeOK
<1>7. ASSUME NEW due \in Due, tickIdle(due) PROVE RamTypeOK'
  BY <1>4, <1>5, <1>7 DEF tickIdle, RamTypeOK
<1>8. ASSUME NEW due \in Due, tickRead(due) PROVE RamTypeOK'
  <2>1. PICK rdy : LET i == get_head(readq, rdy) IN
                     i # 0 /\ issueFor(readq, i) /\ readq' = Scheduled(readq, i)
    BY <1>8 DEF tickRead
  <2>2. readq \in Seq(Request("RD")) /\ get_head(readq, rdy) \in DOMAIN readq
    BY <2>1, HeadProperties DEF RamTypeOK
  <2>3. readq' \in Seq(Request("RD")) /\ Len(readq') <= Len(readq)
    BY <2>1, <2>2, ScheduledProperties
  <2>4. Len(readq') <= QMax
    BY <2>2, <2>3, RamAssumption DEF RamTypeOK
  <2>5. QED
    BY <2>1, <2>2, <2>3, <2>4, <1>4, <1>8, IssueType DEF tickRead, RamTypeOK
<1>9. ASSUME NEW due \in Due, tickWrite(due) PROVE RamTypeOK'
  <2>1. PICK rdy : LET i == get_head(writeq, rdy) IN
                     i # 0 /\ issueFor(writeq, i) /\ writeq' = Scheduled(writeq, i)
    BY <1>9 DEF tickWrite
  <2>2. writeq \in Seq(Request("WR")) /\ get_head(writeq, rdy) \in DOMAIN writeq
    BY <2>1, HeadProperties DEF RamTypeOK
  <2>3. writeq' \in Seq(Request("WR")) /\ Len(writeq') <= Len(writeq)
    BY <2>1, <2>2, ScheduledProperties
  <2>4. Len(writeq') <= QMax
    BY <2>2, <2>3, RamAssumption DEF RamTypeOK
  <2>5. QED
    BY <2>1, <2>2, <2>3, <2>4, <1>4, <1>9, IssueType DEF tickWrite, RamTypeOK
<1>10. CASE UNCHANGED vars
  BY <1>10 DEF vars, queues, banks, RamTypeOK
<1>11. QED
  BY <1>1, <1>2, <1>6, <1>7, <1>8, <1>9, <1>10 DEF Next, tick

\* Queues, counters, banks and the row table keep their types and their bounds.
THEOREM RamTypeCorrect == Spec => []RamTypeOK
<1>1. Init => RamTypeOK
  <2> SUFFICES ASSUME Init PROVE RamTypeOK
    OBVIOUS
  <2>1. DOMAIN table = {} /\ table \in [DOMAIN table -> [row : Row, hits : 0 .. 1]]
    BY DEF Init
  <2>2. /\ readq \in Seq(Request("RD")) /\ writeq \in Seq(Request("WR"))
        /\ otherq \in Seq(Bank) /\ pending \in Seq(Pending)
        /\ Len(readq) <= QMax /\ Len(writeq) <= QMax
    BY RamAssumption DEF Init
  <2>3. state \in [Bank -> {"Opened", "Closed"}] /\ row_state \in [Bank -> SUBSET Row]
    BY DEF Init
  <2>4. serving \in [Bank -> Int] /\ sent \in 0 .. NReq
    BY RamAssumption DEF Init
  <2>5. write_mode \in BOOLEAN /\ DOMAIN table \subseteq Bank
    BY <2>1 DEF Init
  <2>6. QED
    BY <2>1, <2>2, <2>3, <2>4, <2>5, Zenon DEF RamTypeOK
<1>2. QED
  BY <1>1, TypeStep, PTL DEF Spec

(***************************************************************************)
(* The row table                                                           *)
(***************************************************************************)

LEMMA IssueTable ==
  ASSUME RamTypeOK, RowTableExact,
         NEW t \in {"RD", "WR"}, NEW q \in Seq(Request(t)), NEW i \in DOMAIN q, issueFor(q, i)
  PROVE  RowTableExact'
<1> DEFINE r == q[i]
           b == r.addr.bank
<1>1. r \in Request(t) /\ b \in Bank
  BY RequestFields
<1>2. issue_cmd(decode(r), b, r.addr.row)
  BY DEF issueFor
<1> HIDE DEF r
<1>3. /\ state \in [Bank -> {"Opened", "Closed"}] /\ row_state \in [Bank -> SUBSET Row]
      /\ table \in [DOMAIN table -> [row : Row, hits : 0 .. 1]]
  BY DEF RamTypeOK
<1>4. CASE decode(r) = "ACT" /\ ~is_row_open(r)
  <2>1. b \notin DOMAIN table /\ row_state[b] = {}
    BY <1>1, <1>4 DEF RowTableExact, is_row_open
  <2>2. /\ state' = [state EXCEPT ![b] = "Opened"]
        /\ row_state' = [row_state EXCEPT ![b] = @ \cup {r.addr.row}]
        /\ table' = [c \in DOMAIN table \cup {b} |->
                       IF c \in DOMAIN table THEN table[c] ELSE [row |-> r.addr.row, hits |-> 0]]
    BY <1>2, <1>4 DEF issue_cmd, updateState, updateTable
  <2>3. QED
    BY <1>1, <1>3, <2>1, <2>2 DEF RowTableExact
<1>5. CASE decode(r) = t /\ is_row_hit(r)
  <2>1. /\ state' = state /\ row_state' = row_state
        /\ table' = [table EXCEPT ![b].hits = 1]
    BY <1>2, <1>5 DEF issue_cmd, updateState, updateTable
  <2>2. DOMAIN table' = DOMAIN table /\ \A c \in DOMAIN table : table'[c].row = table[c].row
    BY <1>3, <2>1
  <2>3. QED
    BY <2>1, <2>2 DEF RowTableExact
<1>6. CASE decode(r) = "PRE" /\ is_row_open(r)
  <2>1. /\ state' = [state EXCEPT ![b] = "Closed"]
        /\ row_state' = [row_state EXCEPT ![b] = {}]
        /\ table' = [c \in DOMAIN table \ {b} |-> table[c]]
    BY <1>2, <1>6 DEF issue_cmd, updateState, updateTable
  <2>2. QED
    BY <1>1, <1>3, <2>1 DEF RowTableExact
<1>7. QED
  BY <1>1, <1>4, <1>5, <1>6, DecodeCases

\* What a tick does to the queues and the banks: nothing, or one command for one
\* request of the queue that the mode selects.
LEMMA StepCases ==
  ASSUME RamTypeOK, [Next]_vars
  PROVE  \/ /\ UNCHANGED banks
            /\ \/ UNCHANGED <<readq, writeq, sent>>
               \/ \E a \in Addr : enqueueRead(a) \/ enqueueWrite(a)
         \/ /\ ~write_mode'
            /\ UNCHANGED <<writeq, sent>>
            /\ \E i \in DOMAIN readq : /\ ~violate_hit(readq, i)
                                       /\ issueFor(readq, i)
                                       /\ readq' = Scheduled(readq, i)
         \/ /\ write_mode'
            /\ UNCHANGED <<readq, sent>>
            /\ \E i \in DOMAIN writeq : /\ ~violate_hit(writeq, i)
                                        /\ issueFor(writeq, i)
                                        /\ writeq' = Scheduled(writeq, i)
<1>1. ASSUME NEW due \in Due, tickRead(due)
      PROVE  /\ ~write_mode' /\ UNCHANGED <<writeq, sent>>
             /\ \E i \in DOMAIN readq : /\ ~violate_hit(readq, i)
                                        /\ issueFor(readq, i)
                                        /\ readq' = Scheduled(readq, i)
  <2>1. PICK rdy : LET i == get_head(readq, rdy) IN
                     i # 0 /\ issueFor(readq, i) /\ readq' = Scheduled(readq, i)
    BY <1>1 DEF tickRead
  <2>2. get_head(readq, rdy) \in DOMAIN readq /\ ~violate_hit(readq, get_head(readq, rdy))
    BY <2>1, HeadProperties DEF RamTypeOK
  <2>3. QED
    BY <1>1, <2>1, <2>2 DEF tickRead
<1>2. ASSUME NEW due \in Due, tickWrite(due)
      PROVE  /\ write_mode' /\ UNCHANGED <<readq, sent>>
             /\ \E i \in DOMAIN writeq : /\ ~violate_hit(writeq, i)
                                         /\ issueFor(writeq, i)
                                         /\ writeq' = Scheduled(writeq, i)
  <2>1. PICK rdy : LET i == get_head(writeq, rdy) IN
                     i # 0 /\ issueFor(writeq, i) /\ writeq' = Scheduled(writeq, i)
    BY <1>2 DEF tickWrite
  <2>2. get_head(writeq, rdy) \in DOMAIN writeq /\ ~violate_hit(writeq, get_head(writeq, rdy))
    BY <2>1, HeadProperties DEF RamTypeOK
  <2>3. QED
    BY <1>2, <2>1, <2>2 DEF tickWrite
<1>3. ASSUME NEW due \in Due, tickRefresh(due) \/ tickIdle(due)
      PROVE  UNCHANGED banks /\ UNCHANGED <<readq, writeq, sent>>
  BY <1>3 DEF tickRefresh, tickIdle, NoCommand
<1>4. ASSUME NEW a \in Addr, enqueueRead(a) \/ enqueueWrite(a) PROVE UNCHANGED banks
  BY <1>4 DEF enqueueRead, enqueueWrite
<1>5. CASE UNCHANGED vars
  BY <1>5 DEF vars, queues
<1>6. QED
  BY <1>1, <1>2, <1>3, <1>4, <1>5 DEF Next, tick

\* The row table lists exactly the open banks with their open rows: no assertion of
\* RowTable::update fails, whatever the timing, the requests and the refreshes.
THEOREM RowTableHolds == Spec => []RowTableExact
<1>1. Init => RowTableExact
  BY DEF Init, RowTableExact
<1>2. RamTypeOK /\ RowTableExact /\ [Next]_vars => RowTableExact'
  <2> SUFFICES ASSUME RamTypeOK, RowTableExact, [Next]_vars PROVE RowTableExact'
    OBVIOUS
  <2>1. CASE UNCHANGED banks
    BY <2>1 DEF banks, RowTableExact
  <2>2. ASSUME NEW i \in DOMAIN readq, issueFor(readq, i) PROVE RowTableExact'
    BY <2>2, IssueTable DEF RamTypeOK
  <2>3. ASSUME NEW i \in DOMAIN writeq, issueFor(writeq, i) PROVE RowTableExact'
    BY <2>3, IssueTable DEF RamTypeOK
  <2>4. QED
    BY <2>1, <2>2, <2>3, StepCases
<1>3. QED
  BY <1>1, <1>2, RamTypeCorrect, PTL DEF Spec

\* tick never closes a row that a request of the queue it schedules from hits.
THEOREM RowHitsProtectedHolds == Spec => RowHitsProtected
<1>1. RamTypeOK /\ [Next]_vars =>
        [\A b \in Bank : state[b] = "Opened" /\ state'[b] = "Closed" =>
            LET q == IF write_mode' THEN writeq ELSE readq IN
            ~\E i \in DOMAIN q : q[i].addr.bank = b /\ is_row_hit(q[i])]_vars
  <2> SUFFICES ASSUME RamTypeOK, [Next]_vars,
                      NEW b \in Bank, state[b] = "Opened", state'[b] = "Closed"
               PROVE  LET q == IF write_mode' THEN writeq ELSE readq IN
                      ~\E i \in DOMAIN q : q[i].addr.bank = b /\ is_row_hit(q[i])
    OBVIOUS
  <2>1. ASSUME NEW t \in {"RD", "WR"}, NEW q \in Seq(Request(t)), NEW i \in DOMAIN q,
               ~violate_hit(q, i), issueFor(q, i)
        PROVE  ~\E j \in DOMAIN q : q[j].addr.bank = b /\ is_row_hit(q[j])
    <3>1. q[i] \in Request(t) /\ q[i].addr.bank \in Bank
      BY RequestFields
    <3>2. state \in [Bank -> {"Opened", "Closed"}]
      BY DEF RamTypeOK
    <3>3. decode(q[i]) = "PRE" /\ q[i].addr.bank = b
      BY <2>1, <3>1, <3>2, DecodeCases DEF issueFor, issue_cmd, updateState
    <3>4. is_row_open(q[i]) /\ ~is_row_hit(q[i])
      BY <3>1, <3>3, DecodeCases
    <3>5. QED
      BY <2>1, <3>3, <3>4 DEF violate_hit
  <2>2. CASE UNCHANGED banks
    BY <2>2 DEF banks
  <2>3. readq \in Seq(Request("RD")) /\ writeq \in Seq(Request("WR"))
    BY DEF RamTypeOK
  <2>4. CASE ~write_mode' /\ \E i \in DOMAIN readq : ~violate_hit(readq, i) /\ issueFor(readq, i)
    BY <2>1, <2>3, <2>4
  <2>5. CASE write_mode' /\ \E i \in DOMAIN writeq : ~violate_hit(writeq, i) /\ issueFor(writeq, i)
    BY <2>1, <2>3, <2>5
  <2>6. QED
    BY <2>2, <2>4, <2>5, StepCases
<1>2. QED
  BY <1>1, RamTypeCorrect, PTL DEF Spec, RowHitsProtected

(***************************************************************************)
(* Reads and older writes                                                  *)
(***************************************************************************)

\* Every queued request was numbered before the next one will be.
Numbered ==
    /\ \A i \in DOMAIN readq : readq[i].no < sent
    /\ \A i \in DOMAIN writeq : writeq[i].no < sent

LEMMA CoherentStep ==
  RamTypeOK /\ Numbered /\ CoherentReads /\ [Next]_vars => Numbered' /\ CoherentReads'
<1> SUFFICES ASSUME RamTypeOK, Numbered, CoherentReads, [Next]_vars
             PROVE  Numbered' /\ CoherentReads'
  OBVIOUS
<1>1. /\ readq \in Seq(Request("RD")) /\ DOMAIN readq = 1 .. Len(readq) /\ Len(readq) \in Nat
      /\ writeq \in Seq(Request("WR")) /\ DOMAIN writeq = 1 .. Len(writeq) /\ Len(writeq) \in Nat
      /\ sent \in Nat
  BY RamAssumption DEF RamTypeOK
<1>2. /\ \A i \in DOMAIN readq : readq[i].no \in Nat
      /\ \A i \in DOMAIN writeq : writeq[i].no \in Nat
  BY <1>1, RequestFields, RamAssumption
<1>3. ASSUME NEW a \in Addr, enqueueRead(a) PROVE Numbered' /\ CoherentReads'
  <2>1. writeq' = writeq /\ sent' = sent + 1
    BY <1>3 DEF enqueueRead
  <2>2. CASE readq' = readq
    BY <1>1, <1>2, <2>1, <2>2 DEF Numbered, CoherentReads
  <2>3. CASE ~Forwarded(a) /\ readq' = Append(readq, NewRequest("RD", a))
    <3>1. /\ DOMAIN readq' = 1 .. Len(readq) + 1
          /\ \A i \in 1 .. Len(readq) : readq'[i] = readq[i]
          /\ readq'[Len(readq) + 1].addr = a /\ readq'[Len(readq) + 1].no = sent
      <4>1. readq' = Append(readq, NewRequest("RD", a))
        BY <2>3
      <4>2. NewRequest("RD", a).addr = a /\ NewRequest("RD", a).no = sent
        BY DEF NewRequest
      <4>3. /\ DOMAIN readq' = 1 .. Len(readq) + 1
            /\ \A i \in 1 .. Len(readq) : readq'[i] = readq[i]
            /\ readq'[Len(readq) + 1] = NewRequest("RD", a)
        BY <1>1, <4>1
      <4>4. QED
        BY <4>2, <4>3
    <3>2. \A j \in DOMAIN writeq : writeq[j].addr # a
      BY <2>3 DEF Forwarded
    <3>3. Numbered'
      <4>1. ASSUME NEW i \in DOMAIN readq' PROVE readq'[i].no < sent'
        <5>1. CASE i = Len(readq) + 1
          BY <5>1, <1>1, <2>1, <3>1
        <5>2. CASE i \in 1 .. Len(readq)
          <6>1. readq'[i].no = readq[i].no /\ readq[i].no \in Nat /\ readq[i].no < sent
            BY <5>2, <1>1, <1>2, <3>1 DEF Numbered
          <6>2. QED
            BY <6>1, <1>1, <2>1
        <5>3. QED
          BY <4>1, <5>1, <5>2, <3>1, <1>1
      <4>2. ASSUME NEW i \in DOMAIN writeq' PROVE writeq'[i].no < sent'
        <5>1. writeq'[i].no = writeq[i].no /\ writeq[i].no \in Nat /\ writeq[i].no < sent
          BY <4>2, <2>1, <1>2 DEF Numbered
        <5>2. QED
          BY <5>1, <1>1, <2>1
      <4>3. QED
        BY <4>1, <4>2 DEF Numbered
    <3>4. CoherentReads'
      BY <1>1, <2>1, <3>1, <3>2 DEF CoherentReads
    <3>5. QED
      BY <3>3, <3>4
  <2>4. QED
    BY <1>3, <2>2, <2>3 DEF enqueueRead
<1>4. ASSUME NEW a \in Addr, enqueueWrite(a) PROVE Numbered' /\ CoherentReads'
  <2>1. readq' = readq /\ sent' = sent + 1 /\ writeq' = Append(writeq, NewRequest("WR", a))
    BY <1>4 DEF enqueueWrite
  <2>2. /\ DOMAIN writeq' = 1 .. Len(writeq) + 1
        /\ \A i \in 1 .. Len(writeq) : writeq'[i] = writeq[i]
        /\ writeq'[Len(writeq) + 1].no = sent
    BY <1>1, <2>1 DEF NewRequest
  <2>3. Numbered'
    BY <1>1, <1>2, <2>1, <2>2 DEF Numbered
  <2>4. CoherentReads'
    BY <1>1, <2>1, <2>2 DEF CoherentReads, Numbered
  <2>5. QED
    BY <2>3, <2>4
<1>5. CASE UNCHANGED <<readq, writeq, sent>>
  BY <1>5 DEF Numbered, CoherentReads
<1>6. ASSUME UNCHANGED <<writeq, sent>>, NEW i \in DOMAIN readq, readq' = Scheduled(readq, i)
      PROVE  Numbered' /\ CoherentReads'
  <2>1. \A k \in DOMAIN readq' : \E j \in DOMAIN readq :
           readq'[k].addr = readq[j].addr /\ readq'[k].no = readq[j].no
    BY <1>1, <1>6, ScheduledProperties
  <2>2. QED
    BY <1>6, <2>1 DEF Numbered, CoherentReads
<1>7. ASSUME UNCHANGED <<readq, sent>>, NEW i \in DOMAIN writeq, writeq' = Scheduled(writeq, i)
      PROVE  Numbered' /\ CoherentReads'
  <2>1. \A k \in DOMAIN writeq' : \E j \in DOMAIN writeq :
           writeq'[k].addr = writeq[j].addr /\ writeq'[k].no = writeq[j].no
    BY <1>1, <1>7, ScheduledProperties
  <2>2. QED
    BY <1>7, <2>1 DEF Numbered, CoherentReads
<1>8. QED
  BY <1>3, <1>4, <1>5, <1>6, <1>7, StepCases

\* No read waits for the DRAM while an older write to its address is queued.
THEOREM CoherentReadsHold == Spec => []CoherentReads
<1>1. Init => Numbered /\ CoherentReads
  BY DEF Init, Numbered, CoherentReads
<1>2. QED
  BY <1>1, CoherentStep, RamTypeCorrect, PTL DEF Spec

(***************************************************************************)
(* Activations                                                             *)
(***************************************************************************)

\* A queue that loses no request for row `row' of bank b still has one.
Wants(q, b, row) == \E i \in DOMAIN q : q[i].addr.bank = b /\ q[i].addr.row = row

LEMMA WaitingIsWants ==
  \A b, row : Waiting(b, row) <=> Wants(readq, b, row) \/ Wants(writeq, b, row)
  BY DEF Waiting, Wants

\* A command leaves every bank it opens, or leaves unaccessed, with a request of the
\* queue it was for or with one of the requests that waited before.
LEMMA IssueActivated ==
  ASSUME RamTypeOK, RowTableExact, NEW t \in {"RD", "WR"}, NEW q \in Seq(Request(t)),
         NEW i \in DOMAIN q, issueFor(q, i),
         NEW b \in DOMAIN table', table'[b].hits = 0
  PROVE  \/ Wants(Scheduled(q, i), b, table'[b].row)
         \/ /\ b \in DOMAIN table /\ table[b] = table'[b]
            /\ Wants(q, b, table[b].row) => Wants(Scheduled(q, i), b, table[b].row)
<1> DEFINE r == q[i]
           a == r.addr
           w == Scheduled(q, i)
<1>1. r \in Request(t) /\ a \in Addr /\ a.bank \in Bank
  BY RequestFields
<1>2. issue_cmd(decode(r), a.bank, a.row)
  BY DEF issueFor
<1>3. \A j \in DOMAIN q : j # i \/ decode(r) # t => \E k \in DOMAIN w : w[k].addr = q[j].addr
  BY ScheduledProperties
<1>4. table \in [DOMAIN table -> [row : Row, hits : 0 .. 1]]
  BY DEF RamTypeOK
<1> HIDE DEF w
<1>5. CASE decode(r) = "ACT" /\ ~is_row_open(r)
  <2>1. table' = [c \in DOMAIN table \cup {a.bank} |->
                    IF c \in DOMAIN table THEN table[c] ELSE [row |-> a.row, hits |-> 0]]
    BY <1>2, <1>5 DEF issue_cmd, updateTable
  <2>2. \A j \in DOMAIN q : \E k \in DOMAIN w : w[k].addr = q[j].addr
    BY <1>3, <1>5
  <2>3. CASE b \in DOMAIN table
    BY <2>1, <2>2, <2>3 DEF Wants, w
  <2>4. CASE b \notin DOMAIN table
    <3>1. b = a.bank /\ table'[b].row = a.row
      BY <2>1, <2>4
    <3>2. QED
      BY <2>2, <3>1 DEF Wants, w
  <2>5. QED
    BY <2>3, <2>4
<1>6. CASE decode(r) = t /\ is_row_hit(r)
  <2>1. table' = [table EXCEPT ![a.bank].hits = 1]
    BY <1>2, <1>6 DEF issue_cmd, updateTable
  <2>2. b \in DOMAIN table /\ b # a.bank /\ table'[b] = table[b]
    BY <1>4, <2>1
  <2>3. ASSUME NEW j \in DOMAIN q, q[j].addr.bank = b
        PROVE  \E k \in DOMAIN w : w[k].addr = q[j].addr
    BY <1>3, <2>2, <2>3
  <2>4. QED
    BY <2>2, <2>3 DEF Wants, w
<1>7. CASE decode(r) = "PRE"
  <2>1. table' = [c \in DOMAIN table \ {a.bank} |-> table[c]]
    BY <1>2, <1>7 DEF issue_cmd, updateTable
  <2>2. b \in DOMAIN table /\ table'[b] = table[b]
    BY <2>1
  <2>3. \A j \in DOMAIN q : \E k \in DOMAIN w : w[k].addr = q[j].addr
    BY <1>3, <1>7
  <2>4. QED
    BY <2>2, <2>3 DEF Wants, w
<1>8. QED
  BY <1>1, <1>5, <1>6, <1>7, DecodeCases

\* A row that was activated and not accessed yet still has a queued request that
\* wants it.
THEOREM ActivatedForARequestHolds == Spec => []ActivatedForARequest
<1>1. Init => ActivatedForARequest
  BY DEF Init, ActivatedForARequest
<1>2. RamTypeOK /\ RowTableExact /\ ActivatedForARequest /\ [Next]_vars => ActivatedForARequest'
  <2> SUFFICES ASSUME RamTypeOK, RowTableExact, ActivatedForARequest, [Next]_vars,
                      NEW b \in DOMAIN table', table'[b].hits = 0
               PROVE  Wants(readq', b, table'[b].row) \/ Wants(writeq', b, table'[b].row)
    BY DEF ActivatedForARequest, Waiting, Wants
  <2>1. ASSUME b \in DOMAIN table, table[b] = table'[b]
        PROVE  Wants(readq, b, table[b].row) \/ Wants(writeq, b, table[b].row)
    BY <2>1, WaitingIsWants DEF ActivatedForARequest
  <2>2. readq \in Seq(Request("RD")) /\ writeq \in Seq(Request("WR"))
    BY DEF RamTypeOK
  <2>3. ASSUME UNCHANGED banks, UNCHANGED <<readq, writeq, sent>>
        PROVE  Wants(readq', b, table'[b].row) \/ Wants(writeq', b, table'[b].row)
    BY <2>1, <2>3 DEF banks
  <2>4. ASSUME UNCHANGED banks, NEW a \in Addr, enqueueRead(a) \/ enqueueWrite(a)
        PROVE  Wants(readq', b, table'[b].row) \/ Wants(writeq', b, table'[b].row)
    <3>1. /\ readq' = readq \/ readq' = Append(readq, NewRequest("RD", a))
          /\ writeq' = writeq \/ writeq' = Append(writeq, NewRequest("WR", a))
      BY <2>4 DEF enqueueRead, enqueueWrite
    <3>2. \A i \in DOMAIN readq : i \in DOMAIN readq' /\ readq'[i] = readq[i]
      BY <2>2, <3>1, GrownKeeps
    <3>3. \A i \in DOMAIN writeq : i \in DOMAIN writeq' /\ writeq'[i] = writeq[i]
      BY <2>2, <3>1, GrownKeeps
    <3>4. QED
      BY <2>1, <2>4, <3>2, <3>3 DEF banks, Wants
  <2>5. ASSUME writeq' = writeq, NEW i \in DOMAIN readq,
               issueFor(readq, i), readq' = Scheduled(readq, i)
        PROVE  Wants(readq', b, table'[b].row) \/ Wants(writeq', b, table'[b].row)
    BY <2>1, <2>2, <2>5, IssueActivated
  <2>6. ASSUME readq' = readq, NEW i \in DOMAIN writeq,
               issueFor(writeq, i), writeq' = Scheduled(writeq, i)
        PROVE  Wants(readq', b, table'[b].row) \/ Wants(writeq', b, table'[b].row)
    BY <2>1, <2>2, <2>6, IssueActivated
  <2>7. QED
    BY <2>3, <2>4, <2>5, <2>6, StepCases
<1>3. QED
  BY <1>1, <1>2, RamTypeCorrect, RowTableHolds, PTL DEF Spec

(***************************************************************************)
(* The number of requests a bank serves                                    *)
(***************************************************************************)

\* The requests of type t to bank b that have had a command, and the reads of
\* bank b that wait for their data.
Begun(t, b) == {r \in Request(t) : r.addr.bank = b /\ r.counted > 0}
Awaited(b) == {p \in Pending : p.addr.bank = b /\ p.latency > 1}

LEMMA BalanceIsCount ==
  ASSUME RamTypeOK, NEW b \in Bank
  PROVE  /\ InFlight(readq, b) = CountIn(readq, Begun("RD", b))
         /\ InFlight(writeq, b) = CountIn(writeq, Begun("WR", b))
         /\ PendingOn(b) = CountIn(pending, Awaited(b))
<1>1. ASSUME NEW t \in {"RD", "WR"}, NEW q \in Seq(Request(t))
      PROVE  InFlight(q, b) = CountIn(q, Begun(t, b))
  <2>1. \A i \in DOMAIN q : q[i] \in Request(t)
    BY SeqElement
  <2>2. PlacesIn(q, Begun(t, b)) = {i \in DOMAIN q : q[i].addr.bank = b /\ q[i].counted > 0}
    BY <2>1 DEF PlacesIn, Begun
  <2> QED
    BY <2>2 DEF InFlight, CountIn
<1>2. \A i \in DOMAIN pending : pending[i] \in Pending
  BY SeqElement DEF RamTypeOK
<1>3. PlacesIn(pending, Awaited(b))
        = {i \in DOMAIN pending : pending[i].addr.bank = b /\ pending[i].latency > 1}
  BY <1>2 DEF PlacesIn, Awaited
<1> QED
  BY <1>1, <1>3 DEF PendingOn, CountIn, RamTypeOK

\* A read that departs leaves the bank, unless it was answered from the write queue.
LEMMA DepartureBalance ==
  ASSUME RamTypeOK, NEW b \in Bank
  PROVE  ServingNow[b] - CountIn(PendingNow, Awaited(b))
           = serving[b] - CountIn(pending, Awaited(b))
<1> DEFINE X == Awaited(b)
           n == CountIn(pending, X)
<1>1. /\ pending \in Seq(Pending) /\ DOMAIN pending = 1 .. Len(pending) /\ Len(pending) \in Nat
      /\ serving \in [Bank -> Int] /\ serving[b] \in Int
  BY DEF RamTypeOK
<1>2. ASSUME NEW i \in 1 .. Len(pending)
      PROVE  LET e == [pending[i] EXCEPT !.left = IF @ = 0 THEN 0 ELSE @ - 1]
             IN  /\ e \in Pending /\ e.addr = pending[i].addr /\ e.latency = pending[i].latency
                 /\ pending[i] \in Pending
  <2>1. pending[i] \in Pending
    BY <1>1
  <2> QED
    BY <2>1, RamAssumption DEF Pending
<1>3. /\ AgedPending \in Seq(Pending) /\ Len(AgedPending) = Len(pending)
      /\ DOMAIN AgedPending = DOMAIN pending
      /\ \A i \in DOMAIN pending : /\ AgedPending[i].addr = pending[i].addr
                                   /\ AgedPending[i].latency = pending[i].latency
                                   /\ AgedPending[i] \in Pending /\ pending[i] \in Pending
  <2> DEFINE aged(i) == [pending[i] EXCEPT !.left = IF @ = 0 THEN 0 ELSE @ - 1]
  <2>1. AgedPending = [i \in 1 .. Len(pending) |-> aged(i)]
    BY <1>1 DEF AgedPending
  <2>2. \A i \in 1 .. Len(pending) :
           /\ aged(i) \in Pending /\ aged(i).addr = pending[i].addr
           /\ aged(i).latency = pending[i].latency /\ pending[i] \in Pending
    BY <1>2
  <2> HIDE DEF aged
  <2>3. AgedPending \in Seq(Pending) /\ Len(AgedPending) = Len(pending)
    BY <1>1, <2>1, <2>2
  <2>4. \A i \in 1 .. Len(pending) : AgedPending[i] = aged(i)
    BY <2>1
  <2>5. DOMAIN AgedPending = 1 .. Len(pending)
    BY <2>1
  <2> QED
    BY <1>1, <2>2, <2>3, <2>4, <2>5
<1>4. CountIn(AgedPending, X) = n /\ n \in Nat
  <2>1. PlacesIn(AgedPending, X) = PlacesIn(pending, X)
    BY <1>3 DEF PlacesIn, Awaited
  <2>2. n \in Nat
    BY <1>1, CountType
  <2> QED
    BY <2>1, <2>2 DEF CountIn
<1>5. CASE ~Departs
  BY <1>4, <1>5 DEF PendingNow, ServingNow
<1>6. CASE Departs
  <2> DEFINE h == Head(AgedPending)
  <2>1. pending # <<>> /\ AgedPending # <<>> /\ 1 \in DOMAIN pending
    BY <1>1, <1>3, <1>6 DEF Departs
  <2>2. h = AgedPending[1] /\ Head(pending) = pending[1]
    BY <1>1, <1>3, <2>1
  <2>3. CountIn(PendingNow, X) = n - One(h, X)
    BY <1>3, <1>4, <1>6, <2>1, CountTail DEF PendingNow
  <2> HIDE DEF h
  <2>4. /\ h.addr = Head(pending).addr /\ h.latency = Head(pending).latency
        /\ h \in Pending /\ Head(pending) \in Pending
    BY <1>3, <2>1, <2>2
  <2> DEFINE k == Head(pending)
  <2>5. One(h, X) = IF k.addr.bank = b /\ k.latency > 1 THEN 1 ELSE 0
    BY <2>4 DEF One, Awaited
  <2>6. k.addr.bank \in Bank
    <3>1. k.addr \in Addr
      BY <2>4 DEF Pending
    <3> QED
      BY <3>1, RamAssumption
  <2>7. ServingNow = IF k.latency > 1 THEN [serving EXCEPT ![k.addr.bank] = @ - 1] ELSE serving
    BY <1>6 DEF ServingNow, AccessedRow
  <2> HIDE DEF k, X, n
  <2>8. ServingNow[b] = IF k.addr.bank = b /\ k.latency > 1 THEN serving[b] - 1 ELSE serving[b]
    BY <1>1, <2>6, <2>7
  <2>9. CASE k.addr.bank = b /\ k.latency > 1
    BY <1>1, <1>4, <2>3, <2>5, <2>8, <2>9 DEF n, X
  <2>10. CASE ~(k.addr.bank = b /\ k.latency > 1)
    BY <1>1, <1>4, <2>3, <2>5, <2>8, <2>10 DEF n, X
  <2> QED
    BY <2>9, <2>10
<1> QED
  BY <1>5, <1>6

\* A command moves its request from one place to the next and the bank's number
\* with it.
LEMMA IssueBalance ==
  ASSUME RamTypeOK, NEW t \in {"RD", "WR"}, NEW q \in Seq(Request(t)), NEW i \in DOMAIN q,
         issueFor(q, i), NEW b \in Bank
  PROVE  serving'[b] - CountIn(pending', Awaited(b)) - CountIn(Scheduled(q, i), Begun(t, b))
           = serving[b] - CountIn(pending, Awaited(b)) - CountIn(q, Begun(t, b))
<1> DEFINE r == q[i]
           c == r.addr.bank
           X == Awaited(b)
           Y == Begun(t, b)
           here == c = b
           done == decode(r) = t
<1>1. /\ r \in Request(t) /\ c \in Bank /\ r.type = t /\ r.counted \in 0 .. 2
      /\ r.addr \in Addr
  BY RequestFields
<1>2. /\ serving' = Finished(r, Started(r, ServingNow))
      /\ pending' = IF decode(r) = "RD"
                      THEN Append(PendingNow, [addr |-> r.addr, left |-> ReadLatency, latency |-> 2])
                      ELSE PendingNow
  BY DEF issueFor
<1>3. PendingNow \in Seq(Pending) /\ ServingNow \in [Bank -> Int] /\ ServingNow[b] \in Int
  BY PendingType
<1>4. decode(r) \in {"ACT", "PRE", t}
  BY <1>1, DecodeCases
<1>5. CountIn(PendingNow, X) \in Nat /\ CountIn(q, Y) \in Nat /\ CountIn(pending, X) \in Nat
      /\ serving[b] \in Int
  BY <1>3, CountType DEF RamTypeOK
<1>6. One(r, Y) = IF here /\ r.counted > 0 THEN 1 ELSE 0
  BY <1>1 DEF One, Begun
<1>7. CountIn(Scheduled(q, i), Y) = CountIn(q, Y) - One(r, Y) + (IF ~done /\ here THEN 1 ELSE 0)
  <2>1. CASE done
    <3>1. Scheduled(q, i) = Removed(q, i)
      BY <1>1, <2>1 DEF Scheduled, Without, Removed
    <3>2. CountIn(Scheduled(q, i), Y) = CountIn(q, Y) - One(r, Y)
      BY <3>1, CountRemoved
    <3>3. One(r, Y) \in Int
      BY DEF One
    <3> QED
      BY <1>5, <2>1, <3>2, <3>3
  <2>2. CASE ~done
    <3> DEFINE e == [r EXCEPT !.counted = Counted(r.counted)]
    <3>1. Scheduled(q, i) = [q EXCEPT ![i] = e]
      BY <1>1, <2>2 DEF Scheduled
    <3>2. e \in Request(t) /\ e.addr = r.addr /\ e.counted > 0
      BY <1>1 DEF Request, Counted
    <3> HIDE DEF e
    <3>3. CountIn(Scheduled(q, i), Y) = CountIn(q, Y) - One(r, Y) + One(e, Y)
      <4>1. ASSUME NEW x \in Request(t)
            PROVE  CountIn([q EXCEPT ![i] = x], Y) = CountIn(q, Y) - One(q[i], Y) + One(x, Y)
        BY CountReplaced
      <4> QED
        BY <3>1, <3>2, <4>1
    <3>4. One(e, Y) = IF here THEN 1 ELSE 0
      BY <3>2 DEF One, Begun
    <3> QED
      BY <2>2, <3>3, <3>4
  <2> QED
    BY <2>1, <2>2
<1>8. CountIn(pending', X) = CountIn(PendingNow, X) + (IF decode(r) = "RD" /\ here THEN 1 ELSE 0)
  <2>1. CASE decode(r) = "RD"
    <3> DEFINE p == [addr |-> r.addr, left |-> ReadLatency, latency |-> 2]
    <3>1. p \in Pending
      BY <1>1, RamAssumption DEF Pending
    <3>2. One(p, X) = IF here THEN 1 ELSE 0
      BY <3>1 DEF One, Awaited
    <3>3. pending' = Append(PendingNow, p)
      BY <1>2, <2>1
    <3> HIDE DEF p
    <3>4. CountIn(pending', X) = CountIn(PendingNow, X) + One(p, X)
      BY <1>3, <3>1, <3>3, CountAppend
    <3> QED
      BY <2>1, <3>2, <3>4
  <2>2. CASE decode(r) # "RD"
    BY <1>2, <1>5, <2>2
  <2> QED
    BY <2>1, <2>2
<1>9. serving'[b] = ServingNow[b] + (IF here /\ r.counted = 0 THEN 1 ELSE 0)
                                  - (IF here /\ decode(r) = "WR" THEN 1 ELSE 0)
  <2> DEFINE s == Started(r, ServingNow)
  <2>1. s \in [Bank -> Int] /\ s[b] = ServingNow[b] + (IF here /\ r.counted = 0 THEN 1 ELSE 0)
    BY <1>1, <1>3 DEF Started
  <2>2. serving' = Finished(r, s)
    BY <1>2
  <2> HIDE DEF s
  <2>3. serving'[b] = s[b] - (IF here /\ decode(r) = "WR" THEN 1 ELSE 0)
    BY <1>1, <2>1, <2>2 DEF Finished
  <2> QED
    BY <1>3, <2>1, <2>3
<1>10. ServingNow[b] - CountIn(PendingNow, X) = serving[b] - CountIn(pending, X)
  BY DepartureBalance
<1>11. (decode(r) = "RD" \/ decode(r) = "WR") <=> done
  BY <1>4
<1> HIDE DEF X, Y, r, c, here, done
<1>12. CASE ~here
  BY <1>3, <1>5, <1>6, <1>7, <1>8, <1>9, <1>10, <1>12 DEF X, Y
<1>13. CASE here /\ done
  <2>1. (decode(r) = "RD" /\ decode(r) # "WR") \/ (decode(r) # "RD" /\ decode(r) = "WR")
    BY <1>11, <1>13
  <2>2. serving'[b] - CountIn(pending', X)
          = ServingNow[b] - CountIn(PendingNow, X) + (IF r.counted = 0 THEN 1 ELSE 0) - 1
    BY <1>3, <1>5, <1>8, <1>9, <1>13, <2>1
  <2>3. CountIn(Scheduled(q, i), Y) = CountIn(q, Y) - (IF r.counted > 0 THEN 1 ELSE 0)
    BY <1>5, <1>6, <1>7, <1>13
  <2>4. (IF r.counted = 0 THEN 1 ELSE 0) + (IF r.counted > 0 THEN 1 ELSE 0) = 1
    BY <1>1
  <2> QED
    <3> DEFINE z == IF r.counted = 0 THEN 1 ELSE 0
               w == IF r.counted > 0 THEN 1 ELSE 0
    <3>1. z \in Int /\ w \in Int /\ z + w = 1
      BY <2>4
    <3> HIDE DEF z, w
    <3>2. serving'[b] - CountIn(pending', X) = ServingNow[b] - CountIn(PendingNow, X) + z - 1
      BY <2>2 DEF z
    <3>3. CountIn(Scheduled(q, i), Y) = CountIn(q, Y) - w
      BY <2>3 DEF w
    <3>4. ASSUME NEW s, NEW p, NEW m \in Int, NEW n \in Int, NEW k \in Int, NEW u \in Int,
                 s - p = m - n + z - 1, m - n = u
          PROVE  s - p - (k - w) = u - k
      BY <3>1, <3>4
    <3>5. serving'[b] - CountIn(pending', X) - (CountIn(q, Y) - w)
            = (serving[b] - CountIn(pending, X)) - CountIn(q, Y)
      BY <1>3, <1>5, <1>10, <3>2, <3>4
    <3> QED
      BY <3>3, <3>5 DEF X, Y
<1>14. CASE here /\ ~done
  <2>1. decode(r) # "RD" /\ decode(r) # "WR"
    BY <1>11, <1>14
  <2> QED
    BY <1>1, <1>3, <1>5, <1>6, <1>7, <1>8, <1>9, <1>10, <1>14, <2>1 DEF X, Y
<1> QED
  BY <1>12, <1>13, <1>14

\* cur_serving_requests counts exactly the requests in flight at every moment, so it
\* is never negative (the assertion of update_serving_requests).
THEOREM ServingBalanceHolds == Spec => []ServingBalance
<1>1. Init => ServingBalance
  <2> SUFFICES ASSUME Init, NEW b \in Bank
               PROVE  serving[b] = InFlight(readq, b) + InFlight(writeq, b) + PendingOn(b)
    BY DEF ServingBalance
  <2>1. serving[b] = 0 /\ readq = <<>> /\ writeq = <<>> /\ pending = <<>>
    BY DEF Init
  <2>2. InFlight(readq, b) = 0 /\ InFlight(writeq, b) = 0 /\ PendingOn(b) = 0
    BY <2>1, FS_EmptySet DEF InFlight, PendingOn
  <2> QED
    BY <2>1, <2>2
<1>2. RamTypeOK /\ RamTypeOK' /\ ServingBalance /\ [Next]_vars => ServingBalance'
  <2> SUFFICES ASSUME RamTypeOK, RamTypeOK', ServingBalance, [Next]_vars, NEW b \in Bank
               PROVE  (serving[b] = InFlight(readq, b) + InFlight(writeq, b) + PendingOn(b))'
    BY DEF ServingBalance
  <2> DEFINE X == Awaited(b)
             R == Begun("RD", b)
             W == Begun("WR", b)
  <2>1. serving[b] = CountIn(readq, R) + CountIn(writeq, W) + CountIn(pending, X)
    BY BalanceIsCount DEF ServingBalance
  <2>2. SUFFICES serving'[b] = CountIn(readq', R) + CountIn(writeq', W) + CountIn(pending', X)
    <3>1. ASSUME NEW t \in {"RD", "WR"}, NEW q \in Seq(Request(t))
          PROVE  Cardinality({i \in DOMAIN q : q[i].addr.bank = b /\ q[i].counted > 0})
                   = CountIn(q, Begun(t, b))
      <4>1. \A i \in DOMAIN q : q[i] \in Request(t)
        BY SeqElement
      <4>2. PlacesIn(q, Begun(t, b)) = {i \in DOMAIN q : q[i].addr.bank = b /\ q[i].counted > 0}
        BY <4>1 DEF PlacesIn, Begun
      <4> QED
        BY <4>2 DEF CountIn
    <3>2. readq' \in Seq(Request("RD")) /\ writeq' \in Seq(Request("WR")) /\ pending' \in Seq(Pending)
      BY DEF RamTypeOK
    <3>3. InFlight(readq, b)' = CountIn(readq', R) /\ InFlight(writeq, b)' = CountIn(writeq', W)
      BY <3>1, <3>2 DEF InFlight
    <3>4. \A i \in DOMAIN pending' : pending'[i] \in Pending
      BY <3>2, SeqElement
    <3>5. PlacesIn(pending', X)
            = {i \in DOMAIN pending' : pending'[i].addr.bank = b /\ pending'[i].latency > 1}
      BY <3>4 DEF PlacesIn, Awaited
    <3> QED
      BY <2>2, <3>3, <3>5 DEF PendingOn, CountIn
  <2>3. /\ CountIn(readq, R) \in Nat /\ CountIn(writeq, W) \in Nat /\ CountIn(pending, X) \in Nat
        /\ CountIn(readq', R) \in Nat /\ CountIn(writeq', W) \in Nat /\ CountIn(pending', X) \in Nat
        /\ serving[b] \in Int /\ serving'[b] \in Int
    BY CountType DEF RamTypeOK
  <2>4. ASSUME NEW a \in Addr, enqueueRead(a)
        PROVE  serving'[b] = CountIn(readq', R) + CountIn(writeq', W) + CountIn(pending', X)
    <3>1. serving' = serving /\ writeq' = writeq
      BY <2>4 DEF enqueueRead
    <3>2. CASE Forwarded(a)
      <4> DEFINE p == [addr |-> a, left |-> 1, latency |-> 1]
      <4>1. pending' = Append(pending, p) /\ readq' = readq
        BY <2>4, <3>2 DEF enqueueRead
      <4>2. p \in Pending /\ p \notin X
        BY RamAssumption DEF Pending, Awaited
      <4> HIDE DEF p
      <4>3. CountIn(pending', X) = CountIn(pending, X) + One(p, X) /\ One(p, X) = 0
        BY <4>1, <4>2, CountAppend DEF One, RamTypeOK
      <4> QED
        BY <2>1, <2>3, <3>1, <4>1, <4>3
    <3>3. CASE ~Forwarded(a)
      <4> DEFINE r == NewRequest("RD", a)
      <4>1. readq' = Append(readq, r) /\ pending' = pending
        BY <2>4, <3>3 DEF enqueueRead
      <4>2. r \in Request("RD") /\ r \notin R
        BY DEF NewRequest, Request, Begun, RamTypeOK
      <4> HIDE DEF r
      <4>3. CountIn(readq', R) = CountIn(readq, R) + One(r, R) /\ One(r, R) = 0
        BY <4>1, <4>2, CountAppend DEF One, RamTypeOK
      <4> QED
        BY <2>1, <2>3, <3>1, <4>1, <4>3
    <3> QED
      BY <3>2, <3>3
  <2>5. ASSUME NEW a \in Addr, enqueueWrite(a)
        PROVE  serving'[b] = CountIn(readq', R) + CountIn(writeq', W) + CountIn(pending', X)
    <3> DEFINE r == NewRequest("WR", a)
    <3>1. /\ serving' = serving /\ readq' = readq /\ pending' = pending
          /\ writeq' = Append(writeq, r)
      BY <2>5 DEF enqueueWrite
    <3>2. r \in Request("WR") /\ r \notin W
      BY DEF NewRequest, Request, Begun, RamTypeOK
    <3> HIDE DEF r
    <3>3. CountIn(writeq', W) = CountIn(writeq, W) + One(r, W) /\ One(r, W) = 0
      BY <3>1, <3>2, CountAppend DEF One, RamTypeOK
    <3> QED
      BY <2>1, <2>3, <3>1, <3>3
  <2>6. CASE NoCommand
    <3>1. readq' = readq /\ writeq' = writeq /\ pending' = PendingNow /\ serving' = ServingNow
      BY <2>6 DEF NoCommand
    <3>2. serving'[b] - CountIn(pending', X) = serving[b] - CountIn(pending, X)
      BY <3>1, DepartureBalance
    <3> QED
      BY <2>1, <2>3, <3>1, <3>2
  <2>7. ASSUME NEW i \in DOMAIN readq, issueFor(readq, i), readq' = Scheduled(readq, i),
               writeq' = writeq
        PROVE  serving'[b] = CountIn(readq', R) + CountIn(writeq', W) + CountIn(pending', X)
    <3>1. serving'[b] - CountIn(pending', X) - CountIn(readq', R)
            = serving[b] - CountIn(pending, X) - CountIn(readq, R)
      BY <2>7, IssueBalance DEF RamTypeOK
    <3> QED
      BY <2>1, <2>3, <2>7, <3>1
  <2>8. ASSUME NEW i \in DOMAIN writeq, issueFor(writeq, i), writeq' = Scheduled(writeq, i),
               readq' = readq
        PROVE  serving'[b] = CountIn(readq', R) + CountIn(writeq', W) + CountIn(pending', X)
    <3>1. serving'[b] - CountIn(pending', X) - CountIn(writeq', W)
            = serving[b] - CountIn(pending, X) - CountIn(writeq, W)
      BY <2>8, IssueBalance DEF RamTypeOK
    <3> QED
      BY <2>1, <2>3, <2>8, <3>1
  <2>9. CASE UNCHANGED vars
    BY <2>1, <2>9 DEF vars, queues
  <2>10. CASE tick
    <3>1. PICK due \in Due : tickRefresh(due) \/ tickIdle(due) \/ tickRead(due) \/ tickWrite(due)
      BY <2>10 DEF tick
    <3>2. CASE tickRefresh(due) \/ tickIdle(due)
      BY <2>6, <3>2 DEF tickRefresh, tickIdle
    <3>3. CASE tickRead(due)
      <4>1. PICK rdy : LET i == get_head(readq, rdy) IN
                         i # 0 /\ issueFor(readq, i) /\ readq' = Scheduled(readq, i)
        BY <3>3 DEF tickRead
      <4>2. get_head(readq, rdy) \in DOMAIN readq
        BY <4>1, HeadProperties DEF RamTypeOK
      <4> QED
        BY <2>7, <3>3, <4>1, <4>2 DEF tickRead
    <3>4. CASE tickWrite(due)
      <4>1. PICK rdy : LET i == get_head(writeq, rdy) IN
                         i # 0 /\ issueFor(writeq, i) /\ writeq' = Scheduled(writeq, i)
        BY <3>4 DEF tickWrite
      <4>2. get_head(writeq, rdy) \in DOMAIN writeq
        BY <4>1, HeadProperties DEF RamTypeOK
      <4> QED
        BY <2>8, <3>4, <4>1, <4>2 DEF tickWrite
    <3> QED
      BY <3>1, <3>2, <3>3, <3>4
  <2> QED
    BY <2>4, <2>5, <2>9, <2>10 DEF Next
<1> QED
  BY <1>1, <1>2, TypeStep, RamTypeCorrect, PTL DEF Spec
==============================================================================
