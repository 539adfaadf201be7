---------------------------- MODULE RamController ----------------------------
(***************************************************************************)
(* One channel of the HBM model (performance_model/ramulator): the request *)
(* queues of RamController, its clock tick, the FRFCFS_PriorHit scheduler  *)
(* with the Opened row policy (the defaults nobody changes), the row table *)
(* and the bank states of HBM and RamDRAM.                                 *)
(*                                                                         *)
(* Timing is abstracted: the distances of HBM::init_timing only decide     *)
(* when check() lets a command through, so every tick takes any set of     *)
(* commands as ready, and a bank may become due for a refresh at any tick. *)
(***************************************************************************)
EXTENDS Integers, Sequences, FiniteSets

CONSTANTS
    NBanks,       \* banks of the channel, ranks flattened
    Row,          \* rows of a bank
    Col,          \* columns of a row
    Addr,         \* the addresses clients use, records [bank, row, col]
    QMax,         \* Queue::max, for each of readq and writeq
    ReadLatency,  \* spec->read_latency, in ticks
    NReq          \* bound: requests sent in a behaviour

Bank == 0 .. NBanks - 1

ASSUME RamAssumption ==
    /\ NBanks \in Nat \ {0}
    /\ QMax \in Nat \ {0}
    /\ ReadLatency \in Nat \ {0}
    /\ NReq \in Nat
    /\ Addr \subseteq [bank : Bank, row : Row, col : Col]

VARIABLES
    readq, writeq,  \* requests in order of arrival
    otherq,         \* banks with a queued REFRESH request
    pending,        \* reads that are about to receive their data
    write_mode,
    state,          \* RamDRAM::state of each bank
    row_state,      \* the rows RamDRAM::row_state holds, by bank
    table,          \* RowTable::table, [row, hits] by open bank
    serving,        \* cur_serving_requests of each bank
    sent            \* requests accepted so far; it also numbers them

queues == <<readq, writeq, otherq, pending, write_mode>>
banks == <<state, row_state, table>>
vars == <<queues, banks, serving, sent>>

(***************************************************************************)
(* `counted' is how often tick() counted the request in bank_reads or      *)
(* bank_writes, saturated at 2; is_first_command is counted = 0.  `no' is  *)
(* the order of arrival.  A read in `pending' keeps depart - clk in `left' *)
(* (0 when overdue) and depart - arrive in `latency', saturated at 2.      *)
(***************************************************************************)
Request(type) == [addr : Addr, type : {type}, counted : 0 .. 2, no : 0 .. NReq]
Pending == [addr : Addr, left : 0 .. ReadLatency, latency : 1 .. 2]

NewRequest(type, a) == [addr |-> a, type |-> type, counted |-> 0, no |-> sent]

Init ==
    /\ readq = <<>> /\ writeq = <<>> /\ otherq = <<>> /\ pending = <<>>
    /\ write_mode = FALSE
    /\ state = [b \in Bank |-> "Closed"]
    /\ row_state = [b \in Bank |-> {}]
    /\ table = [b \in {} |-> [row |-> 0, hits |-> 0]]
    /\ serving = [b \in Bank |-> 0]
    /\ sent = 0

------------------------------------------------------------------------------
(* Clients: RamMemory::send finds the controller full or enqueues.         *)

\* Mutant: only the oldest write is looked at.
ForwardedOldest(a) == writeq # <<>> /\ writeq[1].addr = a

Forwarded(a) == \E i \in DOMAIN writeq : writeq[i].addr = a

enqueueRead(a) ==
    /\ sent < NReq
    /\ Len(readq) # QMax
    /\ sent' = sent + 1
    /\ IF Forwarded(a)
         THEN /\ pending' = Append(pending, [addr |-> a, left |-> 1, latency |-> 1])
              /\ UNCHANGED readq
         ELSE /\ readq' = Append(readq, NewRequest("RD", a))
              /\ UNCHANGED pending
    /\ UNCHANGED <<writeq, otherq, write_mode, banks, serving>>

enqueueWrite(a) ==
    /\ sent < NReq
    /\ Len(writeq) # QMax
    /\ sent' = sent + 1
    /\ writeq' = Append(writeq, NewRequest("WR", a))
    /\ UNCHANGED <<readq, otherq, pending, write_mode, banks, serving>>

------------------------------------------------------------------------------
(* Bank states, commands and the row table.                                *)

is_row_open(r) == state[r.addr.bank] = "Opened"
is_row_hit(r) == is_row_open(r) /\ r.addr.row \in row_state[r.addr.bank]

\* The command a request needs next.
decode(r) ==
    CASE ~is_row_open(r) -> "ACT"
      [] is_row_hit(r)   -> r.type
      [] OTHER           -> "PRE"

\* The bank automaton.
updateState(cmd, b, row) ==
    /\ state' = CASE cmd = "ACT" -> [state EXCEPT ![b] = "Opened"]
                  [] cmd = "PRE" -> [state EXCEPT ![b] = "Closed"]
                  [] OTHER -> state
    /\ row_state' = CASE cmd = "ACT" -> [row_state EXCEPT ![b] = @ \cup {row}]
                      [] cmd = "PRE" -> [row_state EXCEPT ![b] = {}]
                      [] OTHER -> row_state

\* Mutant: the entry of a closed bank stays.
updateTableKeep(cmd, b, row) ==
    table' = CASE cmd = "ACT" -> [c \in DOMAIN table \cup {b} |->
                                     IF c \in DOMAIN table THEN table[c]
                                     ELSE [row |-> row, hits |-> 0]]
               [] cmd = "PRE" -> table
               [] OTHER -> [table EXCEPT ![b].hits = 1]

\* Mutant: the hits of an accessed row are not counted.
updateTableNoHits(cmd, b, row) ==
    table' = CASE cmd = "ACT" -> [c \in DOMAIN table \cup {b} |->
                                     IF c \in DOMAIN table THEN table[c]
                                     ELSE [row |-> row, hits |-> 0]]
               [] cmd = "PRE" -> [c \in DOMAIN table \ {b} |-> table[c]]
               [] OTHER -> table

\* RowTable::update; map::insert keeps an entry that is already there.
\* Hits are saturated at 1.
updateTable(cmd, b, row) ==
    table' = CASE cmd = "ACT" -> [c \in DOMAIN table \cup {b} |->
                                     IF c \in DOMAIN table THEN table[c]
                                     ELSE [row |-> row, hits |-> 0]]
               [] cmd = "PRE" -> [c \in DOMAIN table \ {b} |-> table[c]]
               [] OTHER -> [table EXCEPT ![b].hits = 1]

issue_cmd(cmd, b, row) == updateState(cmd, b, row) /\ updateTable(cmd, b, row)

------------------------------------------------------------------------------
(* tick(): the four phases, the later ones reading what the earlier left.  *)

\* Phase 1: the head of pending departs.
Departs == pending # <<>> /\ Head(pending).left <= 1

AgedPending == [i \in DOMAIN pending |->
                  [pending[i] EXCEPT !.left = IF @ = 0 THEN 0 ELSE @ - 1]]
PendingNow == IF Departs THEN Tail(AgedPending) ELSE AgedPending

\* Mutant: reads answered from the write queue count too.
DepartedRow(p) == p.latency > 0

AccessedRow(p) == p.latency > 1
ServingNow ==
    IF Departs /\ AccessedRow(Head(pending))
      THEN [serving EXCEPT ![Head(pending).addr.bank] = @ - 1]
      ELSE serving

\* Phase 2: banks that are due get a REFRESH request, in the order of the
\* banks.  A bank whose last request is still queued is not due again.
InOtherq == {otherq[i] : i \in DOMAIN otherq}
Due == {d \in UNION {[1 .. n -> Bank \ InOtherq] : n \in 0 .. NBanks} :
           \A i, j \in DOMAIN d : i < j => d[i] < d[j]}
OtherqNow(due) == otherq \o due

\* Mutant: an empty read queue does not start the writes.
ModeByFill ==
    IF ~write_mode
      THEN Len(writeq) >= (8 * QMax) \div 10
      ELSE ~(Len(writeq) <= (2 * QMax) \div 10 /\ Len(readq) # 0)

\* Phase 3: int(0.8 * max) and int(0.2 * max).
ModeNow ==
    IF ~write_mode
      THEN Len(writeq) >= (8 * QMax) \div 10 \/ Len(readq) = 0
      ELSE ~(Len(writeq) <= (2 * QMax) \div 10 /\ Len(readq) # 0)

\* Phase 4: the scheduler.  `rdy' holds the pairs <<command, bank>> that
\* check() lets through.
is_ready(r, rdy) == <<decode(r), r.addr.bank>> \in rdy

\* Mutant: only an older request is protected.
violate_older_hit(q, i) ==
    /\ is_row_open(q[i]) /\ ~is_row_hit(q[i])
    /\ \E j \in DOMAIN q : j < i /\ is_row_hit(q[j]) /\ q[j].addr.bank = q[i].addr.bank

\* A request that would close a row another request of the queue hits.
violate_hit(q, i) ==
    /\ is_row_open(q[i]) /\ ~is_row_hit(q[i])
    /\ \E j \in DOMAIN q : is_row_hit(q[j]) /\ q[j].addr.bank = q[i].addr.bank

First(S) == IF S = {} THEN 0 ELSE CHOOSE i \in S : \A j \in S : i <= j

\* get_head() and the readiness test that follows it: 0 when no command
\* can be issued.  The queue is in order of arrival.
get_head(q, rdy) ==
    LET ready == {i \in DOMAIN q : is_ready(q[i], rdy)}
        hits  == {i \in ready : is_row_hit(q[i])}
    IN  IF hits # {} THEN First(hits)
        ELSE First({i \in ready : ~violate_hit(q, i)})

Counted(n) == IF n = 2 THEN 2 ELSE n + 1
Without(q, i) == SubSeq(q, 1, i - 1) \o SubSeq(q, i + 1, Len(q))

\* The queue after its i-th request got its next command.
Scheduled(q, i) ==
    IF decode(q[i]) = q[i].type THEN Without(q, i)
    ELSE [q EXCEPT ![i].counted = Counted(@)]

Started(r, srv) ==
    IF r.counted = 0 THEN [srv EXCEPT ![r.addr.bank] = @ + 1] ELSE srv
Finished(r, srv) ==
    IF decode(r) = "WR" THEN [srv EXCEPT ![r.addr.bank] = @ - 1] ELSE srv

\* The command for the i-th request of queue q.
issueFor(q, i) ==
    LET r == q[i] IN
    /\ issue_cmd(decode(r), r.addr.bank, r.addr.row)
    /\ serving' = Finished(r, Started(r, ServingNow))
    /\ pending' = IF decode(r) = "RD"
                    THEN Append(PendingNow, [addr |-> r.addr, left |-> ReadLatency, latency |-> 2])
                    ELSE PendingNow

NoCommand ==
    /\ pending' = PendingNow
    /\ serving' = ServingNow
    /\ UNCHANGED <<readq, writeq, banks>>

Ready(q) == SUBSET {<<decode(q[i]), q[i].addr.bank>> : i \in DOMAIN q}

\* Refreshes come first.  REF is always the first command of a REFRESH
\* request (init_prereq looks for open banks below the banks, where there
\* are none) and changes no bank.
tickRefresh(due) ==
    /\ OtherqNow(due) # <<>>
    /\ write_mode' = ModeNow
    /\ \E i \in 0 .. Len(OtherqNow(due)) :
           otherq' = IF i = 0 THEN OtherqNow(due) ELSE Without(OtherqNow(due), i)
    /\ NoCommand
    /\ UNCHANGED sent

tickIdle(due) ==
    /\ OtherqNow(due) = <<>>
    /\ write_mode' = ModeNow
    /\ LET q == IF write_mode' THEN writeq ELSE readq IN
         \E rdy \in Ready(q) : get_head(q, rdy) = 0
    /\ NoCommand
    /\ UNCHANGED <<otherq, sent>>

tickRead(due) ==
    /\ OtherqNow(due) = <<>>
    /\ write_mode' = ModeNow
    /\ ~write_mode'
    /\ \E rdy \in Ready(readq) :
         LET i == get_head(readq, rdy) IN
         /\ i # 0
         /\ issueFor(readq, i)
         /\ readq' = Scheduled(readq, i)
    /\ UNCHANGED <<writeq, otherq, sent>>

tickWrite(due) ==
    /\ OtherqNow(due) = <<>>
    /\ write_mode' = ModeNow
    /\ write_mode'
    /\ \E rdy \in Ready(writeq) :
         LET i == get_head(writeq, rdy) IN
         /\ i # 0
         /\ issueFor(writeq, i)
         /\ writeq' = Scheduled(writeq, i)
    /\ UNCHANGED <<readq, otherq, sent>>

tick ==
    \E due \in Due :
        tickRefresh(due) \/ tickIdle(due) \/ tickRead(due) \/ tickWrite(due)

Next ==
    \/ \E a \in Addr : enqueueRead(a) \/ enqueueWrite(a)
    \/ tick

Spec == Init /\ [][Next]_vars

(***************************************************************************)
(* Fairness: memory->tick() is called on every access; a timing distance   *)
(* of init_timing is finite, so a REF that waits is let through.  nREFI    *)
(* (3900 ticks, half of it for a hot bank) is far longer than the          *)
(* refreshes of all banks take, so ticks that leave no refresh queued keep *)
(* coming, and on one of the ticks between refreshes a command of the      *)
(* waiting requests is ready.                                              *)
(***************************************************************************)
RefreshServed == tick /\ Len(otherq') < Len(otherq)
AllRefreshed == tick /\ otherq' = <<>>
RequestServed == tick /\ <<readq, writeq, state>>' # <<readq, writeq, state>>

FairSpec ==
    /\ Spec
    /\ WF_vars(tick) /\ WF_vars(RefreshServed)
    /\ SF_vars(AllRefreshed) /\ SF_vars(RequestServed)

------------------------------------------------------------------------------
(* Properties.                                                             *)

RamTypeOK ==
    /\ readq \in Seq(Request("RD"))
    /\ writeq \in Seq(Request("WR"))
    /\ Len(readq) <= QMax /\ Len(writeq) <= QMax
    /\ otherq \in Seq(Bank)
    /\ pending \in Seq(Pending)
    /\ write_mode \in BOOLEAN
    /\ state \in [Bank -> {"Opened", "Closed"}]
    /\ row_state \in [Bank -> SUBSET Row]
    /\ DOMAIN table \subseteq Bank
    /\ table \in [DOMAIN table -> [row : Row, hits : 0 .. 1]]
    /\ serving \in [Bank -> Int]
    /\ sent \in 0 .. NReq

\* The row table lists exactly the open banks, each with the one row that is
\* open in it: the assertions of RowTable::update (a row that is accessed or
\* closed has its entry) cannot fail.
RowTableExact ==
    \A b \in Bank :
        /\ state[b] = "Opened" <=> b \in DOMAIN table
        /\ row_state[b] = IF b \in DOMAIN table THEN {table[b].row} ELSE {}

InFlight(q, b) == Cardinality({i \in DOMAIN q : q[i].addr.bank = b /\ q[i].counted > 0})
PendingOn(b) == Cardinality({i \in DOMAIN pending :
                               pending[i].addr.bank = b /\ pending[i].latency > 1})

\* cur_serving_requests of a bank is the number of requests that have had a
\* command and are not complete, so the assertion that it never becomes
\* negative (update_serving_requests) holds, and it returns to zero; reads
\* answered from the write queue are not counted when they depart.
ServingBalance ==
    \A b \in Bank :
        serving[b] = InFlight(readq, b) + InFlight(writeq, b) + PendingOn(b)

\* No read waits for the DRAM while an older write to its address is still
\* queued (the shortcut of enqueue, "necessary for coherence").
CoherentReads ==
    \A i \in DOMAIN readq, j \in DOMAIN writeq :
        readq[i].addr = writeq[j].addr => readq[i].no < writeq[j].no

Waiting(b, row) ==
    \/ \E i \in DOMAIN readq : readq[i].addr.bank = b /\ readq[i].addr.row = row
    \/ \E i \in DOMAIN writeq : writeq[i].addr.bank = b /\ writeq[i].addr.row = row

\* A row that was activated and not accessed yet still has a queued request
\* that wants it, across changes of mode and refreshes: no activation is
\* for nothing because its request has gone.
ActivatedForARequest ==
    \A b \in DOMAIN table : table[b].hits = 0 => Waiting(b, table[b].row)

\* tick never closes a row that a request of the queue it schedules from hits
\* (violate_hit of get_head).
RowHitsProtected ==
    [][\A b \in Bank : state[b] = "Opened" /\ state'[b] = "Closed" =>
          LET q == IF write_mode' THEN writeq ELSE readq IN
          ~\E i \in DOMAIN q : q[i].addr.bank = b /\ is_row_hit(q[i])]_vars

\* Every request that was accepted completes: the thresholds of the write
\* mode leave no request behind, and requests in conflict over a row do not
\* close it on each other forever.
EventuallyDrained == <>[](readq = <<>> /\ writeq = <<>> /\ pending = <<>>)
=============================================================================
