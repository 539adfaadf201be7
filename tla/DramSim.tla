------------------------------- MODULE DramSim -------------------------------
(***************************************************************************)
(* The accesses of the stacked DRAM (StackedDramPerfUnison) and the front  *)
(* end of the HBM model (ramulator/dram_sim.cc) with what it drives: the   *)
(* way from a set number to an address, the address codec between          *)
(* DramModel and RamMemory, the write queue of every channel, and the      *)
(* refresh timers of RamRefresh.cc.                                        *)
(*                                                                         *)
(* Every access ticks all channels once (a transfer twice) before it asks  *)
(* for its latency; there are no other ticks.  Reads never enter           *)
(* req_queue, so the read queues stay empty, the channels stay in write    *)
(* mode and recent_read_latency stays spec->read_latency.  The scheduling  *)
(* of the writes themselves is the subject of RamController; here a tick   *)
(* without a refresh precharges for a write, completes one, or does        *)
(* something that neither the timers nor the queues see.                   *)
(*                                                                         *)
(* Times are distances: of a packet from last_req_time, of the clock from  *)
(* the last refresh.                                                       *)
(***************************************************************************)
EXTENDS Integers, Sequences, FiniteSetsExt

CONSTANTS
    ChBits, RaBits, BaBits, RoBits, CoBits,  \* RamMemory::addr_bits
    AddrMap,       \* addr_map: 1 vault-bank-row, 2 bank-vault-row, 3 row-bank-vault
    RowBits,       \* log2 of n_rows, the rows of a bank in the DRAM cache
    WMax, OMax,    \* Queue::max of writeq and of otherq (32 both)
    nREFI,         \* ticks between two refreshes of a bank (3900)
    nRFC,          \* ticks between two REF of a rank (55 .. 130)
    nRP,           \* ticks between PRE and REF in a rank (7)
    ReadLatency,   \* spec->read_latency
    Window,        \* 200: an access later than this updates the latencies
    TimeWrap,      \* 2^64: the packet times are uint64_t
    Offsets,       \* input: distances of a packet's time from last_req_time
    Sets,          \* input: the set numbers that are written
    HotBanks,      \* input: <<vault, bank>> whose temperature may change
    RMax           \* bound: length of req_queue

Channel == 0 .. 2^ChBits - 1
Rank == 0 .. 2^RaBits - 1
BanksPerRank == 2^BaBits               \* org_entry.count[Bank], max_bank_count
NBanks == 2^RaBits * BanksPerRank
Bank == 0 .. NBanks - 1
rank_of(b) == b \div BanksPerRank

(***************************************************************************)
(* The refreshes of a rank must fit into half an interval, even when the   *)
(* other ranks take the command slots: 2 * 130 + 7 + 8 < 1950 with the     *)
(* shipped configuration, and its 8 banks fit into otherq.                 *)
(***************************************************************************)
ASSUME DramSimAssumption ==
    /\ {ChBits, RaBits, BaBits, RoBits, CoBits} \subseteq Nat
    /\ AddrMap \in 1 .. 3 /\ RowBits \in Nat
    /\ Sets \subseteq 0 .. 2^(ChBits + RaBits + BaBits + RowBits) - 1
    /\ {WMax, OMax, nREFI, nRFC, ReadLatency, RMax} \subseteq Nat \ {0}
    /\ {nRP, Window} \subseteq Nat
    /\ NBanks <= OMax
    /\ BanksPerRank * nRFC + nRP + NBanks < nREFI \div 2
    /\ HotBanks \subseteq Channel \X Bank
    /\ TimeWrap \in Nat \ {0} /\ Offsets \subseteq Int
    /\ \A d \in Offsets : -d < TimeWrap - Window /\ d < TimeWrap

\* Every organisation of HBM.h has two banks per rank, and a row of the DRAM cache
\* is a row of the device.
ASSUME GeometryAssumption == BaBits = 1 /\ RowBits <= RoBits

\* The law of the powers of two the codec rests on, for the exponents it uses.
ASSUME PowerAssumption ==
    \A i, j \in 0 .. ChBits + RaBits + BaBits + RoBits + CoBits + RowBits :
        2^i \in Nat \ {0} /\ 2^(i + j) = 2^i * 2^j /\ 2^1 = 2

VARIABLES
    chan,                 \* the state of each channel
    req_queue,            \* the writes since the last update
    recent_write_latency

vars == <<chan, req_queue, recent_write_latency>>

(***************************************************************************)
(* A channel: `since' is Refresh::clk - bank_refreshed, `hot' the banks    *)
(* with the halved interval, `otherq' the banks with a REFRESH request,    *)
(* `busy' the ticks until a rank takes a REF, `writeq' the address vectors *)
(* of the queued writes, each with the set it was sent for.                *)
(***************************************************************************)
Idle == [since |-> [b \in Bank |-> 0], hot |-> {}, otherq |-> <<>>,
         busy |-> [r \in Rank |-> 0], writeq |-> <<>>]

Init ==
    /\ chan = [ch \in Channel |-> Idle]
    /\ req_queue = <<>>
    /\ recent_write_latency = ReadLatency

------------------------------------------------------------------------------
(* From a set number to a bank of the DRAM.                                *)

low_bits(x, bits) == x % 2^bits
BankBits == RaBits + BaBits

splitSetNum(set) ==
    CASE AddrMap = 1 -> [vault |-> set \div 2^(RowBits + BankBits),
                         bank |-> low_bits(set \div 2^RowBits, BankBits),
                         row |-> low_bits(set, RowBits)]
      [] AddrMap = 2 -> [vault |-> low_bits(set \div 2^RowBits, ChBits),
                         bank |-> set \div 2^(RowBits + ChBits),
                         row |-> low_bits(set, RowBits)]
      [] AddrMap = 3 -> [vault |-> low_bits(set, ChBits),
                         bank |-> low_bits(set \div 2^ChBits, BankBits),
                         row |-> set \div 2^(ChBits + BankBits)]

getSetNum(i) ==
    CASE AddrMap = 1 -> (i.vault * 2^BankBits + i.bank) * 2^RowBits + i.row
      [] AddrMap = 2 -> (i.bank * 2^ChBits + i.vault) * 2^RowBits + i.row
      [] AddrMap = 3 -> (i.row * 2^BankBits + i.bank) * 2^ChBits + i.vault

\* RemappingManager::splitId: a number of a row is split.
splitId(id) == [vault |-> id \div 2^(RowBits + BankBits),
                bank |-> low_bits(id \div 2^RowBits, BankBits),
                row |-> low_bits(id, RowBits)]

\* RemappingManager::getPhysicalIndex: the number of the bank is split
\* (_physical_id, which the policies in use never change).
getPhysicalIndex(i) == splitId(i.vault * 2^BankBits + i.bank)

\* What getAccessLatency asks DramModel for, for a set.
target(set) == getPhysicalIndex(splitSetNum(set))

------------------------------------------------------------------------------
(* The address codec, RoBaRaCoCh.  The column is always 0.                 *)

\* Mutant: the rank is placed above the bank.
encodeRankFirst(t) ==
    LET ra == low_bits(t.bank \div BanksPerRank, RaBits)
        ba == low_bits(t.bank, BaBits)
        row == low_bits(t.row, RoBits)
    IN  ((row * 2^RaBits + ra) * 2^BaBits + ba) * 2^(CoBits + ChBits)
          + low_bits(t.vault, ChBits)

\* writeRow: the address of a target.
encode(t) ==
    LET ra == low_bits(t.bank \div BanksPerRank, RaBits)
        ba == low_bits(t.bank, BaBits)
        row == low_bits(t.row, RoBits)
    IN  ((row * 2^BaBits + ba) * 2^RaBits + ra) * 2^(CoBits + ChBits)
          + low_bits(t.vault, ChBits)

\* RamMemory::send: the address vector, sliced from the low end.
addr_vec(addr) ==
    LET above_ch == addr \div 2^ChBits
        above_co == above_ch \div 2^CoBits
        above_ra == above_co \div 2^RaBits
        above_ba == above_ra \div 2^BaBits
    IN  [channel |-> low_bits(addr, ChBits), col |-> low_bits(above_ch, CoBits),
         rank |-> low_bits(above_co, RaBits), bank |-> low_bits(above_ra, BaBits),
         row |-> low_bits(above_ba, RoBits)]

vec_of == [set \in Sets |-> addr_vec(encode(target(set)))]

------------------------------------------------------------------------------
(* A tick of one channel.                                                  *)

ref_interval(c, b) == IF b \in c.hot THEN nREFI \div 2 ELSE nREFI

\* tick_ref: the banks whose interval has passed, in order.
is_due(c, b) == c.since[b] + 1 >= ref_interval(c, b)
due(c) ==
    LET below[n \in 0 .. NBanks] ==
          IF n = 0 THEN <<>>
          ELSE IF is_due(c, n - 1) THEN Append(below[n - 1], n - 1) ELSE below[n - 1]
    IN  below[NBanks]

\* Mutant: the time of the refresh is not recorded.
injectUnrecorded(c) ==
    [c EXCEPT !.since = [b \in Bank |-> IF c.since[b] < nREFI THEN c.since[b] + 1 ELSE nREFI],
              !.otherq = @ \o due(c),
              !.busy = [r \in Rank |-> IF @[r] = 0 THEN 0 ELSE @[r] - 1]]

\* The clocks advance and the due refreshes are injected.
inject(c) ==
    [c EXCEPT !.since = [b \in Bank |-> IF is_due(c, b) THEN 0 ELSE c.since[b] + 1],
              !.otherq = @ \o due(c),
              !.busy = [r \in Rank |-> IF @[r] = 0 THEN 0 ELSE @[r] - 1]]

\* At the next tick enqueue refuses a refresh, and assert(res) fails.
overflows(c) == Len(c.otherq) + Len(due(c)) > OMax

\* The refreshes whose rank takes a REF.
ready(c) == {i \in DOMAIN c.otherq : c.busy[rank_of(c.otherq[i])] = 0}
without(q, i) == SubSeq(q, 1, i - 1) \o SubSeq(q, i + 1, Len(q))

\* Refreshes come first: the oldest ready one is issued.
refresh(c) ==
    IF ready(c) = {} THEN c
    ELSE LET i == Min(ready(c)) IN
         [c EXCEPT !.otherq = without(@, i), !.busy[rank_of(c.otherq[i])] = nRFC]

precharge(c, i) ==
    LET r == c.writeq[i].vec.rank IN
    [c EXCEPT !.busy[r] = IF @ > nRP THEN @ ELSE nRP]

\* What the phases 2 to 4 of RamController::tick make of the channel.
tick(c) ==
    IF c.otherq # <<>> THEN {refresh(c)}
    ELSE {c} \cup {[c EXCEPT !.writeq = without(@, i)] : i \in DOMAIN c.writeq}
             \cup {precharge(c, i) : i \in DOMAIN c.writeq}

\* RamMemory::tick: every channel ticks.
tickOnce(cs) ==
    FoldSet(LAMBDA ch, acc : {[s EXCEPT ![ch] = n] : n \in tick(inject(cs[ch])), s \in acc},
            {cs}, Channel)

------------------------------------------------------------------------------
(* Latencies.                                                              *)

\* Mutant: the difference is signed.
lateSigned(d) == d > Window

\* pkt_time - last_req_time > 200, unsigned.
late(d) == d % TimeWrap > Window

\* The channels q writes to, and the first write to each.
channel_of(r) == vec_of[r.set].channel
requested(q) == {channel_of(q[i]) : i \in DOMAIN q}
first_for(q, ch) == q[Min({i \in DOMAIN q : channel_of(q[i]) = ch})]

free(cs) == [ch \in Channel |-> WMax - Len(cs[ch].writeq)]

\* updateLatency sends each write again as long as it is accepted: the first
\* one of a channel takes all free slots.
filled(cs, q) ==
    [ch \in Channel |->
        IF ch \in requested(q)
          THEN LET set == first_for(q, ch).set IN
               [cs[ch] EXCEPT !.writeq = @ \o [i \in 1 .. free(cs)[ch] |->
                    [vec |-> vec_of[set], set |-> set]]]
          ELSE cs[ch]]

\* Mutant: the calls are not divided among the writes.
write_latencyTotal(cs, q) ==
    ReadLatency + Len(q) + SumFunctionOnSet(free(cs), requested(q))

\* One call of writeRow per accepted copy and one refused call per write.
write_latency(cs, q) ==
    ReadLatency +
    IF q = <<>> THEN 0
    ELSE (Len(q) + SumFunctionOnSet(free(cs), requested(q))) \div Len(q)

updateLatency(cs, q) ==
    /\ chan' = filled(cs, q)
    /\ recent_write_latency' = write_latency(cs, q)
    /\ req_queue' = <<>>

\* The end of getReadLatency and getWriteLatency, with the queue q.
latencyAt(cs, q, d) ==
    IF late(d) THEN updateLatency(cs, q)
    ELSE /\ chan' = cs
         /\ req_queue' = q
         /\ UNCHANGED recent_write_latency

------------------------------------------------------------------------------
(* The accesses of StackedDramPerfUnison, and its temperatures.            *)

read == \E cs \in tickOnce(chan), d \in Offsets : latencyAt(cs, req_queue, d)

write(set) ==
    /\ Len(req_queue) < RMax
    /\ \E cs \in tickOnce(chan), d \in Offsets :
         latencyAt(cs, Append(req_queue, [set |-> set, at |-> d]), d)

\* A transfer ticks twice and asks for no latency.
transfer ==
    /\ \E cs \in tickOnce(chan) : chan' \in tickOnce(cs)
    /\ UNCHANGED <<req_queue, recent_write_latency>>

setBankRef(v, b, hot) ==
    /\ chan' = [chan EXCEPT ![v].hot = IF hot THEN @ \cup {b} ELSE @ \ {b}]
    /\ UNCHANGED <<req_queue, recent_write_latency>>

Next ==
    \/ read
    \/ \E set \in Sets : write(set)
    \/ transfer
    \/ \E k \in HotBanks, hot \in BOOLEAN : setBankRef(k[1], k[2], hot)

Spec == Init /\ [][Next]_vars

------------------------------------------------------------------------------
(* Properties.                                                             *)

\* However banks turn hot and cool, a bank's refresh is served before its next
\* one is due: otherq holds at most one request per bank, the next tick's
\* requests fit into it, and assert(res) of refresh_target cannot fail.
RefreshesFit ==
    \A ch \in Channel :
        /\ ~overflows(chan[ch])
        /\ \A i, j \in DOMAIN chan[ch].otherq :
               chan[ch].otherq[i] = chan[ch].otherq[j] => i = j

\* The numberings of a bank agree: what writeRow encodes and send decodes, the
\* index of the statistics (rank * 2 + bank), and the rank and bank that the
\* refresh timer of the same bank number refreshes; and no set number is
\* changed by splitting and joining it (the [ERROR] of getAccessLatency).
BankNumbersAgree ==
    \A ch \in Channel : \A i \in DOMAIN chan[ch].writeq :
        LET a == chan[ch].writeq[i].vec
            set == chan[ch].writeq[i].set
            t == target(set)
        IN  /\ a.channel = ch /\ t.vault = ch
            /\ a.row = t.row /\ a.col = 0
            /\ a.rank * 2 + a.bank = t.bank
            /\ a.rank = rank_of(t.bank) /\ a.bank = t.bank % BanksPerRank
            /\ getSetNum(splitSetNum(set)) = set

\* req_queue holds only writes of the current window: a packet that is older
\* than the last update wraps the unsigned difference and closes the window
\* instead of joining it.
QueuedInWindow ==
    \A i \in DOMAIN req_queue : req_queue[i].at \in 0 .. Window

\* The loop of updateLatency ends, and the write latency it reports exceeds the
\* read latency by at most one full write queue and the refused call.
WriteLatencyBounded ==
    recent_write_latency \in ReadLatency .. ReadLatency + WMax + 1

\* "physical_id: initial same as bank_id, changed to another id when remapped"
\* (remapping.h): nothing is remapped physically, so a write of a set reaches
\* the vault and the bank of the set.
WritesReachTheirBank ==
    \A ch \in Channel : \A i \in DOMAIN chan[ch].writeq :
        LET a == chan[ch].writeq[i].vec
            home == splitSetNum(chan[ch].writeq[i].set)
        IN  a.channel = home.vault /\ a.rank * BanksPerRank + a.bank = home.bank
=============================================================================
