# A formal model of the thermally managed stacked DRAM cache

The repository patches the Sniper multicore simulator with a 3D-stacked DRAM
cache ("Unison" organisation), a HotSpot thermal loop that runs while the
simulation runs, a mechanism that remaps or disables DRAM banks that get hot, and
a Ramulator-derived HBM timing model; it also carries Sniper's cache controller
and HotSpot itself as patched sources. This directory models the parts that keep
state and take decisions, from the coherence transactions of the caches down to
the grid that HotSpot solves and the annealer that lays out its floor plans.

Everything is TLA+ (no PlusCal). `PROJECT.json` lists the components, the TLC
runs, the source lines behind each definition, the hazards and the theorems.

    tlc -config MCRemapping.cfg MCRemapping       # a run: see "Runs"
    tlapm DramCacheProofs.tla                     # the proofs of a component

## 1. Inventory

| component | source | state | operations |
|---|---|---|---|
| Remapping manager | `performance_model/remapping.{cc,h}` | for each bank: logical id, remap id, valid, disabled, combined, temperature; four counters | `setRemapConfig`, `updateTemperature`, `runMechanism`, `combineWith`, `resetBank`, `resetStats`, MEA row counters |
| DRAM cache controller | `performance_model/dram_perf_model_normal.{cc,h}` | sets of pages (tag, valid/dirty/footprint bits, age), footprint history table | `ProcessRequest`, `checkRemapping`, look-up, eviction, flush, bypass |
| Stacked DRAM performance model | `performance_model/stacked_dram_cntlr.{cc,h}` | `remapped` flag, per-bank statistics | address map, `getAccessLatency`, `updateTemperature`, `tryRemapping`, `getRemapSet`, `clearRemappingStat` |
| Sniper cache controller (patched) | `cache_cntlr.cc` | state of each line in the L1s and the LLC, set locks, directory waiters, prefetch list | memory operations of the cores, evictions, prefetches, coherence messages |
| Thermal loop and DTM | `misc/stats.cc` | temperatures, frequency level, snapshots of the counters, `start_hotspot` | `recordStats`, `updatePower`, `dumpHotspotInput`, `callHotSpot`, `checkDTM`, `setGlobalFrequency` |
| DVFS manager | `system/dvfs_manager.cc` | period of each domain | `setCoreDomain` |
| HotSpot grid solver | `misc/HotSpot/{hotspot,temperature,temperature_grid,RCutil}.cc` | layers, block-to-grid maps, resistances, temperature vectors | `calculateTemperature`, `populate_R_model_grid`, `recursive_multigrid`, SuperLU matrix, `rk4`, temperature files |
| HotFloorplan | `misc/HotSpot/{flp,npe,shape}.cc` | Polish expression, slicing tree, floor plan, powers and wires | `floorplan`, the moves, `tree_to_flp`, compaction, L2 wrapping, rim |
| HBM channel controller | `ramulator/RamController`, `RamScheduler`, `HBM`, `RamDRAM` | read, write, refresh and pending queues, write mode, bank states, row table, serving counters | `enqueue`, `tick`, `get_head`, `issue_cmd` |
| Refresh timer | `ramulator/RamRefresh` | last refresh and interval of each bank | `tick_ref`, `inject_bank_refresh`, `set_ref_interval` |
| Ramulator front end | `ramulator/dram_sim.cc`, `RamMemory.h` | request queue, clocks, average latency | `getReadLatency`, `writeRow`, `tickOnce`, `updateLatency`, `send` |

Supporting parts without control of their own (counters, power tables, scripts),
superseded copies (`new_remapping/`, `vault_remap`, `bank_remap`) and the
alternative cache models are listed in `PROJECT.json` with the reason they are
left out.

**How they interact.** A core's access goes to its L1 and, on a miss, under the
set lock to the last-level cache of its node; an LLC that lacks the line or the
right to write it asks the directory and waits until the network thread has the
reply and wakes it. A request that misses the LLC also reaches `ProcessRequest`
of the DRAM cache. That controller first calls `checkRemapping`: if the flag
`remapped` is set it writes back and empties the sets of every bank marked not
valid and calls `clearRemappingStat`. Then it asks the performance model whether
the bank of the set is disabled (the request bypasses the cache) and which bank
serves it (`getRemapSet`), and looks the page up there. The latency of an access
comes from the HBM model, whose clock advances only with the accesses themselves.
At every sampling interval the statistics hook collects the counters, writes the
power trace and calls HotSpot; the temperatures it answers go to the banks
(refresh rate, remapping mechanism) and to `checkDTM`, which steps the frequency
of the cores. The mechanism never touches the cache: the tables and the one flag
are all it shares with the controller. HotFloorplan is HotSpot's off-line part:
it makes the floor plans the solver reads.

**What is hard.** The cache controller releases its set lock to take it
exclusively, passes it from the network thread to a woken user thread and back,
and answers requests that cross its own evictions. The remapping mechanism is a
single pass over tables that it changes as it goes, run again with arbitrary new
temperatures on the outcome of all earlier passes, and the DRAM cache learns of
its decision only at the next request. The channel controller keeps the same
facts twice (bank states and row table; queue contents and serving counters)
under assertions that abort the simulator. Power traces and temperatures travel
through text files whose columns stand in three different orders. HotSpot writes
its heat network down three times (relaxation, slopes, sparse matrix), with
separate cases for the default stack, layer files, the secondary path and the
detailed 3D model, and multigrid changes the model in place. HotFloorplan moves
powers and wires from slot to slot while it tries plans it then discards. Refresh
intervals change while refreshes are queued, and packet times are unsigned and not
monotonic. `PROJECT.json` lists the hazards line by line.

**What makes each part correct.** Caches: inclusion, single writer, no write lost,
everything completes. Remapping: pairs stay pairs, no enabled bank is served by a
hot one, cool banks come back, statistics balance. DRAM cache: no page twice in a
set, no content left in a bank out of service, each dirty block written back
exactly once, no access to a hot bank. Thermal loop: a bank's temperature is the
one of its place on the die, accesses are charged once, heat throttles. Grid
model: one network in all encodings, power conserved, successive calls continue
each other. HotFloorplan: legal expressions, tiled plans, optimal sizing, the best
plan returned. Channel: assertions cannot fail, reads see older writes, no useless
activations, everything completes. Front end: refreshes fit into their queue,
every layer means the same bank, the stall loop ends.

## 2. Modules

| module | contents |
|---|---|
| `Remapping` | the bank tables, the mechanism, the thermal tick, the acknowledgement by the controller |
| `DramCache` | extends `Remapping` with the cache sets and `ProcessRequest` |
| `RamController` | one HBM channel |
| `DramSim` | the way of an access from its set number to a channel, the front end's request queue, all channels' write queues and refresh timers |
| `Coherence` | abstract: what the LLCs promise each other (permissions without messages) |
| `CacheCntlr` | L1s, LLCs, locks, waiters, network threads; implements `Coherence` |
| `Thermal` | `recordStats`, the power trace, `callHotSpot`, DTM and DVFS |
| `GridNetwork` | the nodes and links of HotSpot's heat network in its three encodings |
| `GridModel` | extends `GridNetwork` with HotSpot as the simulator calls it |
| `Npe` | normalized Polish expressions and their moves |
| `Floorplan` | extends `Npe` with shape curves, slicing trees, wrapping and annealing |
| `MC*` | constants for TLC |
| `RamControllerProofs`, `ThermalProofs`, `DramSimProofs`, `CacheCntlrProofs` | theorems about the module of that name |
| `DramCacheProofs` | theorems about `Remapping`, and about `DramCache` on top of it |
| `HotSpotProofs` | theorems about `GridModel`, `Npe` and `Floorplan` |
| `CacheDirectoryProofs` | theorems about `CacheCntlr` and its directory, on top of `CacheCntlrProofs` |
| `ProofLemmas` | what several of them need: minima, induction, division, sums over a range, counting in a sequence |

Operators whose comment says "Mutant" are deliberately wrong variants of the
definition that follows them (a forgotten partner, a late queue test, ...). No
specification uses them; replacing the right definition by the wrong one must
make the named property fail, which shows that the property can fail.

Each module also has a type invariant. Those of `Remapping`, `DramCache`,
`RamController`, `Thermal`, `DramSim` and `CacheCntlr` are part of the inductive
invariants in section 5; the others document the state.

### Remapping

State and code: `logical`, `remap`, `valid`, `disabled`, `combined` are the fields of
`BankStat`, `temp` is `PhyBank::_temperature`, `remapped` the flag of
`StackedDramPerfUnison`. `events` is the balance of the printed counters
(disables, double disables and remaps minus recoveries), `config` the settings
of the configuration file. `_physical_id` is constant in the code and left out.

Actions: `callHotSpot` (any temperature for every bank, flag set, mechanism
entered when enabled), `runMechanism` (one iteration of its loop; `cursor` is the
loop variable), `clearRemappingStat`. All other actions wait while the loop runs,
so the pass is atomic to its environment. That is an assumption on Sniper, which
is not part of the repository: the periodic hook runs while all simulated threads
wait at the barrier.

The five branches of the loop body are `Recover`, `Combine`, `DisableSingle`,
`DisablePair` and `Keep`. `Target` is the search for the first coolest candidate,
in the range the code searches, which is not the range it means to search
(finding 1).

### DramCache

`sets` is `m_set`; a line has the tag and the three bit vectors as sets of blocks,
and its age. All rows of a bank are remapped and flushed together and a request
touches a single row, so a bank has one row. `unwritten` is the number of blocks
dirtied so far minus the code's `wb_blocks`; `outcome` is what the statistics
record about the last request. `ProcessRequest` is one action: `checkRemapping`,
then `Bypass`, `AccessPage` or `PageMiss` on the sets as the flush left them. The
shift by -1 that `accessBlock` does for block 0 is undefined in C++; the look-up
may give either answer.

### RamController

`readq`, `writeq`, `otherq` and `pending` are the queues, in order of arrival;
`state` and `row_state` the bank automaton of `RamDRAM`, `table` the row table,
`serving` the counter `cur_serving_requests`. `tick` is one call of
`RamController::tick` with its four phases: departures, refreshes that became due,
the switch of write mode, and one command. The last phase has four outcomes:
a queued refresh (`tickRefresh`), a command for a read or for a write, or none.

Abstractions: `check()` compares clock differences with the table of
`init_timing`, so each tick takes an arbitrary set of commands as ready, which
includes every timing table. Ranks are flattened into banks. A bank may become
due for a refresh at any tick unless its previous refresh is still queued; that
the intervals guarantee this is `RefreshesFit` of `DramSim`. At this commit
`DramModel` sends only writes to the controller; the model accepts reads as well,
as the controller's interface does.

### DramSim

An access (`StackedDramPerfUnison::getAccessLatency`) splits its set number
(`splitSetNum`, three address maps), takes the physical bank (`getPhysicalIndex`),
encodes it into an address (`writeRow`), and `RamMemory::send` decodes that into
channel, rank and bank. `req_queue` is the front end's queue, `chan` holds for each
channel the write queue, the refresh queue and the time since each bank's last
refresh. Times are distances: a packet's from `last_req_time`, the clock's from the
last refresh, so nothing grows without bound. The unsigned subtraction of packet
times is kept modulo `TimeWrap`. Each access ticks all channels (a transfer twice);
there is no other clock. Reads never enter `req_queue` in this code, so the read
queues stay empty. A tick that serves no refresh precharges for a write, completes
one, or does nothing the timers see; the scheduling itself is `RamController`.

`DramSimAssumption`: the refreshes of one rank fit into half an interval and the
banks of a channel fit into the refresh queue. The shipped configuration satisfies
it (2 * 130 + 7 + 8 < 1950; 8 <= 32). `GeometryAssumption`: two banks per rank, as in
every organisation of `HBM.h`, and a row number that fits into the device's rows.
`PowerAssumption` is the law 2^(i+j) = 2^i * 2^j for the widths of the address
fields: the provers know no exponentials, and TLC evaluates it.

### Coherence and CacheCntlr

`Coherence` has one variable, what each LLC may do with each line, and one action:
a cache drops permissions freely and gains one only when no other cache holds a
conflicting one. `CacheCntlr` implements it under the mapping of LLC states to
permissions (`Coherent`).

In `CacheCntlr` every node has a `stack` (its L1s and its LLC), one set `lock`, the
directory `waiters` of each line and a network thread `net`; every core has a user
thread (`pc`, `op`). A cell is a state and a ghost bit: is its data the value written
last? A user thread looks its L1 up under the shared lock (`FirstLevel`), then takes
the lock exclusively (`NextLevel`) and is served by the LLC (`Served`: hit, silent
upgrade, direct DRAM) or queues up (`InitiateDirectoryAccess`). `HandleRep`,
`WakeWaiters` and `ResumeWaiters` are the loop over the waiters of
`handleMsgFromDramDirectory`, with the lock passed to the woken thread and
signalled back in `Refill`; `HandleReq` answers INV, FLUSH and WB requests, or drops
them when an eviction is under way. `Prefetch`, `DoPrefetch` and `RefillPrefetch`
are the LLC's prefetcher. A failing assertion ends the program (`failed`).

External: the directory (a queue of requests per line, FIFO channels), the set
lock, DRAM, the replacement policy (any victim), the prefetcher (any suggestions,
`TrainPrefetcher` keeps those the LLC lacks). The list is filled on a miss and, with
`prefetch_on_prefetch_hit`, on a hit of a prefetched line; setting and mark are not
kept, so any hit of a prefetching LLC may fill it (`TrainOnHit`).
Left out: timing, statistics, MSHR occupancy, warm-up and usage bits, perfect,
pass-through and non-coherent caches.

### Thermal

`recordStats` is one action with everything it calls: the counters' snapshot, the
power of every unit, the rows of the trace in the order of the header, HotSpot's
reading of the columns into its layers, the answer in column order, `callHotSpot`'s
counting of columns, the refresh rate and the temperature of each bank, the
charging of accesses to hot and cool, `checkDTM` and `setGlobalFrequency`. `access`
is a DRAM access, `magic` the entry into the region of interest.

Powers are kept by what they are computed from (the accesses of the interval and
the doubled refresh), the solver may answer any of `ThermalMaps`, units are tuples,
and what the code matches by column number is matched by position. Length of the
interval, `power_scale`, the SQLite records and `dumpDramPowerTrace` are left out.

### GridNetwork and GridModel

`GridNetwork` gives for each node of the grid the links that the relaxation
(`single_iteration_steady_grid`), the slope function (`slope_fn_grid`) and the
SuperLU matrix (`build_steady_grid_matrix`) have, with resistances as names: two
encodings agree when they name the same resistance between the same nodes.
`GridModel` is the program around it: layers from the default stack or a layer
file, block-to-grid maps, the rows of the trace, one `rk4` solution per row,
steady state by nested multigrid or by SuperLU, and the temperature files.
Temperatures are ages (how many intervals went into a vector), powers densities,
lengths integers. The numerical solution, natural convection, the block model and
the files of powers are left out.

### Npe and Floorplan

`Npe` has the expression with the auxiliary arrays that the moves M1, M2 and M3
update piecemeal. `Floorplan` turns an expression into a slicing tree, adds and
sizes the shape curves, makes the plan with compaction, L2 and rim, evaluates it and
anneals. The curves, the sides of the L2 (`L2Size`), the hottest temperature
(`MaxTemp`) and acceptance of a worse plan are inputs. `giveUp` is the fatal of
`make_random_move` after `MAX_MOVES` tries. `shape_from_aspect`, reading and printing
are left out. The state machine is `FlpInit`, `FlpNext` and `FlpSpec`, its control is
`phase`: one proof module speaks of it and of `GridModel`.

## 3. Runs

| run | instance and question | result |
|---|---|---|
| `remapping` | 2 vaults of 2 banks, all temperature sequences over {0, 84, 86}, all policies and switches | `PairedBanks`, `NoHotService`, `EventsBalance`, `EnabledOnlyWhenCool`, `CoolBankRecovers` hold |
| `remapping_vault` | are targets inside the vault when `inter_vault` is off? | violated: finding 1 |
| `dramcache` | 2 banks, 3 pages, 2 ways: requests and ticks interleaved | `SetsConsistent`, `OutOfServiceIsEmpty`, `WritebackBalance`, `NoHotAccess` hold |
| `dramcache_content` | is the content of a bank marked valid still reachable? | violated: finding 2 |
| `ramcontroller` | 3 requests, 2 banks, 2 rows, queues of 3, any timing, any refreshes | `RowTableExact`, `ServingBalance`, `CoherentReads`, `ActivatedForARequest`, `RowHitsProtected`, `EventuallyDrained` hold |
| `dramsim` | 2 channels of 2 ranks of 2 banks; accesses to two sets, late and older packets, one bank turning hot and cool | `RefreshesFit`, `BankNumbersAgree`, `QueuedInWindow`, `WriteLatencyBounded` hold |
| `dramsim_banks` | does a write go to the bank of its set? | violated: finding 4 |
| `cachecntlr` | 4 cores, three of them on one of 2 LLCs, 2 lines that evict each other, seven configurations | `Inclusive`, `LatestKept`, `OneTransaction`, `LockPassed`, `OnlyKnownFailures`, `Coherent`, `Completes` hold |
| `cachecntlr_reads` | does a core read the value written last? | violated: finding 3 |
| `thermal` | 2 cores, 2 vaults of 2 banks, six temperature maps, five settings of DTM, one of them with the DRAM below the cores | `TemperaturesByColumn`, `HotAccessesExact`, `TransitionPaidOnce`, `HeatThrottles` hold |
| `gridmodel` | eight stacks, up to two calls of two rows | `NetworkConsistent`, `PowerConserved`, `SteadySolvesModel`, `StartsFromTheFile`, `TemperatureContinuity` hold |
| `floorplan` | 3 units with and without L2, rim and compaction | `PolishNormalized`, `PlanTiles`, `SizingOptimal`, `SlotsFollowBlocks`, `BestKept` hold |

**What the properties of the larger models say.**

- `Inclusive`, `LatestKept`: an L1 never has a line, or rights to it, that its LLC
  lacks; the value written last is in a dirty L1, the LLC, on its way to the
  directory or in DRAM, whatever evictions and invalidations cross each other.
- `OneTransaction`, `LockPassed`: a line has waiters exactly while one transaction
  for it is under way; a woken thread owns the lock it was given, is the first
  waiter, and may now do what it asked for.
- `OnlyKnownFailures`: of the controller's assertions only two can fail (see "Seen
  while modelling"); `Completes`: no thread waits for ever.
- `TemperaturesByColumn`: across the trace's order, HotSpot's layers and the columns
  `callHotSpot` counts, a bank is told the temperature of exactly one unit. With the
  cores below the DRAM it is the bank itself. With `perf_model/thermal/reverse` it is
  another one, `ReadUnit`, as many columns further on as cores and controllers have,
  because `callHotSpot` counts as in the other layout (see "Seen while modelling"). In
  `thermal` that unit is always part of a core; the theorem covers every size, where
  it may also be a bank or a controller.
- `HotAccessesExact`: an access to a bank reported hot is counted once;
  `TransitionPaidOnce`: one core of each changed domain pays; `HeatThrottles`:
  lasting heat leads to the lowest frequency, lasting coolness to the highest.
- `NetworkConsistent`: the three encodings describe one network on every grid of
  the multigrid; `PowerConserved`: cells carry the power of their blocks;
  `SteadySolvesModel`: the solution belongs to the model that was built, which is
  left as it was; `StartsFromTheFile`, `TemperatureContinuity`: where a call starts
  and that it goes on from the previous one.
- `PolishNormalized`: the moves keep expressions legal and their position arrays
  exact; `PlanTiles`: plans tile their box and fit the thermal model; `SizingOptimal`: adding the curves loses
  no smaller plan (checked against all choices of shapes); `SlotsFollowBlocks`:
  power and wires stay with their block; `BestKept`: the plan returned is the best.
- `RefreshesFit`: a refresh is served before the next one of its bank is due, so
  `assert(res)` holds; `BankNumbersAgree`: encoding, decoding, statistics and timers
  number banks alike; `QueuedInWindow`: an older packet closes the window instead of
  joining it; `WriteLatencyBounded`: the stall loop ends within one full queue.

**Bounds.** Temperatures matter only through the two thresholds and through
"coolest first": 0 is cool, 84 lies between the thresholds (83 and 85, the shipped
values), 86 is hot. Four banks are enough for two disjoint pairs, for a bank that
finds no target and for a target in a wrong vault. Three pages on two sets of two
ways give evictions once two banks are combined. In the channel, queues of three
make the write-mode thresholds `int(0.8*3) = 2` and `int(0.2*3) = 0` different
from each other and from the limit; `NReq` = 3 requests fill one queue.

In `cachecntlr` one-way caches make two lines evict each other; a configuration
bounds the operations of each core: one each for two siblings and a remote core
(siblings against a remote writer), one each for three cores of one LLC (two readers
and a writer that wait for one reply), two each for two cores (reuse after an
eviction, on one LLC and on two), three and two with direct DRAM. `PrefetchMax` = 0
leaves prefetch lists of one line. `thermal` has maps with a hot core, a hot
core unit, a bank above 85 and one above 95, so that averages and maxima, hot and
erroneous accesses differ; `MaxAccess` bounds the DRAM accesses. The grids of
`gridmodel` are up to 4 by 4, square and not, with blocks that end inside cells, on
their borders, and within one cell; `MaxCalls` = 2 and `MaxLines` = 2 are enough
for a second call and a second row. `floorplan` has three units (all three moves
apply) and `Nmax` = 3 annealing steps. In `dramsim`, `nREFI` = 20, `nRFC` = 2 and
`nRP` = 1 satisfy the assumption with little to spare, `RMax` bounds the front
end's queue, and the offsets -1, 1, 3 are an older packet, one inside and one
beyond the window of 2.

Deadlock is checked except where the program ends: `floorplan` returns its plan,
and in `cachecntlr` all operations complete.

**Fairness.** `Remapping!FairSpec`: the thermal tick is periodic and the loop ends.
`Thermal!FairSpec`: `recordStats` is called at every sampling interval.
`CacheCntlr!FairSpec`: some thread makes a step while one can; since each core's
operations are bounded, a weaker scheduler would only stop the simulator.
`RamController!FairSpec`: ticks go on; a queued REF is eventually let through; the
ticks with no refresh left in the queue recur, because nREFI (3900 cycles, half
of it for a hot bank) is far longer than the refreshes of all banks take; and
among those ticks a command for a waiting request is ready again and again,
because all timing distances are finite. The last two are strong fairness: a
refresh can pre-empt a request each time, so weak fairness would not exclude the
schedule in which it always does.

## 4. Findings

1. `remapping.cc:318`: without `inter_vault` the search runs over banks `vault_id ..
   vault_id + n_banks - 1` instead of the banks of the vault.
2. `remapping.cc:170`: a recovering bank takes its sets back while the pages cached
   meanwhile stay, dirty blocks included, in the partner, which stays marked valid.
   `WritebackBalance` still holds: those blocks are written back when they are
   evicted, but until then the page can be loaded a second time in its own bank.
3. `cache_cntlr.cc:668`: a core that reads a line its LLC holds MODIFIED gets it
   MODIFIED in its L1 while the sibling keeps it SHARED (the comment at line 922 says
   "will have shared state"); its next write hits without invalidating the sibling,
   which then reads the old value.
4. `remapping.cc:425`: `getPhysicalIndex` gives a bank number to `splitId`, which
   expects a row number, so every access is timed and counted in vault 0.
**Seen while modelling, without a run of their own.**

- `stats.cc:1109-1126`: with `perf_model/thermal/reverse` the trace starts with the
  banks (`dumpHotspotInputReverse`, line 932), but `callHotSpot` still takes columns
  0..39 for the cores, 40..71 for the controllers and the rest for the banks. Every
  bank is told the temperature of the unit 72 columns further on, another bank, a
  controller or part of a core, and refresh rate, remapping, DTM and hot accesses go
  by that unit, although the comments at lines 1127 and 1134 speak of the banks: "Here
  we log temperature and access of banks", "Here We Want to Update Temperature". The
  model does the same, `TemperaturesByColumn` says which unit it is, and
  `LayoutTheorem` proves that it is never the bank's own. The shipped configuration
  has `reverse = false`, where the columns agree.
- `dram_perf_model_normal.cc:86`: the valid bit is tested at `block_num - 1` and set
  at `block_num`.
- `RamController.cc:257`: `bank_reads`/`bank_writes` count commands, not requests.
- `cache_cntlr.cc:1953`, `:1732`: an upgrade whose line is invalidated before its
  reply arrives hits an assertion, and so does the eviction of a line that is being
  upgraded (the two failures `OnlyKnownFailures` allows).
- `cache_cntlr.cc:1962`: an upgrade reply makes every L1 copy of the node MODIFIED,
  although the comment at line 1959 says that it "Should invalidate all except the
  ones from the core that initiated the upgrade request". Until the writer that is
  woken next invalidates the others (line 885 ff.) several L1s hold the line
  MODIFIED; the exclusive lock covers that time. `Inclusive` states the exception,
  which only shows with two readers beside the writer on one LLC.
- `stats.cc:899`: the column of `l1i` adds the change of `inssch`'s power.
- `dram_sim.cc:225`: `updateLatency` repeats a write while the controller accepts it,
  so one write fills the queue; `dram_sim.cc:186`: a packet older than the last one
  counts as far later.
- `HBM.cc:107`: the prerequisite of REF looks for open banks one level too deep.
- HotSpot: `rk4` keeps the slope of the beginning when it retries (`RCutil.cc:321`);
  the slopes of the solder nodes omit the substrate; detailed 3D uses the
  neighbour's lateral resistance, so links are not symmetric; `read_temp_grid` clips
  with layer 0; `parse_layer_file` misses layer 0 given twice; SuperLU's arrays
  assume at least two rows and columns; `calculateTemperature` uses the grid's
  `last_temp` for the block model too.
- `npe.cc:314`: a move that succeeds at the 16th try still ends in the fatal.

## 5. Proofs

All theorems hold for every value of the constants allowed by the ASSUMEs beside
their declarations (at least one bank, `RemapThres <= HighThres`, positive queue
sizes and latency, ...).

`DramCacheProofs`, of the manager
- `TypeCorrect`, `PairingHolds` (`PairedBanks`): `PairedBanks` with `TypeOK` and `NoPairs`
  (outside policy 1 no bank is combined) is inductive for each single iteration of
  the loop, so it even holds inside the pass.
- `NoHotServiceHolds`: not inductive. The strengthening (`Passed`) restricts it to the
  serving banks the loop has already passed: an enabled bank that is served by one
  of them is not served by a hot one. A later iteration may combine a bank into an
  earlier one (the target is cool) or disable a pair, and neither breaks it.
- `EnabledOnlyWhenCoolHolds`: from `PairedBanks`, since recovery through the serving
  half also enables the partner.
- `EventsBalanceHolds`: each branch changes `OutOfService` by exactly one element
  (a pair already had one member out of service), by the cardinality theorems.

`DramCacheProofs`, of the controller
- `ControllerImplementsManager`: `CacheSpec => Spec`, so all results about the
  manager carry over to the composition.
- `NoHotAccessHolds`: from the manager's `NoHotService` and the guard of `Bypass`.
- `OutOfServiceIsEmptyHolds`: a bank goes out of service marked not valid, only the
  flush marks it valid again, and no request is directed to it before it is back.
- `CacheTypeCorrect`, `SetsConsistentHolds`: the way the look-up or the replacement
  chooses is a way of the set (`WayOfIsThere`, `ReplacementIsWay`), and a page
  enters only where no way holds it.
- `WritebackBalanceHolds`: `unwritten` equals the number of (bank, way, block) triples
  that are dirty. The lines are split into those the flush empties, the one the
  request touches and the rest; a flush takes out whole banks, a hit adds at most one
  triple, a miss takes out the victim's and adds at most one.

`RamControllerProofs`
- `RamTypeCorrect`, `RowTableHolds`, `RowHitsProtectedHolds`.
- `CoherentReadsHold`: needs `Numbered` (every queued request has a number below
  `sent`), so that a new write is younger than all queued reads; a new read whose
  address is queued for writing is answered from the queue.
- `ActivatedForARequestHolds`: the request that caused ACT stays in its queue until
  the row has been accessed, and an access sets the hit count.
- `ServingBalanceHolds`: the balance is a sum of counts over four queues
  (`BalanceIsCount`); appending, removing and replacing one request change a count
  by what the lemmas of `ProofLemmas` say (`CountAppend`, `CountRemoved`,
  `CountReplaced`).

`ThermalProofs`
- `ThermalInvariant`, `HotAccessesTheorem`: the counters agree with the snapshots
  after each interval, so the difference that is charged is what was counted.
- `TemperaturesTheorem`: the trace's header is a list of blocks of equal length;
  division with remainder gives for each column its unit and back. With the cores
  below the DRAM the counting of `callHotSpot` meets the column of the bank
  (`BankColumnUnit`); in the reverse layout it meets that of `ReadUnit`, among the
  banks, the controllers or the cores (`ReverseColumnUnit`).
- `LayoutTheorem`: hence every bank is told its own temperature in the first layout
  and no bank is in the second: `ReadUnit` is further on by at least one column.
- `DomainsTheorem`, `TransitionTheorem`: `setGlobalFrequency` is a recursive function
  over the cores; by induction a domain has the new period as soon as one of its
  cores has been passed, and only the first core of a domain finds a different one.

`DramSimProofs`
- `RefreshTheorem`: the invariant is a deadline. A request that has waited `w` ticks
  has, in the worst order, as much in front of it as `InFront` says: one tick for
  each request ahead, `nRFC` for each of the same rank. The time waited plus what is
  in front stays below half an interval, so the bank cannot become due while its
  request waits, and no bank is queued twice, which bounds the queue.
- `BankNumbersTheorem`: the address maps are mixed-radix numbers (`MixedRadix`), so
  encoding and decoding are inverse for every width of the fields.
- `WindowTheorem`, `WriteLatencyTheorem`: the loop that refuses a write drains one
  write a tick (`LatencyBound`), by induction over the length of the queue.

`CacheCntlrProofs`
- `CacheTypes` (`TypeOK`): the types are inductive only together with the threads of a
  node (`ThreadInv`): who holds the set lock and in which control state (`LockInv`),
  what each waiter of a line asked for and that no thread waits twice (`WaiterInv`), and
  that the network thread between `handoff` and `signalled` works on a line that has
  waiters (`NetInv`). Without these a woken thread might look up a line nobody named.
- `CacheInclusive` (`Inclusive`): for each node the L1 states stay below the LLC's and
  at most one L1 is dirty, but for the line whose upgrade is being handed over
  (`Exempt`); the woken writer takes the other copies away before the network thread
  goes on. The invariant also says that the line the network thread works on stays in
  the LLC (`Present`): a request for it meets waiters, so nobody turns it into an
  upgrading line, and the network thread itself handles no other message before it is
  done.
- `CacheLockPassed` (`LockPassed`): from `NetInv`, `Present` and `Granted` (the network
  thread wakes a writer only if the line is not SHARED).
- The operators on a node's caches are described once by predicates on the states of the
  lines (`HitServed`, `Upgraded`, `InsertedLLC`, `Copied`, `UpdatedLLC`, ...); an earlier
  form of `Inclusive` without the hand-over turned out not to hold when the step of the
  upgrade reply was proved, and was corrected in the model.

`CacheDirectoryProofs`
- `CacheOneTransaction` (`OneTransaction`): for a line of an LLC, requests sent, requests
  queued at the directory, replies sent and the line in the network thread's hands are
  counted (`CountIn`), and their sum is 1 if the line has waiters and 0 if not
  (`TransactionInv`). Each step moves one unit: `QueueTransactions` the first waiter's
  request, `DirReceiveTransactions` and `DirReplyTransactions` through the directory,
  `HandleRepTransactions` to the network thread, `ResumeTransactions` to the next waiter
  or to nobody. A reply that meets no waiter would break it; that is the assertion
  `reply without waiter`.
- `CacheCoherent` (`Coherent`): every step of `CacheCntlr` is a step of `Coherence` or
  leaves the permissions alone. The inductive invariant (`CoherenceInv`) has a clause
  `LineOK` for each line of each LLC, over the LLC's state, the directory's entry and
  the three views of what is under way (messages to the LLC, messages to the directory,
  queued requests): the directory knows of every copy, and of no copy that is not there,
  not being granted and not reported gone (`KnownInv`); a copy whose eviction is being
  reported is gone and no answer is on its way (`GoneInv`); a request does not overtake
  the report that the old copy is gone (`QueuedInv`, `SentInv`); a request of the directory
  that finds a copy is the one it waits for and comes behind every answer (`AskInv`).
  With `EntryInv` (a line with an owner has no sharers; who has been asked stands in
  the way of the first request) a copy that gains rights is alone, or shares with
  sharers (`OwnerAlone`). With direct DRAM access there is no directory, and the
  clause is `ActiveInv`: only the one LLC whose cores have operations holds lines. A
  step is a step of `Coherence` even if an assertion fails in it (`HandleRepChanges`).
- `CacheSingleWriter`: from `CacheCoherent`, by the invariant of `Coherence` alone.
- `CacheOnlyKnownFailures` (`OnlyKnownFailures`): needs `CoherenceInv` and what the L1 of
  a core has of the line it works on (`MissInv`): the first half of an atomic pair leaves
  the line MODIFIED; a thread that waits has dropped its copy, so its refill inserts a
  new one; a copy that missed is not dirty, unless an upgrade reply that another thread
  waits for has just made it so, and then the woken thread takes it away before the lock
  is free again. Each assertion is then met where it stands: those of the user threads
  (`UserWorks`), a reply without waiter (`OneUnderWay`), a reply or an upgrade reply for a
  line that is held (`FreshInv`), dirty data lost to an INV request (`AskInv` makes the
  LLC a sharer, so nobody owns the line). What is left are the two of `HandleRepWorks`.
- `CacheLatestKept` (`LatestKept`): the ghost bits of the messages and copies have an
  invariant of their own (`DataInv`), kept by every step in which no assertion fails,
  and inductive only together with all of the above. In a node (`NodeData`), a dirty L1
  copy has the value written last and so has the LLC's copy unless an L1 is dirty above
  it (`Good`); while a line is upgrading, and while the network thread goes through its
  waiters, every L1 copy has it (`Sharp`), because the upgrade reply makes all of them
  dirty at once. On the way, SH_REPs and EX_REPs carry it (`Carried`); FLUSH_REPs and
  WB_REPs carry it too, come from the LLC the directory takes for the owner, and are the
  only ones for their line (`Reports`), so that DRAM never gets an older value after a
  newer one. And DRAM has it unless an LLC is MODIFIED or such a message is under way.
  `LineOK` says that no other LLC has the line when a core writes it (`AloneCore`), so a
  write makes no copy stale but those of its own node, which the operation takes away
  first. The operators on a node's caches have a second predicate for it, which follows
  the bits (`PrevData`, `UpdateData`, `CopyData`), and `Kind` for what they have in
  common: no data is lost, and no line of the LLC changes but to MODIFIED. `DataInv` was
  model-checked on the instance of `cachecntlr` before it was proved.

`HotSpotProofs`
- `GridTemperaturesContinue` (`TemperatureContinuity`): between calls `init` is as old as
  the grid's temperatures, during a call `temp` is, and from the first transient row of
  a call on `last_temp` is `temp` (`AgeInv`); the three meet where the call ends.
- `SteadyStateSolvesModel` (`SteadySolvesModel`): `SolveInv`. The rows and columns of the
  grid in use times 2 to the number of divisions are the configured ones, there are as
  many finer grids on the stack, and their sides are powers of two, so that halving
  loses nothing (`Halves`; without the assumption on the sides, which is the code's
  check, it is false); the average power is at the bottom of the stack; every cell
  is guessed before an iteration and solved after it. The last needs that the fine
  cells `interpolate` and `copy` write are all there are, each with weights that add up
  to 16 (`FineCellWritten`, `InterpolationAverages`).
- `GridStartsFromTheFile` (`StartsFromTheFile`): the stretches of the layers in a vector
  follow one another without gap (`BaseAdds`), so each place belongs to one layer
  (`LayerFound`, `LayerUnique`); a line's name is the only one of its kind in its layer's
  stretch, forwards or backwards, and has its block's value (`FileReadBack`).
  That `power2` obeys its recursive definition is itself proved, by induction on sets
  of numbers (`Power2Exists`).
- `ExpressionsStayNormalized` (`PolishNormalized`): `PolishInv`, that each of the three
  expressions of the annealing is `Polish`: its elements are units and cuts, and its
  other fields are what a scan of them gives (`Scanned`). Moves M1 and M2 leave the
  pattern of units and cuts as it was, and with it all that is scanned
  (`PatternDecides`). M3 moves one unit to the free place beside it, which keeps the
  rank of every unit (`ShiftedRank`): so `update_unit_pos` may change one entry and the
  array stays sorted. Of the ballot counts only the one at the position changes
  (`SwappedBallots`), and the test of the count behind it is just strong enough. No M3
  is fatal, as the first two elements are always units (`FlipIsInside`).
- `PlansHaveTheirBlocks` (`SlotsFollowBlocks`): `SlotInv`. Between two plans the slots
  are those of the slicing tree, where no dead block has a wire, though slots behind
  them keep wires of earlier plans (`Ready`); a plan is a function of its expression
  (`PlanOf`, `PlanParts`), and the wires between its slots are those of its blocks:
  `copy_l2_info` overwrites what an earlier L2 left in its slots, the loop at the end of
  `flp_wrap_rim` what is behind them (`PlanWires`), and `restore_dead_blocks` takes away
  what was left in slots of dead blocks (`RestoredReady`). Every plan trims the source
  vector, and writes every slot that an earlier plan wrote (`TrimPlan`). The geometry
  does not matter: `slotUnits` and `rimStrips` stay unexpanded, but for there being at
  most one dead block per cut (`KeptBound`).
- `CostsStayFresh` (`CostsFresh`, the first part of `BestKept`): from the same invariant,
  as the cost reads only what `PlanOf` fixes (`CostOfPlan`); here costs may be anything.
- `BestPlanKept` (`BestKept`): of every behaviour whose costs are numbers
  (`CostsAreNumbers`). That hypothesis is not proved: a cost is a sum over blocks whose
  sides recursive functions compute, plus the input `MaxTemp`. TLC meets no other cost
  (it could not compare one).
  `SlotPowerAssumption` says that a power file names no dead block and
  `WireAssumption` that wires join units of the description.

`ProofLemmas` proves induction over Nat, over an interval and over the subsets of a
finite set in first-order form (the predicate is a set), and from these that sums
and counts unfold one element at a time. The library's own induction theorems take
an operator as a parameter, which none of the provers can instantiate.

Only model-checked: liveness (`CoolBankRecovers`, `EventuallyDrained`, `Completes`,
`HeatThrottles`), which the prover has no rules for; `NetworkConsistent` and
`PowerConserved`, which compare the nine kinds of matrix rows and the overlaps of
blocks and cells case by case; `PlanTiles` and `SizingOptimal` of `Floorplan`, which
speak of what recursive functions (slicing trees, sums of curves) compute; and that the
costs `BestKept` compares are numbers.

## 6. Plan

What is worth doing next, in this order:

1. `Floorplan`: that costs are numbers (types of curves and places from the leaves up),
   the hypothesis of `BestPlanKept`, and `PlanTiles` by induction on the slicing tree.
2. `GridModel`: `PowerConserved`, by induction on the finer grids of the multigrid.

## 7. Not modelled

Latencies and energy (numbers without influence on control), the numerical part of
HotSpot's solver, its block model (`temperature_block.cc`; `stats.cc` always
asks for the grid), natural convection (`package` routines), SQLite
statistics, configuration parsing, the row counters of `BankStat::accessRow` (nothing
reads the map they fill), the stacked LLC's power model, scripts, and code
that nothing calls (`remapTo`, `migrateRow`, the other row and scheduling policies
of ramulator, power-down and self-refresh, `page_allocator`). The alloy and
constant-latency DRAM caches are alternatives the shipped configurations do not
use. `cache_set_page_lru.cc` contains unresolved merge-conflict markers and does
not compile.
