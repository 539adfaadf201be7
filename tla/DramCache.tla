------------------------------ MODULE DramCache ------------------------------
(***************************************************************************)
(* The stacked DRAM cache controller (StackDramCacheCntlrUnison) on top of *)
(* the remapping manager: page-granular sets with valid, dirty and         *)
(* footprint bits, the footprint history table, and ProcessRequest with    *)
(* the checkRemapping call that first applies what the manager decided.    *)
(*                                                                         *)
(* All rows of a bank are remapped and invalidated together and a request  *)
(* touches one row, so one row per bank is modelled: set b is the row of   *)
(* bank b.  Latencies and access counters are left out; what they record   *)
(* about the last request is kept in `outcome'.                            *)
(***************************************************************************)
EXTENDS Remapping

CONSTANTS
  Page,          \* page_tag: page numbers of the (translated) address space
  NBlocks,       \* blocks of a page; 31 in the code
  Assoc,         \* m_associativity
  NoPage         \* the tag ~0 of an empty way

ASSUME CacheAssumption ==
  /\ Page \subseteq Nat
  /\ NoPage \notin Page
  /\ NBlocks \in Nat \ {0}
  /\ Assoc \in Nat \ {0}

Block == 0 .. NBlocks - 1
Way == 0 .. Assoc - 1

\* SplitAddress: the set is the low part of the page number, the tag all of it.
Home(p) == p % TotBanks

VARIABLES
  sets,        \* m_set: the ways of each set
  fht,         \* FHT: block number of a page miss -> footprint
  unwritten,   \* blocks dirtied by writes so far minus wb_blocks
  outcome      \* of the last request: see Outcome

cacheVars == <<sets, fht, unwritten, outcome>>
allVars == <<vars, cacheVars>>

Line == [tag : Page \cup {NoPage}, vbits : SUBSET Block, dbits : SUBSET Block,
         footprint : SUBSET Block, used : Nat]

\* result: how accessAttempt ended; block: the block asked for; present: was its
\* valid bit set; hot: did accessRow count the access as _hot_access.
Outcome == [result : {"none", "disabled", "page_miss", "block_miss", "hit"},
            block : Block, present : BOOLEAN, hot : BOOLEAN]

\* The constructor of DramCachePageInfo, and what invalidate() leaves.
EmptyLine == [tag |-> NoPage, vbits |-> Block, dbits |-> {}, footprint |-> {}, used |-> 0]
EmptySet == [w \in Way |-> EmptyLine]

CacheInit ==
  /\ Init
  /\ sets = [b \in Bank |-> EmptySet]
  /\ fht = [k \in Block |-> {}]
  /\ unwritten = 0
  /\ outcome = [result |-> "none", block |-> 0, present |-> FALSE, hot |-> FALSE]

(***************************************************************************)
(* Operations on one set                                                   *)
(***************************************************************************)

Holds(set, p) == \E w \in Way : set[w].tag = p

WayOf(set, p) == CHOOSE w \in Way :
  set[w].tag = p /\ \A x \in Way : set[x].tag = p => w <= x

\* accessBlock: the valid bit is looked up at block_num - 1, while the bits of
\* block_num are set.  For block 0 the shift count is -1: undefined, so any value.
LooksValid(line, k) == IF k = 0 THEN BOOLEAN ELSE {(k - 1) \in line.vbits}

accessBlock(line, write, k) ==
  [line EXCEPT !.vbits = @ \cup {k},
               !.dbits = IF write THEN @ \cup {k} ELSE @,
               !.footprint = @ \cup {k}]

\* getReplacementIndex: the first way with the largest usage.
getReplacementIndex(set) == CHOOSE w \in Way :
  \A x \in Way : set[x].used < set[w].used \/ (set[x].used = set[w].used /\ w <= x)

\* updateUsedInfo: the other ways age, but only if this one was not at 0.
updateUsedInfo(set, w) ==
  IF set[w].used = 0
    THEN set
    ELSE [x \in Way |-> [set[x] EXCEPT !.used = IF x = w THEN 0 ELSE @ + 1]]

\* Mutant of replace: the victim is not invalidated, only its tag and valid bits
\* change.
replaceTag(set, w, p, footprint) ==
  updateUsedInfo([set EXCEPT ![w].tag = p, ![w].vbits = footprint], w)

\* invalidate() and updateReplacementIndexTag on way w.
replace(set, w, p, footprint) ==
  updateUsedInfo([set EXCEPT ![w] = [EmptyLine EXCEPT !.tag = p, !.vbits = footprint]], w)

\* getDirtyBlocks over the sets of some banks.
DirtyBlocks(content, banks) ==
  Cardinality({x \in banks \X Way \X Block : x[3] \in content[x[1]][x[2]].dbits})

(***************************************************************************)
(* checkRemapping: after a thermal tick the sets of every bank marked      *)
(* invalid are written back and emptied, once, before the request.         *)
(***************************************************************************)

\* Mutant of Flushed: a bank combined into another is not flushed.
FlushedDisabled == {b \in Bank : remapped /\ ~valid[b] /\ disabled[b]}

Flushed == {b \in Bank : remapped /\ ~valid[b]}

SetsNow == [b \in Bank |-> IF b \in Flushed THEN EmptySet ELSE sets[b]]

checkRemapping == clearRemappingStat \/ (~remapped /\ UNCHANGED vars)

(***************************************************************************)
(* ProcessRequest                                                          *)
(***************************************************************************)

\* The home bank, or the whole stacked DRAM, is disabled.
Bypassed(p) == disabled[Home(p)] \/ config.off

\* The request goes to memory; nothing but a pending flush touches the cache.
Bypass(p, k) ==
  /\ Bypassed(p)
  /\ sets' = SetsNow
  /\ unwritten' = unwritten - DirtyBlocks(sets, Flushed)
  /\ outcome' = [result |-> "disabled", block |-> k, present |-> FALSE, hot |-> FALSE]
  /\ UNCHANGED fht

\* Mutant of getRemapSet: the set of the address.
getHomeSet(p) == Home(p)

\* The set that serves p: getRemapSet follows logical_id and keeps the row.
getRemapSet(p) == logical[Home(p)]

\* The page is there.
AccessPage(p, write, k) ==
  LET s == getRemapSet(p)
      w == WayOf(SetsNow[s], p)
      line == SetsNow[s][w]
  IN /\ ~Bypassed(p)
     /\ Holds(SetsNow[s], p)
     /\ sets' = [SetsNow EXCEPT ![s][w] = accessBlock(line, write, k)]
     /\ unwritten' = unwritten - DirtyBlocks(sets, Flushed)
                     + (IF write /\ k \notin line.dbits THEN 1 ELSE 0)
     /\ \E v \in LooksValid(line, k) :
          outcome' = [result |-> IF v THEN "hit" ELSE "block_miss",
                      block |-> k, present |-> k \in line.vbits, hot |-> Hot(s)]
     /\ UNCHANGED fht

\* Mutant of PageMiss: the victim's dirty blocks are not written back.
PageMissDropDirty(p, k) ==
  LET s == getRemapSet(p)
      w == getReplacementIndex(SetsNow[s])
      victim == SetsNow[s][w]
  IN /\ ~Bypassed(p)
     /\ ~Holds(SetsNow[s], p)
     /\ fht' = [fht EXCEPT ![k] = victim.footprint]
     /\ sets' = [SetsNow EXCEPT ![s] = replace(SetsNow[s], w, p, fht[k])]
     /\ unwritten' = unwritten - DirtyBlocks(sets, Flushed)
     /\ outcome' = [result |-> "page_miss", block |-> k, present |-> FALSE, hot |-> Hot(s)]

\* The page is not there: evict, learn the victim's footprint, load the footprint
\* predicted for this block.  The missing block itself is not marked.
PageMiss(p, k) ==
  LET s == getRemapSet(p)
      w == getReplacementIndex(SetsNow[s])
      victim == SetsNow[s][w]
  IN /\ ~Bypassed(p)
     /\ ~Holds(SetsNow[s], p)
     /\ fht' = [fht EXCEPT ![k] = victim.footprint]
     /\ sets' = [SetsNow EXCEPT ![s] = replace(SetsNow[s], w, p, fht[k])]
     /\ unwritten' = unwritten - DirtyBlocks(sets, Flushed) - Cardinality(victim.dbits)
     /\ outcome' = [result |-> "page_miss", block |-> k, present |-> FALSE, hot |-> Hot(s)]

ProcessRequest ==
  \E p \in Page, write \in BOOLEAN, k \in Block :
    /\ Idle
    /\ checkRemapping
    /\ Bypass(p, k) \/ AccessPage(p, write, k) \/ PageMiss(p, k)

CacheNext ==
  \/ ProcessRequest
  \/ runMechanism /\ UNCHANGED cacheVars
  \/ callHotSpot /\ UNCHANGED cacheVars

CacheSpec == CacheInit /\ [][CacheNext]_allVars

(***************************************************************************)
(* Properties                                                              *)
(***************************************************************************)

CacheTypeOK ==
  /\ TypeOK
  /\ sets \in [Bank -> [Way -> Line]]
  /\ fht \in [Block -> SUBSET Block]
  /\ unwritten \in Int
  /\ outcome \in Outcome

\* A set never holds a page twice, and a dirty block of a page it holds has been
\* touched (footprint) and is valid.
SetsConsistent ==
  \A b \in Bank, w \in Way : sets[b][w].tag # NoPage =>
    /\ \A x \in Way : sets[b][x].tag = sets[b][w].tag => x = w
    /\ sets[b][w].dbits \subseteq sets[b][w].footprint
    /\ sets[b][w].footprint \subseteq sets[b][w].vbits

\* A bank taken out of service (disabled, or combined into another bank) holds no
\* page, unless its flush is still pending: no dirty block is left behind there.
OutOfServiceIsEmpty ==
  \A b \in Bank : (disabled[b] \/ logical[b] # b) /\ valid[b] => sets[b] = EmptySet

\* Every block dirtied by a write is still dirty in the cache or has been counted
\* as written back exactly once, across evictions and flushes.
WritebackBalance == unwritten = DirtyBlocks(sets, Bank)

\* While remapping is enabled no request is ever served by a hot bank
\* (remapping.cc counts such an access as _hot_access and calls it a fault).
NoHotAccess == EnableRemap /\ NRemap # 2 => ~outcome.hot

\* remapping.h: "valid: indicate whether the content of bank is still valid".
\* The pages found in a bank marked valid are pages that bank serves.
ValidContent ==
  Idle => \A b \in Bank, w \in Way :
    valid[b] /\ sets[b][w].tag # NoPage => getRemapSet(sets[b][w].tag) = b
==============================================================================
