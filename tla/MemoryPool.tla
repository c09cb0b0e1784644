----------------------------- MODULE MemoryPool -----------------------------
(***************************************************************************)
(* The memory pool of MemManager/memory_pool.c: columns of block lengths   *)
(* with their counts, a tree of free and a tree of used blocks, and the    *)
(* lists of blocks buffer_malloc hands out.  A tree is the bag of its keys *)
(* (RbTree shows the search in order of size that getMemBlockSizeNode      *)
(* relies on).  malloc may fail in any call.                               *)
(***************************************************************************)
EXTENDS Integers, Sequences, FiniteSets, FiniteSetsExt, SequencesExt

CONSTANTS
  MAX_COLUME_NUM,  \* columns of the pool, 10 in memory_pool.h
  Configs,         \* what buffer_pool_init is called with: pairs of lengths and counts
  Sizes,           \* sizes asked of buffer_malloc
  WORD,            \* unsigned counts wrap at this value, 2^32
  MaxLists,        \* lists handed out at one time (bound)
  MaxBlocks        \* blocks the pool may grow to (bound)

\* What the constants are.
PoolAssumption ==
  /\ MAX_COLUME_NUM \in Nat \ {0}
  /\ WORD \in Nat /\ WORD > 2 * MaxBlocks
  /\ MaxLists \in Nat /\ MaxBlocks \in Nat
  /\ \A c \in Configs : Len(c.len) = Len(c.count)

VARIABLES
  config,      \* the configuration, fixed before the pool is initialised
  phase,       \* "new", "up", "crashed" (division by zero) or "undefined"
  initOk,      \* buffer_pool_init returned 0
  block_len, block_total_count, block_used_count,
  free_tree, used_tree,  \* key -> number of blocks
  lists,       \* the lists handed out and not yet freed
  asked,       \* the size each was asked for
  created,     \* history: blocks ever allocated
  stranded     \* history: per key, blocks that failed calls took and forgot

countVars == <<block_len, block_total_count, block_used_count>>
treeVars == <<free_tree, used_tree>>
histVars == <<created, stranded>>
vars == <<config, phase, initOk, countVars, treeVars, lists, asked, histVars>>

Columns == 0 .. MAX_COLUME_NUM - 1
Keys == UNION {ToSet(c.len) : c \in Configs}
Zero == [i \in Columns |-> 0]
NoBlocks == [k \in Keys |-> 0]

Init ==
  /\ config \in Configs
  /\ phase = "new" /\ initOk = FALSE
  /\ block_len = Zero /\ block_total_count = Zero /\ block_used_count = Zero
  /\ free_tree = NoBlocks /\ used_tree = NoBlocks
  /\ lists = <<>> /\ asked = <<>> /\ created = 0 /\ stranded = NoBlocks

-----------------------------------------------------------------------------
\* The test of buffer_pool_init that guards the column arrays.
Fits(colume_no) == colume_no <= MAX_COLUME_NUM

\* Column i of the configuration, of which `done` columns are dealt with: the
\* counts are kept only if the configuration fits, the blocks in any case.
Filled(i, done, seq) == IF Fits(Len(config.len)) /\ i < done THEN seq[i + 1] ELSE 0

\* buffer_pool_init; a failing malloc leaves the pool with the columns before
\* it, the column it was at, and part of that column's blocks.
buffer_pool_init ==
  /\ phase = "new"
  /\ phase' = "up"
  /\ \E done \in 0 .. Len(config.len), part \in 0 .. MaxBlocks :
       /\ initOk' = (done = Len(config.len))
       /\ done = Len(config.len) => part = 0
       /\ done < Len(config.len) => part < config.count[done + 1]
       /\ LET set == IF initOk' THEN done ELSE done + 1
              blocks(j) == IF j <= done THEN config.count[j] ELSE IF j = done + 1 THEN part ELSE 0
          IN /\ block_len' = [i \in Columns |-> Filled(i, set, config.len)]
             /\ block_total_count' = [i \in Columns |-> Filled(i, set, config.count)]
             /\ free_tree' = [k \in Keys |->
                  MapThenSumSet(LAMBDA j : IF config.len[j] = k THEN blocks(j) ELSE 0, DOMAIN config.len)]
             /\ created' = MapThenSumSet(blocks, DOMAIN config.len)
  /\ UNCHANGED <<config, block_used_count, used_tree, lists, asked, stranded>>

-----------------------------------------------------------------------------
\* Mutant of After: the rest is rounded up only when it fills the block.
AfterNever(rest, len) == rest % len

\* What is left to cover after the column of length len: a rest of more than
\* half a block takes a whole one.
After(rest, len) == IF rest % len > len \div 2 THEN 0 ELSE rest % len

\* Blocks of length len taken for rest bytes.
Need(rest, len) == rest \div len + (IF rest % len > len \div 2 THEN 1 ELSE 0)

\* InorderSearchMemblockSize: the smallest free block of at least len, 0 if none.
BestFit(free, len) ==
  LET fit == {k \in Keys : k >= len /\ free[k] > 0}
  IN IF fit = {} THEN 0 ELSE Min(fit)

\* An unsigned difference, and that difference as an int.
Unsigned(a) == a % WORD
Signed(a) == IF a % WORD < WORD \div 2 THEN a % WORD ELSE (a % WORD) - WORD

\* Mutant of TakeFree: the block is not put into the used tree.
TakeFreeUncounted(s, i, n) ==
  LET len == block_len[i]
      times == Max({0, n})
      take[k \in 0 .. times] ==
        IF k = 0 THEN s
        ELSE LET t == take[k - 1]
                 key == BestFit(t.free, len)
                 got == IF key = 0 THEN len ELSE key
             IN IF key = 0 /\ t.mallocs = 0 THEN t
                ELSE [t EXCEPT !.free = IF key = 0 THEN @ ELSE [@ EXCEPT ![key] = @ - 1],
                               !.mallocs = IF key = 0 THEN @ - 1 ELSE @,
                               !.list = Append(@, got),
                               !.usedCount[i] = Unsigned(@ + 1)]
  IN take[times]

\* getMemBlockSizeNode n times over, for a column whose counts promise n free
\* blocks: each from the free tree, or a new one if none is large enough, or
\* none if that malloc fails.
TakeFree(s, i, n) ==
  LET len == block_len[i]
      times == Max({0, n})
      take[k \in 0 .. times] ==
        IF k = 0 THEN s
        ELSE LET t == take[k - 1]
                 key == BestFit(t.free, len)
                 got == IF key = 0 THEN len ELSE key
             IN IF key = 0 /\ t.mallocs = 0 THEN t
                ELSE [t EXCEPT !.free = IF key = 0 THEN @ ELSE [@ EXCEPT ![key] = @ - 1],
                               !.mallocs = IF key = 0 THEN @ - 1 ELSE @,
                               !.list = Append(@, got),
                               !.used[got] = @ + 1,
                               !.usedCount[i] = Unsigned(@ + 1)]
  IN take[times]

\* New blocks for the rest of the column's need, until a malloc fails.
MakeNew(s, i, n) ==
  LET made == IF n < s.mallocs THEN n ELSE s.mallocs
  IN [s EXCEPT !.list = @ \o [j \in 1 .. made |-> block_len[i]],
               !.used[block_len[i]] = @ + made,
               !.usedCount[i] = Unsigned(@ + made),
               !.total[i] = @ + made,
               !.mallocs = @ - made,
               !.failed = made < n]

\* One column of buffer_malloc.
Column(s, i) ==
  LET need == Need(s.rest, block_len[i])
      free == Signed(s.total[i] - s.usedCount[i])
      t == [s EXCEPT !.rest = After(s.rest, block_len[i])]
  IN IF need <= free THEN TakeFree(t, i, need)
     ELSE MakeNew(TakeFree(t, i, free), i, need - free)

\* The columns from the last to the first, while something is left to cover.
\* A column of length 0 divides by zero; a failed malloc ends the call.
Allocation(size, mallocs) ==
  LET s0 == [rest |-> size, free |-> free_tree, used |-> used_tree, usedCount |-> block_used_count,
             total |-> block_total_count, list |-> <<>>, mallocs |-> mallocs, failed |-> FALSE, crash |-> FALSE]
      upto[i \in 0 .. MAX_COLUME_NUM] ==
        IF i = 0 THEN s0
        ELSE LET s == upto[i - 1]
                 c == MAX_COLUME_NUM - i
             IN IF s.rest = 0 \/ s.failed \/ s.crash THEN s
                ELSE IF block_len[c] = 0 THEN [s EXCEPT !.crash = TRUE]
                ELSE Column(s, c)
  IN upto[MAX_COLUME_NUM]

\* Blocks of a list with key k.
Held(list, k) == Cardinality({j \in DOMAIN list : list[j] = k})

\* buffer_malloc: on failure NULL, and the blocks taken so far stay used.
buffer_malloc(size) ==
  /\ phase = "up"
  /\ Len(lists) < MaxLists
  /\ \E mallocs \in 0 .. MaxBlocks :
       LET s == Allocation(size, mallocs) IN
       /\ FoldFunction(+, 0, s.total) <= MaxBlocks
       /\ phase' = IF s.crash THEN "crashed" ELSE "up"
       /\ free_tree' = s.free /\ used_tree' = s.used
       /\ block_used_count' = s.usedCount /\ block_total_count' = s.total
       /\ lists' = IF s.failed \/ s.crash THEN lists ELSE Append(lists, s.list)
       /\ asked' = IF s.failed \/ s.crash THEN asked ELSE Append(asked, size)
       /\ created' = created + mallocs - s.mallocs
       /\ stranded' = [k \in Keys |-> stranded[k] + IF s.failed \/ s.crash THEN Held(s.list, k) ELSE 0]
  /\ UNCHANGED <<config, initOk, block_len>>

\* Mutant of Returned: the used count is taken down once per list.
ReturnedOnce(list, i) == IF block_len[i] \in ToSet(list) THEN 1 ELSE 0

\* Blocks of a list that buffer_free counts out of column i.
Returned(list, i) == Cardinality({j \in DOMAIN list : list[j] = block_len[i]})

\* buffer_free: every block of the list from the used to the free tree.
buffer_free(l) ==
  /\ phase = "up"
  /\ l \in DOMAIN lists
  /\ block_used_count' = [i \in Columns |-> Unsigned(block_used_count[i] - Returned(lists[l], i))]
  /\ used_tree' = [k \in Keys |-> used_tree[k] - Held(lists[l], k)]
  /\ free_tree' = [k \in Keys |-> free_tree[k] + Held(lists[l], k)]
  /\ lists' = RemoveAt(lists, l) /\ asked' = RemoveAt(asked, l)
  /\ UNCHANGED <<config, phase, initOk, block_len, block_total_count, histVars>>

\* destoryTree frees a node and then reads it to go on to the node's right
\* child: it is defined for an empty tree only.
destoryTree(tree) == IF tree = NoBlocks THEN phase ELSE "undefined"

\* buffer_pool_destory, of a pool that was initialised or not: the counts stay.
buffer_pool_destory ==
  /\ phase \in {"new", "up"}
  /\ phase' = IF destoryTree(free_tree) = phase THEN destoryTree(used_tree) ELSE "undefined"
  /\ UNCHANGED <<config, initOk, countVars, treeVars, lists, asked, histVars>>

Next ==
  \/ buffer_pool_init
  \/ buffer_pool_destory
  \/ \E size \in Sizes : buffer_malloc(size)
  \/ \E l \in 1 .. MaxLists : buffer_free(l)

Spec == Init /\ [][Next]_vars

-----------------------------------------------------------------------------
\* The columns the pool was given are all of different length, as many as it has.
Sound == initOk /\ Len(config.len) = MAX_COLUME_NUM

\* Types.
TypeOK ==
  /\ config \in Configs /\ phase \in {"new", "up", "crashed", "undefined"} /\ initOk \in BOOLEAN
  /\ block_len \in [Columns -> Keys \cup {0}]
  /\ block_total_count \in [Columns -> 0 .. MaxBlocks] /\ block_used_count \in [Columns -> 0 .. WORD - 1]
  /\ free_tree \in [Keys -> Nat] /\ used_tree \in [Keys -> Nat]
  /\ \A l \in DOMAIN lists : ToSet(lists[l]) \subseteq Keys
  /\ Len(asked) = Len(lists)
  /\ created \in Nat /\ stranded \in [Keys -> Nat]

\* The counts of a sound pool describe its trees: used and free blocks of
\* each length, through every allocation, growth, failed malloc and release.
CountsDescribeTrees ==
  Sound => \A i \in Columns :
    /\ used_tree[block_len[i]] = block_used_count[i]
    /\ free_tree[block_len[i]] = block_total_count[i] - block_used_count[i]

\* Every block ever allocated is in one of the two trees, and the used ones
\* are exactly those in the callers' lists and those a failed call forgot.
BlocksAccounted ==
  /\ MapThenSumSet(LAMBDA k : free_tree[k] + used_tree[k], Keys) = created
  /\ \A k \in Keys :
       used_tree[k] = stranded[k] + MapThenSumSet(LAMBDA l : Held(lists[l], k), DOMAIN lists)

\* buffer_malloc gives less than it was asked for by at most half of the
\* smallest block, and never more than half a block too much
\* (memory_pool.c:312).
ShortByHalfABlock ==
  Sound => \A l \in DOMAIN lists :
    LET sum == FoldSeq(+, 0, lists[l])
        least == Min(ToSet(config.len))
        most == Max(ToSet(config.len))
    IN /\ sum >= asked[l] - least \div 2
       /\ sum <= asked[l] + most \div 2

\* buffer_malloc divides by zero only in a pool with fewer or more columns
\* than MAX_COLUME_NUM, or after an initialisation that failed
\* (memory_pool.c:260, :310).
CrashOnlyIfMisconfigured == phase = "crashed" => ~Sound
=============================================================================
