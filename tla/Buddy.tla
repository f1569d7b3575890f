------------------------------- MODULE Buddy -------------------------------
(***************************************************************************)
(* The kernel heap of AIkOS (src/src/kernel/buddy.c, ADR-017), a binary     *)
(* buddy allocator over the pages of mm.c, together with the other user of  *)
(* those pages, proc_build_address_space (proc.c).                          *)
(*                                                                          *)
(* A call of kmalloc or kfree is a sequence of steps, one per iteration of  *)
(* its loops.  The kernel has one thread and its interrupt handlers never   *)
(* allocate (buddy.c:6), so while pc is not "idle" only the next step of    *)
(* the call in progress is enabled.                                         *)
(***************************************************************************)
EXTENDS Pmm, Functions

CONSTANTS
  MaxOrder,     \* BUDDY_MAX_ORDER
  Size,         \* Size[k] = 2^k, the pages of a block of order k
  HeaderSize,   \* BUDDY_HEADER_SIZE, in bytes
  SizeT,        \* 2^64, where a size_t wraps
  Uint32,       \* 2^32, where a uint32_t wraps
  Requests,     \* the sizes clients ask kmalloc for, in bytes
  InitHeaders,  \* what memory may hold where the heap looks for a header
  ClientData,   \* what client data may look like there
  MaxLive       \* bound: blocks clients hold at a time

Orders == 0 .. MaxOrder

(* What a page's first 16 bytes say when read as a struct buddy_header.     *)
(* "NONE" stands for every magic that is neither BUDDY_MAGIC_FREE nor       *)
(* BUDDY_MAGIC_ALLOC.  free_next is not here: the lists are sequences.      *)
Header == [magic : {"FREE", "ALLOC", "NONE"}, order : Orders]

ASSUME BuddyAssumption ==
  /\ MaxOrder \in Nat
  /\ Size \in [Orders -> Nat]
  /\ Size[0] = 1
  /\ \A k \in Orders : k # 0 => Size[k] = 2 * Size[k - 1]
  /\ \A j, k \in Orders : j <= k => Size[j] <= Size[k]
  /\ HeaderSize \in Nat
  /\ {SizeT, Uint32} \subseteq Nat \ {0} /\ Uint32 * PageSize <= SizeT
  /\ Requests \subseteq 0 .. SizeT - 1
  /\ InitHeaders \subseteq [Pages -> Header]
  /\ ClientData \subseteq Header
  /\ MaxLive \in Nat

VARIABLES
  \* The allocator's own state.
  free_lists,        \* free_lists[k]: the blocks of order k, head first
  hdr,               \* the header each page would be read as
  allocated_blocks,
  pool_base,         \* page numbers; 0 is "not set yet"
  pool_limit,
  \* History: who has what.
  live,              \* blocks clients hold: [base, order, size asked for]
  pulls,             \* runs obtained from the pmm: [run, base, order]
  tables,            \* pages used as page tables by proc_build_address_space
  \* The call in progress: its position and its locals.
  pc,
  size,              \* kmalloc's argument
  order,             \* kmalloc: order wanted
  block,             \* the block being split, granted or merged
  level,             \* the order that block has now
  bit,               \* loops over the slack: bits bit-1 .. 0 remain
  rem,               \* slack pages not yet put on a list
  tail,              \* tail_pages
  p                  \* cursor of those loops

heapVars == <<free_lists, hdr, allocated_blocks, pool_base, pool_limit>>
ghostVars == <<live, pulls, tables>>
callVars == <<pc, size, order, block, level, bit, rem, tail, p>>
vars == <<pmmVars, heapVars, ghostVars, callVars>>

Extent(b, k) == Run(b, Size[k])

(* The call returns to its client and its locals are gone.                  *)
Return ==
  /\ pc' = "idle" /\ size' = 0 /\ order' = 0 /\ block' = 0 /\ level' = 0
  /\ bit' = 0 /\ rem' = 0 /\ tail' = 0 /\ p' = 0

----------------------------------------------------------------------------
(* The free lists: intrusive LIFO lists.                                    *)

FREE(k) == [magic |-> "FREE", order |-> k]

(* Mutant: the header of the pushed block keeps its old order.              *)
buddy_list_push_stale(k, b) ==
  /\ free_lists' = [free_lists EXCEPT ![k] = <<b>> \o @]
  /\ hdr' = [hdr EXCEPT ![b].magic = "FREE"]

buddy_list_push(k, b) ==
  /\ free_lists' = [free_lists EXCEPT ![k] = <<b>> \o @]
  /\ hdr' = [hdr EXCEPT ![b] = FREE(k)]

(* Callers see b # NULL: the list is not empty.  The magic stays.           *)
buddy_list_pop(k, b) ==
  /\ free_lists[k] # <<>>
  /\ b = Head(free_lists[k])
  /\ free_lists' = [free_lists EXCEPT ![k] = Tail(@)]

(* Mutant: the list is left as it is.                                       *)
buddy_list_unlink_missing(k, i) == UNCHANGED free_lists

(* buddy_list_unlink of the i-th element of the list.                       *)
buddy_list_unlink(k, i) ==
  free_lists' = [free_lists EXCEPT ![k] = SubSeq(@, 1, i - 1) \o SubSeq(@, i + 1, Len(@))]

----------------------------------------------------------------------------
(* kmalloc *)

(* Mutant: the header is forgotten.                                         *)
PagesForNoHeader(n) == (((n + PageSize - 1) % SizeT) \div PageSize) % Uint32

(* The pages a request needs, header included: the sums wrap in a size_t,   *)
(* and the quotient is cut to the uint32_t it is kept in.                   *)
PagesFor(n) == (((n + HeaderSize + PageSize - 1) % SizeT) \div PageSize) % Uint32

(* The loop that shifts v right until it is zero.                           *)
BitLength[v \in Nat] == IF v = 0 THEN 0 ELSE 1 + BitLength[v \div 2]

OrderFor(n) == LET k == IF n > 1 THEN BitLength[n - 1] ELSE 0
               IN IF k > MaxOrder THEN MaxOrder ELSE k

(* Entry of kmalloc(n): size 0 and more pages than the largest block are    *)
(* refused with NULL before anything is touched.                            *)
kmalloc(n) ==
  /\ pc = "idle" /\ Cardinality(live) < MaxLive
  /\ n # 0 /\ PagesFor(n) <= Size[MaxOrder]
  /\ pc' = "get"
  /\ size' = n
  /\ order' \in Orders /\ order' = OrderFor(PagesFor(n))
  /\ UNCHANGED <<pmmVars, heapVars, ghostVars, block, level, bit, rem, tail, p>>

(* buddy_get_block finds the smallest order, from the one wanted up, whose  *)
(* list is not empty, and pops its head.                                    *)
PopSmallest ==
  /\ pc = "get"
  /\ \E j \in Orders, b \in Pages :
        /\ IsFirst(j, {k \in Orders : k >= order /\ free_lists[k] # <<>>})
        /\ buddy_list_pop(j, b)
        /\ block' = b /\ level' = j
  /\ pc' = "split"
  /\ UNCHANGED <<pmmVars, hdr, allocated_blocks, pool_base, pool_limit,
                 ghostVars, size, order, bit, rem, tail, p>>

(* Mutant: the half that is kept is the one that is listed.                 *)
SplitWrongHalf ==
  /\ pc = "split" /\ level > order
  /\ level' = level - 1
  /\ buddy_list_push(level - 1, block)
  /\ UNCHANGED <<pmmVars, allocated_blocks, pool_base, pool_limit, ghostVars,
                 pc, size, order, block, bit, rem, tail, p>>

(* One iteration of the loop that splits down: the upper half is listed.    *)
SplitDown ==
  /\ pc = "split" /\ level > order
  /\ level' = level - 1
  /\ buddy_list_push(level - 1, block + Size[level - 1])
  /\ UNCHANGED <<pmmVars, allocated_blocks, pool_base, pool_limit, ghostVars,
                 pc, size, order, block, bit, rem, tail, p>>

NoListedBlock == \A k \in Orders : k >= order => free_lists[k] = <<>>

(* Nothing is listed: pull the block plus enough slack to align it from the *)
(* pmm.  The run starts at i, the aligned block at b.                       *)
Pull ==
  /\ pc = "get" /\ NoListedBlock
  /\ FreeRuns(2 * Size[order] - 1) # {}
  /\ \E i \in Pages : \E b \in i .. i + Size[order] - 1 :
        /\ pmm_alloc_contiguous(2 * Size[order] - 1, i)
        /\ b % Size[order] = 0
        /\ block' = b /\ p' = b
        /\ rem' = b - i
        /\ tail' = Size[order] - 1 - (b - i)
        /\ pulls' = pulls \cup {[run |-> i, base |-> b, order |-> order]}
  /\ pc' = "head"
  /\ level' = order
  /\ bit' = MaxOrder
  /\ UNCHANGED <<heapVars, live, tables, size, order>>

(* The pmm has no run long enough: kmalloc returns NULL.                    *)
OutOfMemory ==
  /\ pc = "get" /\ NoListedBlock
  /\ pmm_alloc_contiguous(2 * Size[order] - 1, 0)
  /\ FreeRuns(2 * Size[order] - 1) = {}
  /\ Return
  /\ UNCHANGED <<heapVars, ghostVars>>

(* Mutant: the loop counter moves only when the bit is set.                 *)
HeadSlackStuck ==
  /\ pc = "head" /\ bit > 0
  /\ IF rem >= Size[bit - 1]
     THEN /\ bit' = bit - 1
          /\ rem' = rem - Size[bit - 1]
          /\ p' = p - Size[bit - 1]
          /\ buddy_list_push(bit - 1, p - Size[bit - 1])
     ELSE UNCHANGED <<bit, rem, p, free_lists, hdr>>
  /\ UNCHANGED <<pmmVars, allocated_blocks, pool_base, pool_limit, ghostVars,
                 pc, size, order, block, level, tail>>

(* One iteration over the head slack, from the aligned base down.  The bit  *)
(* is set in the page count exactly when what remains reaches its weight.   *)
HeadSlack ==
  /\ pc = "head" /\ bit > 0
  /\ bit' = bit - 1
  /\ IF rem >= Size[bit - 1]
     THEN /\ rem' = rem - Size[bit - 1]
          /\ p' = p - Size[bit - 1]
          /\ buddy_list_push(bit - 1, p - Size[bit - 1])
     ELSE UNCHANGED <<rem, p, free_lists, hdr>>
  /\ UNCHANGED <<pmmVars, allocated_blocks, pool_base, pool_limit, ghostVars,
                 pc, size, order, block, level, tail>>

(* Mutant: the tail loop starts one bit too low.                            *)
HeadDoneLowBit ==
  /\ pc = "head" /\ bit = 0
  /\ pc' = "tail"
  /\ bit' = MaxOrder - 1
  /\ rem' = tail
  /\ p' = block + Size[order]
  /\ UNCHANGED <<pmmVars, heapVars, ghostVars, size, order, block, level, tail>>

(* Between the two loops the cursor moves to the end of the block.          *)
HeadDone ==
  /\ pc = "head" /\ bit = 0
  /\ pc' = "tail"
  /\ bit' = MaxOrder
  /\ rem' = tail
  /\ p' = block + Size[order]
  /\ UNCHANGED <<pmmVars, heapVars, ghostVars, size, order, block, level, tail>>

(* One iteration over the tail slack, from the end of the block up.         *)
TailSlack ==
  /\ pc = "tail" /\ bit > 0
  /\ bit' = bit - 1
  /\ IF rem >= Size[bit - 1]
     THEN /\ rem' = rem - Size[bit - 1]
          /\ p' = p + Size[bit - 1]
          /\ buddy_list_push(bit - 1, p)
     ELSE UNCHANGED <<rem, p, free_lists, hdr>>
  /\ UNCHANGED <<pmmVars, allocated_blocks, pool_base, pool_limit, ghostVars,
                 pc, size, order, block, level, tail>>

(* The pool grows over the aligned block, which is pushed and popped again: *)
(* the list is as before, the header says FREE.                             *)
TailDone ==
  /\ pc = "tail" /\ bit = 0
  /\ pc' = "split"
  /\ pool_base' = IF pool_base = 0 \/ block < pool_base THEN block ELSE pool_base
  /\ pool_limit' = IF pool_limit = 0 \/ block + Size[order] > pool_limit
                   THEN block + Size[order] ELSE pool_limit
  /\ hdr' = [hdr EXCEPT ![block] = FREE(order)]
  /\ UNCHANGED <<pmmVars, free_lists, allocated_blocks, ghostVars,
                 size, order, block, level, bit, rem, tail, p>>

(* kmalloc writes the header and returns the block.                         *)
Grant ==
  /\ pc = "split" /\ level = order
  /\ hdr' = [hdr EXCEPT ![block] = [magic |-> "ALLOC", order |-> order]]
  /\ allocated_blocks' = allocated_blocks + 1
  /\ live' = live \cup {[base |-> block, order |-> order, size |-> size]}
  /\ Return
  /\ UNCHANGED <<pmmVars, free_lists, pool_base, pool_limit, pulls, tables>>

----------------------------------------------------------------------------
(* kfree *)

(* Mutant: allocated_blocks is not decremented.                             *)
kfreeUncounted(l) ==
  /\ pc = "idle"
  /\ live' = live \ {l}
  /\ block' = l.base
  /\ level' = hdr[l.base].order
  /\ pc' = "merge"
  /\ UNCHANGED <<pmmVars, heapVars, pulls, tables, size, order, bit, rem, tail, p>>

(* Entry of kfree for a block l that a client holds.  A header that is not  *)
(* an allocated block's makes the call return at once: the client has given *)
(* the block away and the heap has not taken it.                            *)
kfree(l) ==
  /\ pc = "idle"
  /\ live' = live \ {l}
  /\ IF hdr[l.base].magic = "ALLOC"
     THEN /\ allocated_blocks' = allocated_blocks - 1
          /\ block' = l.base
          /\ level' = hdr[l.base].order
          /\ pc' = "merge"
     ELSE UNCHANGED <<allocated_blocks, block, level, pc>>
  /\ UNCHANGED <<pmmVars, free_lists, hdr, pool_base, pool_limit, pulls, tables,
                 size, order, bit, rem, tail, p>>

(* Mutant: the buddy is always taken to be the block above.                 *)
BuddyAbove(b, k) == b + Size[k]

(* block ^ Size[k]                                                          *)
BuddyOf(b, k) == IF (b \div Size[k]) % 2 = 0 THEN b + Size[k] ELSE b - Size[k]

(* The loop condition and its three breaks: the buddy's page is in the      *)
(* pool, reads as a free block of this order, and is element i of the list. *)
Mergeable(b, k, i) ==
  /\ BuddyOf(b, k) >= pool_base /\ BuddyOf(b, k) < pool_limit
  /\ hdr[BuddyOf(b, k)] = FREE(k)
  /\ IsFirst(i, {n \in DOMAIN free_lists[k] : free_lists[k][n] = BuddyOf(b, k)})

(* Mutant: a header that reads as free is believed, listed or not.          *)
MergeUpUnlisted ==
  /\ pc = "merge" /\ level < MaxOrder
  /\ BuddyOf(block, level) >= pool_base /\ BuddyOf(block, level) < pool_limit
  /\ hdr[BuddyOf(block, level)] = FREE(level)
  /\ \/ \E i \in DOMAIN free_lists[level] :
           Mergeable(block, level, i) /\ buddy_list_unlink(level, i)
     \/ /\ \A i \in DOMAIN free_lists[level] : ~Mergeable(block, level, i)
        /\ UNCHANGED free_lists
  /\ block' = IF BuddyOf(block, level) < block THEN BuddyOf(block, level) ELSE block
  /\ level' = level + 1
  /\ UNCHANGED <<pmmVars, hdr, allocated_blocks, pool_base, pool_limit, ghostVars,
                 pc, size, order, bit, rem, tail, p>>

(* One iteration that merges.                                               *)
MergeUp ==
  /\ pc = "merge" /\ level < MaxOrder
  /\ \E i \in DOMAIN free_lists[level] :
        Mergeable(block, level, i) /\ buddy_list_unlink(level, i)
  /\ block' = IF BuddyOf(block, level) < block THEN BuddyOf(block, level) ELSE block
  /\ level' = level + 1
  /\ UNCHANGED <<pmmVars, hdr, allocated_blocks, pool_base, pool_limit, ghostVars,
                 pc, size, order, bit, rem, tail, p>>

(* Mutant: a block of the largest order is not listed again.                *)
MergeDoneBelowTop ==
  /\ pc = "merge"
  /\ \/ level = MaxOrder /\ UNCHANGED <<free_lists, hdr>>
     \/ /\ \A i \in DOMAIN free_lists[level] : ~Mergeable(block, level, i)
        /\ level < MaxOrder /\ buddy_list_push(level, block)
  /\ Return
  /\ UNCHANGED <<pmmVars, allocated_blocks, pool_base, pool_limit, ghostVars>>

(* The loop ends; the merged block is listed once, at its final order.      *)
MergeDone ==
  /\ pc = "merge"
  /\ \/ level = MaxOrder
     \/ \A i \in DOMAIN free_lists[level] : ~Mergeable(block, level, i)
  /\ buddy_list_push(level, block)
  /\ Return
  /\ UNCHANGED <<pmmVars, allocated_blocks, pool_base, pool_limit, ghostVars>>

----------------------------------------------------------------------------
(* The rest of the machine, as far as it touches the heap's memory.         *)

(* A client writes to a page of its block other than the first (the one     *)
(* with the header); the page may come to look like any header.             *)
ClientWrites(l, q, h) ==
  /\ pc = "idle"
  /\ q \in Extent(l.base, l.order) \ {l.base}
  /\ hdr' = [hdr EXCEPT ![q] = h]
  /\ UNCHANGED <<pmmVars, free_lists, allocated_blocks, pool_base, pool_limit,
                 ghostVars, callVars>>

(* proc_build_address_space takes three pages, once, and fills them; none   *)
(* of their entries reads as a header's magic.  When the pmm is exhausted   *)
(* the page is page 0 (the code does not test for NULL).                    *)
proc_build_address_space ==
  /\ \/ pc = "idle" /\ tables = <<>>
     \/ pc = "build"
  /\ \E i \in Pages :
        /\ pmm_alloc_page(i)
        /\ tables' = Append(tables, i)
        /\ hdr' = [hdr EXCEPT ![i] = [magic |-> "NONE", order |-> 0]]
  /\ pc' = IF Len(tables) = 2 THEN "idle" ELSE "build"
  /\ UNCHANGED <<free_lists, allocated_blocks, pool_base, pool_limit, live, pulls,
                 size, order, block, level, bit, rem, tail, p>>

----------------------------------------------------------------------------
buddy_init ==
  /\ free_lists = [k \in Orders |-> <<>>]
  /\ allocated_blocks = 0
  /\ pool_base = 0 /\ pool_limit = 0

Init ==
  /\ pmm_init
  /\ buddy_init
  /\ hdr \in InitHeaders
  /\ live = {} /\ pulls = {} /\ tables = <<>>
  /\ pc = "idle" /\ size = 0
  /\ order = 0 /\ block = 0 /\ level = 0
  /\ bit = 0 /\ rem = 0 /\ tail = 0 /\ p = 0

(* A step of the call in progress.                                          *)
CallStep ==
  \/ PopSmallest
  \/ SplitDown
  \/ Pull
  \/ OutOfMemory
  \/ HeadSlack
  \/ HeadDone
  \/ TailSlack
  \/ TailDone
  \/ Grant
  \/ MergeUp
  \/ MergeDone

Next ==
  \/ \E n \in Requests : kmalloc(n)
  \/ \E l \in live : kfree(l)
  \/ \E l \in live, q \in Pages, h \in ClientData : ClientWrites(l, q, h)
  \/ proc_build_address_space
  \/ CallStep

(* The CPU keeps executing the call it is in.                               *)
Spec == Init /\ [][Next]_vars /\ WF_vars(CallStep)

----------------------------------------------------------------------------
(* Properties *)

(* The values the variables range over.                                     *)
TypeOK ==
  /\ PmmTypeOK
  /\ free_lists \in [Orders -> Seq(Pages)]
  /\ hdr \in [Pages -> Header]
  /\ allocated_blocks \in Int
  /\ pool_base \in Nat /\ pool_limit \in Nat
  /\ live \subseteq [base : Pages, order : Orders, size : Requests]
  /\ pulls \subseteq [run : Pages, base : Pages, order : Orders]
  /\ tables \in Seq(Pages)
  /\ pc \in {"idle", "get", "split", "head", "tail", "merge", "build"}
  /\ size \in Nat
  /\ order \in Orders /\ level \in Orders
  /\ block \in Pages
  /\ bit \in 0 .. MaxOrder
  /\ rem \in Nat /\ tail \in Nat /\ p \in Nat

(* The blocks on the lists, as [base, order] pairs.                         *)
FreeBlocks == {x \in Pages \X Orders : x[1] \in Range(free_lists[x[2]])}

(* The pages the call in progress has in its hands.                         *)
InFlight ==
  CASE pc = "split" -> Extent(block, level)
    [] pc = "merge" -> Extent(block, level)
    [] pc = "head"  -> Run(p - rem, rem) \cup Run(block, Size[order] + tail)
    [] pc = "tail"  -> Extent(block, order) \cup Run(p, rem)
    [] OTHER        -> {}

PulledPages == UNION {Run(r.run, 2 * Size[r.order] - 1) : r \in pulls}

(* No page has two owners: a block is listed once, listed blocks do not     *)
(* overlap each other, blocks clients hold do not overlap each other, and   *)
(* neither overlap the other or what the call in progress is splitting,     *)
(* carving or merging.  This is what keeps the header writes of push, pop   *)
(* and unlink out of client data (buddy.c:29-33, 54) and two clients apart. *)
NoOverlap ==
  /\ \A k \in Orders : IsInjective(free_lists[k])
  /\ \A x, y \in FreeBlocks : x # y => Extent(x[1], x[2]) \cap Extent(y[1], y[2]) = {}
  /\ \A l, m \in live : l # m => Extent(l.base, l.order) \cap Extent(m.base, m.order) = {}
  /\ \A x \in FreeBlocks, l \in live :
        Extent(x[1], x[2]) \cap Extent(l.base, l.order) = {}
  /\ \A x \in FreeBlocks : Extent(x[1], x[2]) \cap InFlight = {}
  /\ \A l \in live : Extent(l.base, l.order) \cap InFlight = {}

(* The heap and the page tables of the process never share a page, and the  *)
(* heap uses only pages the pmm gave it: a merge that trusted a header read *)
(* from somebody else's page in the gap between two pulls would break this  *)
(* (buddy.c:206-215).                                                       *)
HeapWithinPulled ==
  /\ \A x \in FreeBlocks : Extent(x[1], x[2]) \subseteq PulledPages
  /\ \A l \in live : Extent(l.base, l.order) \subseteq PulledPages
  /\ InFlight \subseteq PulledPages
  /\ PulledPages \subseteq held
  /\ Range(tables) \cap PulledPages = {}

(* The page tables of the process are three different pages, or NULL where  *)
(* the pmm had nothing left: proc_build_address_space does not look at what *)
(* pmm_alloc_page returns (proc.c:47-49).                                   *)
TablesNullOnlyWhenFull ==
  /\ \A m, n \in DOMAIN tables : m # n /\ tables[m] = tables[n] => tables[m] = 0
  /\ 0 \in Range(tables) => Pages \subseteq pmm_bitmap

(* No page is lost: whatever was pulled is on a list, with a client or in   *)
(* the hands of the call in progress; the slack loops lay out every page of *)
(* the head and the tail (buddy.c:109-128).                                 *)
NoPageLost ==
  \A q \in PulledPages :
     \/ \E x \in FreeBlocks : q \in Extent(x[1], x[2])
     \/ \E l \in live : q \in Extent(l.base, l.order)
     \/ q \in InFlight

(* The header of a listed block says free and names the list it is on; the  *)
(* header of a block a client holds is the one kfree accepts, whatever was  *)
(* split, merged, or written to neighbouring pages meanwhile.               *)
HeadersTruthful ==
  /\ \A x \in FreeBlocks : hdr[x[1]] = FREE(x[2])
  /\ \A l \in live : hdr[l.base] = [magic |-> "ALLOC", order |-> l.order]

(* A block of order k has room for n bytes and the header, if n is one of   *)
(* the sizes whose page count a uint32_t can hold, up to 2^44 - 4112 bytes: *)
(* the only callers, fs_read with a uint32_t (fs.c:217) and heaptest        *)
(* (repl.c:305, 338, 387), ask for no more.                                 *)
Fits(n, k) ==
  n + HeaderSize <= (Uint32 - 1) * PageSize => n + HeaderSize <= Size[k] * PageSize

(* A block has room for the request and for its header, through every split *)
(* and pull, for all sizes the page count can express (buddy.c:147-163).    *)
(* Larger requests are made in the run too: some get a block that is too    *)
(* small, which the other properties then hold of.                          *)
BlockFits == \A l \in live : Fits(l.size, l.order)

(* heap_stats: the free pages, and the largest order with a block, or -1.   *)
FreePagesBelow[k \in 0 .. MaxOrder + 1] ==
  IF k = 0 THEN 0 ELSE FreePagesBelow[k - 1] + Len(free_lists[k - 1]) * Size[k - 1]

LargestOrder ==
  IF \A k \in Orders : free_lists[k] = <<>> THEN -1
  ELSE CHOOSE k \in Orders : /\ free_lists[k] # <<>>
                             /\ \A j \in Orders : j > k => free_lists[j] = <<>>

(* What the heap command and heaptest rely on between calls: the counter    *)
(* equals the blocks clients hold, and the free pages reported are exactly  *)
(* the pages pulled and not held by a client (buddy.c:174, 196, 229-254).   *)
HeapStatsExact ==
  pc = "idle" =>
    /\ allocated_blocks = Cardinality(live)
    /\ FreePagesBelow[MaxOrder + 1] =
         Cardinality(PulledPages) - Cardinality(UNION {Extent(l.base, l.order) : l \in live})
    /\ (LargestOrder = -1) <=> (FreeBlocks = {})

(* Once every client has freed everything, each aligned block that was ever *)
(* pulled is whole again, inside one listed block: splitting is undone by   *)
(* coalescing whatever the order of the frees was.                          *)
PulledBlocksRejoin ==
  pc = "idle" /\ live = {} =>
    \A r \in pulls : \E x \in FreeBlocks :
       Extent(r.base, r.order) \subseteq Extent(x[1], x[2])

(* kmalloc and kfree return: the split, slack and merge loops terminate.    *)
CallsReturn == (pc # "idle" /\ pc # "build") ~> (pc = "idle")

(* The heap keeps the promise of HeapSpec: what clients hold changes only   *)
(* by getting a run of pages nobody has and by giving back one block.       *)
H == INSTANCE HeapSpec WITH
       owned <- {Extent(l.base, l.order) : l \in live},
       other <- Range(tables)

ImplementsHeapSpec == H!HSpec

(* kfree "walks back to the buddy and merges" (ADR-017:20), and slack is    *)
(* decomposed so that there is no "silent permanent fragmentation"          *)
(* (buddy.c:91-95).  No pull is laid out as two buddies, so two listed      *)
(* buddies inside one pull are halves that a split made and that the free   *)
(* of the second half did not merge.                                        *)
SplitHalvesMerge ==
  pc = "idle" =>
    \A r \in pulls : \A x, y \in FreeBlocks :
       /\ x[2] = y[2] /\ x[2] < MaxOrder
       /\ {x[1], y[1]} \subseteq Run(r.run, 2 * Size[r.order] - 1)
       => y[1] # BuddyOf(x[1], x[2])
=============================================================================
