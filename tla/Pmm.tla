-------------------------------- MODULE Pmm --------------------------------
(***************************************************************************)
(* The physical memory manager of AIkOS (src/src/kernel/mm.c, ADR-012): a   *)
(* bitmap with one bit per page, built once from the firmware's E820 table, *)
(* and three operations on it.  Pages are numbered 0 .. NPages-1; the code  *)
(* returns i * PMM_PAGE_SIZE, and its failure value 0 is page number 0.     *)
(***************************************************************************)
EXTENDS Integers, Sequences, FiniteSets

CONSTANTS
  NPages,        \* PMM_BITMAP_PAGES, the pages the bitmap covers
  PageSize,      \* bytes of a page (PMM_PAGE_SIZE), so that rounding is real
  MaxEntries,    \* E820 entries that pmm_init looks at (64 in the code)
  E820Tables,    \* the tables the firmware may leave at 0x5000
  LowPages,      \* pages of [0, 1 MiB)
  KernelStart,   \* byte addresses _kernel_start and _kernel_end
  KernelEnd,
  UserFirst,     \* first page of the user region (0x200000)
  BlobEnd,       \* end of the pages reserved for the user blobs (0x240000)
  UserEnd,       \* end of the user region (0x400000, elf.c USER_REGION_END)
  FsEnd          \* end of the ramdisk, which starts at UserEnd (0x440000)

Pages == 0 .. NPages - 1

(* An E820 entry: a byte range and its type, 1 meaning usable memory.        *)
E820Entry == [base : Nat, len : Nat, type : Nat]

ASSUME PmmAssumption ==
  /\ NPages \in Nat \ {0}
  /\ PageSize \in Nat \ {0}
  /\ MaxEntries \in Nat
  /\ E820Tables \subseteq Seq(E820Entry)
  /\ LowPages \in Nat \ {0}
  /\ KernelStart \in Nat /\ KernelEnd \in Nat
  /\ {UserFirst, BlobEnd, UserEnd, FsEnd} \subseteq Nat

VARIABLES
  e820,            \* the table at 0x5000, written by the boot sector only
  pmm_bitmap,      \* the pages whose bit is set (used)
  pmm_free_count,  \* the counter the code keeps beside the bitmap
  held             \* history: pages handed out and not given back

pmmVars == <<e820, pmm_bitmap, pmm_free_count, held>>

----------------------------------------------------------------------------
(* pmm_init                                                                 *)

(* Mutant: the start of an entry is rounded down like its end.              *)
EntryPagesRoundedDown(e) ==
  {p \in Pages : /\ e.base \div PageSize <= p
                 /\ p < (e.base + e.len) \div PageSize}

(* The pages pmm_init clears for one entry: the start is rounded up, the    *)
(* end down, so a page partly outside the entry stays used; pmm_mark drops  *)
(* pages above the bitmap.                                                  *)
EntryPages(e) ==
  {p \in Pages : /\ (e.base + PageSize - 1) \div PageSize <= p
                 /\ p < (e.base + e.len) \div PageSize}

Usable(table) ==
  UNION {EntryPages(table[n]) :
           n \in {m \in 1 .. Len(table) : m <= MaxEntries /\ table[m].type = 1}}

(* Mutant: the kernel range excludes the page that _kernel_end lies in.     *)
ReservedKernelExclusive ==
  {p \in Pages : \/ p < LowPages
                 \/ KernelStart \div PageSize <= p /\ p < KernelEnd \div PageSize
                 \/ UserFirst <= p /\ p < BlobEnd
                 \/ UserEnd <= p /\ p < FsEnd}

(* Low memory, the kernel image (its last page included), the user blobs    *)
(* and the ramdisk.  The page tables and the bitmap at 0x9000..0xD000 are   *)
(* part of low memory.                                                      *)
Reserved ==
  {p \in Pages : \/ p < LowPages
                 \/ KernelStart \div PageSize <= p /\ p <= KernelEnd \div PageSize
                 \/ UserFirst <= p /\ p < BlobEnd
                 \/ UserEnd <= p /\ p < FsEnd}

pmm_init ==
  /\ e820 \in E820Tables
  /\ pmm_bitmap = (Pages \ Usable(e820)) \cup Reserved
  /\ pmm_free_count = Cardinality(Pages \ pmm_bitmap)
  /\ held = {}

----------------------------------------------------------------------------
(* The operations; callers decide what the page is for.                     *)

(* The n pages starting at page i.                                          *)
Run(i, n) == i .. i + n - 1

(* The starts pmm_alloc_contiguous(n) accepts: the run fits the bitmap and  *)
(* is entirely free.  (PmmScan checks that the skipping scan of the code    *)
(* finds the least of them.)                                                *)
FreeRuns(n) == {i \in Pages : i + n <= NPages /\ Run(i, n) \cap pmm_bitmap = {}}

IsFirst(i, S) == i \in S /\ \A k \in S : i <= k

(* pmm_mark of each page of the run, and the counter.                       *)
TakeRun(i, n) ==
  /\ pmm_bitmap' = pmm_bitmap \cup Run(i, n)
  /\ pmm_free_count' = pmm_free_count - n
  /\ held' = held \cup Run(i, n)
  /\ UNCHANGED e820

(* Mutant: the search stops before the last page of the bitmap.             *)
pmm_alloc_page_not_last(i) ==
  IF Pages \ {NPages - 1} \subseteq pmm_bitmap
  THEN i = 0 /\ UNCHANGED pmmVars
  ELSE IsFirst(i, Pages \ pmm_bitmap) /\ TakeRun(i, 1)

(* pmm_alloc_page: first fit; 0 (no page) when nothing is free.             *)
pmm_alloc_page(i) ==
  IF Pages \subseteq pmm_bitmap
  THEN i = 0 /\ UNCHANGED pmmVars
  ELSE IsFirst(i, Pages \ pmm_bitmap) /\ TakeRun(i, 1)

(* pmm_alloc_contiguous: first fit; 0 when the request is out of range or   *)
(* no run is long enough.                                                   *)
pmm_alloc_contiguous(n, i) ==
  IF n = 0 \/ n > NPages \/ FreeRuns(n) = {}
  THEN i = 0 /\ UNCHANGED pmmVars
  ELSE IsFirst(i, FreeRuns(n)) /\ TakeRun(i, n)

(* Mutant: the counter is incremented whether or not the page was in use.   *)
pmm_free_page_unchecked(p) ==
  /\ pmm_bitmap' = pmm_bitmap \ {p}
  /\ pmm_free_count' = IF p # 0 THEN pmm_free_count + 1 ELSE pmm_free_count
  /\ held' = held \ {p}
  /\ UNCHANGED e820

(* pmm_free_page: NULL and a page whose bit is already clear are ignored.   *)
pmm_free_page(p) ==
  IF p # 0 /\ p \in pmm_bitmap
  THEN /\ pmm_bitmap' = pmm_bitmap \ {p}
       /\ pmm_free_count' = pmm_free_count + 1
       /\ held' = held \ {p}
       /\ UNCHANGED e820
  ELSE UNCHANGED pmmVars

(* Callers free pages they hold, NULL, or by mistake a page freed before:   *)
(* every page they could name is a page they were given once.               *)
PmmNext ==
  \/ \E i \in Pages : pmm_alloc_page(i)
  \/ \E n \in 0 .. NPages + 1, i \in Pages : pmm_alloc_contiguous(n, i)
  \/ \E p \in held \cup {0} \cup (Pages \ pmm_bitmap) : pmm_free_page(p)

PmmSpec == pmm_init /\ [][PmmNext]_pmmVars

----------------------------------------------------------------------------
(* Properties                                                               *)

(* The values the variables range over.                                     *)
PmmTypeOK ==
  /\ e820 \in E820Tables
  /\ pmm_bitmap \subseteq Pages
  /\ pmm_free_count \in Nat
  /\ held \subseteq Pages

(* The counter agrees with the bitmap after every mixture of single-page    *)
(* and run allocations, failed requests, frees and repeated frees (mm.c:91, *)
(* 103, 124); being unsigned in the code, it also never wraps below zero.   *)
FreeCountExact == pmm_free_count = Cardinality(Pages \ pmm_bitmap)

(* A page that was handed out stays marked until it is given back, so no    *)
(* later request can hand it out again, and it is never the failure value.  *)
HeldStaysMarked == held \subseteq pmm_bitmap /\ 0 \notin held

(* No page handed out belongs to low memory, to the kernel image up to its  *)
(* last byte (mm.c:69-71), to the user blobs or to the ramdisk.             *)
HeldAvoidsReserved ==
  \A p \in held : \A a \in p * PageSize .. (p + 1) * PageSize - 1 :
     /\ a >= LowPages * PageSize
     /\ ~(KernelStart <= a /\ a <= KernelEnd)
     /\ ~(UserFirst * PageSize <= a /\ a < BlobEnd * PageSize)
     /\ ~(UserEnd * PageSize <= a /\ a < FsEnd * PageSize)

(* Every byte of a page that is free or handed out lies in RAM the firmware *)
(* reported usable: rounding never frees a page with a hole in it, and no   *)
(* sequence of frees brings one into circulation (mm.c:60, 101).            *)
PagesAreRam ==
  \A p \in (Pages \ pmm_bitmap) \cup held :
     \E n \in 1 .. Len(e820) :
        /\ e820[n].type = 1
        /\ e820[n].base <= p * PageSize
        /\ (p + 1) * PageSize <= e820[n].base + e820[n].len
=============================================================================
