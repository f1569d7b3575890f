----------------------------- MODULE PmmProofs -----------------------------
(***************************************************************************)
(* The physical memory manager for every memory size, page size, E820 table *)
(* and layout: the counter is exact, a page is never handed out twice, and  *)
(* no page outside the firmware's RAM or inside a reserved range ever is.   *)
(***************************************************************************)
EXTENDS Pmm, FiniteSetTheorems, TLAPS

(* Reserved pages are marked and nobody's, and whatever circulates is RAM.  *)
Circulation ==
  /\ Reserved \subseteq pmm_bitmap
  /\ Reserved \cap held = {}
  /\ (Pages \ pmm_bitmap) \cup held \subseteq Usable(e820)

PmmInv ==
  /\ PmmTypeOK
  /\ FreeCountExact
  /\ HeldStaysMarked
  /\ Circulation

----------------------------------------------------------------------------
LEMMA PagesFinite ==
  /\ IsFiniteSet(Pages)
  /\ \A S \in SUBSET Pages : IsFiniteSet(S) /\ Cardinality(S) \in Nat
  <1>1. IsFiniteSet(Pages)
    BY FS_Interval, PmmAssumption DEF Pages
  <1> QED
    BY <1>1, FS_Subset, FS_CardinalityType

(* Page 0 is reserved: NULL cannot be confused with a page.                 *)
LEMMA ZeroReserved == 0 \in Reserved
  BY PmmAssumption DEF Reserved, Pages

(* Taking n free pages lowers the number of free pages by n.                *)
LEMMA CountTaken ==
  ASSUME NEW B \in SUBSET Pages, NEW i \in Pages, NEW n \in Nat \ {0},
         i + n <= NPages, Run(i, n) \cap B = {}
  PROVE  /\ Cardinality(Pages \ (B \cup Run(i, n))) = Cardinality(Pages \ B) - n
         /\ Cardinality(Pages \ (B \cup Run(i, n))) \in Nat
         /\ Run(i, n) \subseteq Pages
  <1> DEFINE F == Pages \ (B \cup Run(i, n))
  <1>1. Run(i, n) \subseteq Pages
    BY PmmAssumption DEF Run, Pages
  <1>2. IsFiniteSet(Run(i, n)) /\ Cardinality(Run(i, n)) = n
    <2>1. i \in Int /\ i + n - 1 \in Int /\ ~(i > i + n - 1) /\ (i + n - 1) - i + 1 = n
      BY PmmAssumption DEF Pages
    <2> QED
      BY <2>1, FS_Interval DEF Run
  <1>3. F \cup Run(i, n) = Pages \ B /\ F \cap Run(i, n) = {}
    BY <1>1
  <1>4. IsFiniteSet(F) /\ Cardinality(F) \in Nat
    BY PagesFinite
  <1>5. Cardinality(F \cup Run(i, n)) = Cardinality(F) + Cardinality(Run(i, n)) - Cardinality(F \cap Run(i, n))
    BY <1>2, <1>4, FS_Union
  <1>6. Cardinality(Pages \ B) = Cardinality(F) + n - 0
    BY <1>2, <1>3, <1>5, FS_EmptySet
  <1> HIDE DEF F
  <1>7. Cardinality(F) = Cardinality(Pages \ B) - n
    BY <1>4, <1>6
  <1> QED
    BY <1>1, <1>4, <1>7 DEF F

LEMMA InitPmmInv == pmm_init => PmmInv
  <1> SUFFICES ASSUME pmm_init PROVE PmmInv
    OBVIOUS
  <1>1. Reserved \subseteq Pages /\ Usable(e820) \subseteq Pages
    BY DEF Reserved, Usable, EntryPages
  <1>2. pmm_bitmap \subseteq Pages /\ held = {}
    BY <1>1 DEF pmm_init
  <1>3. PmmTypeOK
    BY <1>2, PagesFinite DEF pmm_init, PmmTypeOK
  <1>4. Circulation
    BY <1>1 DEF pmm_init, Circulation
  <1> QED
    BY <1>2, <1>3, <1>4 DEF pmm_init, PmmInv, FreeCountExact, HeldStaysMarked

(* Marking a run of free pages and handing it out.                          *)
LEMMA TakeRunInv ==
  ASSUME PmmInv, NEW i \in Pages, NEW n \in Nat \ {0}, i + n <= NPages,
         Run(i, n) \cap pmm_bitmap = {}, TakeRun(i, n)
  PROVE  PmmInv'
  <1> USE DEF PmmInv
  <1>1. pmm_bitmap \in SUBSET Pages
    BY DEF PmmTypeOK
  <1>2. /\ Cardinality(Pages \ pmm_bitmap') = Cardinality(Pages \ pmm_bitmap) - n
        /\ Cardinality(Pages \ pmm_bitmap') \in Nat
        /\ Run(i, n) \subseteq Pages
    BY <1>1, CountTaken DEF TakeRun
  <1>3. FreeCountExact'
    BY <1>2 DEF TakeRun, FreeCountExact
  <1>4. PmmTypeOK'
    BY <1>2, <1>3 DEF TakeRun, PmmTypeOK, FreeCountExact
  <1>5. Run(i, n) \cap Reserved = {} /\ Run(i, n) \subseteq Pages \ pmm_bitmap
    BY <1>2 DEF Circulation
  <1>6. Circulation'
    BY <1>5 DEF TakeRun, Circulation
  <1>7. HeldStaysMarked'
    BY <1>5, ZeroReserved DEF TakeRun, HeldStaysMarked
  <1> QED
    BY <1>3, <1>4, <1>6, <1>7

LEMMA StutterPmmInv ==
  ASSUME PmmInv, UNCHANGED pmmVars
  PROVE  PmmInv'
  BY DEF PmmInv, PmmTypeOK, FreeCountExact, HeldStaysMarked, Circulation, pmmVars

LEMMA AllocPageInv ==
  ASSUME PmmInv, NEW i \in Pages, pmm_alloc_page(i)
  PROVE  PmmInv'
  <1>1. CASE Pages \subseteq pmm_bitmap
    BY <1>1, StutterPmmInv DEF pmm_alloc_page
  <1>2. CASE ~(Pages \subseteq pmm_bitmap)
    <2>1. i \in Pages \ pmm_bitmap /\ TakeRun(i, 1)
      BY <1>2 DEF pmm_alloc_page, IsFirst
    <2>2. i + 1 <= NPages /\ Run(i, 1) = {i}
      BY PmmAssumption DEF Pages, Run
    <2> QED
      BY <2>1, <2>2, TakeRunInv
  <1> QED
    BY <1>1, <1>2

LEMMA AllocContiguousInv ==
  ASSUME PmmInv, NEW n \in Nat, NEW i \in Pages, pmm_alloc_contiguous(n, i)
  PROVE  PmmInv'
  <1>1. CASE n = 0 \/ n > NPages \/ FreeRuns(n) = {}
    BY <1>1, StutterPmmInv DEF pmm_alloc_contiguous
  <1>2. CASE ~(n = 0 \/ n > NPages \/ FreeRuns(n) = {})
    BY <1>2, TakeRunInv DEF pmm_alloc_contiguous, IsFirst, FreeRuns
  <1> QED
    BY <1>1, <1>2

(* A page that is freed was held, so it is no reserved one; giving back a   *)
(* page that is free already, or NULL, changes nothing.                     *)
LEMMA FreePageInv ==
  ASSUME PmmInv, NEW p \in held \cup {0} \cup (Pages \ pmm_bitmap), pmm_free_page(p)
  PROVE  PmmInv'
  <1>1. CASE ~(p # 0 /\ p \in pmm_bitmap)
    BY <1>1, StutterPmmInv DEF pmm_free_page
  <1>2. CASE p # 0 /\ p \in pmm_bitmap
    <2> USE DEF PmmInv
    <2>1. p \in held /\ p \in Pages
      BY <1>2 DEF PmmTypeOK
    <2>2. /\ pmm_bitmap' = pmm_bitmap \ {p} /\ held' = held \ {p} /\ e820' = e820
          /\ pmm_free_count' = pmm_free_count + 1
      BY <1>2 DEF pmm_free_page
    <2>3. Pages \ pmm_bitmap' = (Pages \ pmm_bitmap) \cup {p} /\ p \notin Pages \ pmm_bitmap
      BY <1>2, <2>1, <2>2
    <2>4. Cardinality(Pages \ pmm_bitmap') = Cardinality(Pages \ pmm_bitmap) + 1
      BY <2>3, PagesFinite, FS_AddElement
    <2>5. FreeCountExact'
      BY <2>2, <2>4 DEF FreeCountExact
    <2>6. PmmTypeOK'
      BY <2>2 DEF PmmTypeOK
    <2>7. Circulation'
      BY <2>1, <2>2 DEF Circulation
    <2>8. HeldStaysMarked'
      BY <2>2 DEF HeldStaysMarked
    <2> QED
      BY <2>5, <2>6, <2>7, <2>8
  <1> QED
    BY <1>1, <1>2

LEMMA NextPmmInv == PmmInv /\ [PmmNext]_pmmVars => PmmInv'
  <1> SUFFICES ASSUME PmmInv, [PmmNext]_pmmVars PROVE PmmInv'
    OBVIOUS
  <1>1. ASSUME NEW i \in Pages, pmm_alloc_page(i) PROVE PmmInv'
    BY <1>1, AllocPageInv
  <1>2. ASSUME NEW n \in 0 .. NPages + 1, NEW i \in Pages, pmm_alloc_contiguous(n, i)
        PROVE PmmInv'
    BY <1>2, AllocContiguousInv
  <1>3. ASSUME NEW p \in held \cup {0} \cup (Pages \ pmm_bitmap), pmm_free_page(p)
        PROVE PmmInv'
    BY <1>3, FreePageInv
  <1>4. CASE UNCHANGED pmmVars
    BY <1>4, StutterPmmInv
  <1> QED
    BY <1>1, <1>2, <1>3, <1>4 DEF PmmNext

(* The inductive invariant holds throughout.                                *)
LEMMA PmmInvHolds == PmmSpec => []PmmInv
  BY InitPmmInv, NextPmmInv, PTL DEF PmmSpec

----------------------------------------------------------------------------
(* pmm_free_count is at all times the number of clear bits, so it never     *)
(* wraps, whatever mixture of requests, frees and repeated frees is made.   *)
THEOREM FreeCountAlwaysExact == PmmSpec => [](PmmTypeOK /\ FreeCountExact)
  <1>1. PmmInv => PmmTypeOK /\ FreeCountExact
    BY DEF PmmInv
  <1> QED
    BY <1>1, PmmInvHolds, PTL

(* A page handed out keeps its bit until it is given back, so no later      *)
(* request is given it, and it is never NULL.                               *)
THEOREM NoPageTwice == PmmSpec => []HeldStaysMarked
  <1>1. PmmInv => HeldStaysMarked
    BY DEF PmmInv
  <1> QED
    BY <1>1, PmmInvHolds, PTL

(* Where the byte a of page p lies tells where a \div PageSize lies.        *)
LEMMA PageOfByte ==
  ASSUME NEW p \in Nat, NEW a \in p * PageSize .. (p + 1) * PageSize - 1,
         NEW b \in Nat
  PROVE  /\ b <= a => b \div PageSize <= p
         /\ a <= b => p <= b \div PageSize
         /\ a >= b * PageSize => p >= b
         /\ a < b * PageSize => p < b
         /\ p >= b => a >= b * PageSize
  <1> DEFINE P == PageSize
  <1>1. P \in Nat \ {0} /\ a \in Int /\ p * P <= a /\ a < (p + 1) * P
    BY PmmAssumption
  <1> QED
    BY <1>1

(* No byte of low memory, the kernel image, the user blobs or the ramdisk   *)
(* is ever part of a page that was handed out: the inclusive end of the     *)
(* kernel range covers the page _kernel_end lies in.                        *)
THEOREM ReservedNeverHandedOut == PmmSpec => []HeldAvoidsReserved
  <1>1. ASSUME PmmInv PROVE HeldAvoidsReserved
    <2> SUFFICES ASSUME NEW p \in held, NEW a \in p * PageSize .. (p + 1) * PageSize - 1
                 PROVE  /\ a >= LowPages * PageSize
                        /\ ~(KernelStart <= a /\ a <= KernelEnd)
                        /\ ~(UserFirst * PageSize <= a /\ a < BlobEnd * PageSize)
                        /\ ~(UserEnd * PageSize <= a /\ a < FsEnd * PageSize)
      BY DEF HeldAvoidsReserved
    <2>1. p \in Pages /\ p \in Nat /\ p \notin Reserved
      BY <1>1, PmmAssumption DEF PmmInv, PmmTypeOK, Circulation, Pages
    <2>2. /\ p >= LowPages
          /\ ~(KernelStart \div PageSize <= p /\ p <= KernelEnd \div PageSize)
          /\ ~(UserFirst <= p /\ p < BlobEnd)
          /\ ~(UserEnd <= p /\ p < FsEnd)
      BY <2>1, PmmAssumption DEF Reserved
    <2>3. a >= LowPages * PageSize
      BY <2>1, <2>2, PageOfByte, PmmAssumption
    <2>4. ~(KernelStart <= a /\ a <= KernelEnd)
      BY <2>1, <2>2, PageOfByte, PmmAssumption
    <2>5. ASSUME NEW f \in Nat, NEW e \in Nat, ~(f <= p /\ p < e)
          PROVE  ~(f * PageSize <= a /\ a < e * PageSize)
      BY <2>1, <2>5, PageOfByte, PmmAssumption
    <2> QED
      BY <2>2, <2>3, <2>4, <2>5, PmmAssumption
  <1> QED
    BY <1>1, PmmInvHolds, PTL

(* Every byte of a page that is free or handed out is RAM that one entry of *)
(* the firmware's table reports: rounding up the start of an entry and      *)
(* rounding down its end never frees a page with a hole in it.              *)
THEOREM OnlyRamCirculates == PmmSpec => []PagesAreRam
  <1>1. ASSUME PmmInv PROVE PagesAreRam
    <2> SUFFICES ASSUME NEW p \in (Pages \ pmm_bitmap) \cup held
                 PROVE  \E n \in 1 .. Len(e820) :
                           /\ e820[n].type = 1
                           /\ e820[n].base <= p * PageSize
                           /\ (p + 1) * PageSize <= e820[n].base + e820[n].len
      BY DEF PagesAreRam
    <2>1. PICK n \in 1 .. Len(e820) : e820[n].type = 1 /\ p \in EntryPages(e820[n])
      BY <1>1 DEF PmmInv, Circulation, Usable
    <2>2. e820[n] \in E820Entry
      BY <1>1, <2>1, PmmAssumption DEF PmmInv, PmmTypeOK
    <2> DEFINE b == e820[n].base
               l == e820[n].len
    <2>3. b \in Nat /\ l \in Nat
      BY <2>2 DEF E820Entry
    <2>4. /\ p \in Nat
          /\ (b + PageSize - 1) \div PageSize <= p
          /\ p < (b + l) \div PageSize
      BY <2>1, PmmAssumption DEF EntryPages, Pages
    <2> HIDE DEF b, l
    <2>5. b <= p * PageSize
      BY <2>3, <2>4, PmmAssumption
    <2>6. (p + 1) * PageSize <= b + l
      BY <2>3, <2>4, PmmAssumption
    <2> QED
      BY <2>1, <2>5, <2>6 DEF b, l
  <1> QED
    BY <1>1, PmmInvHolds, PTL
=============================================================================
