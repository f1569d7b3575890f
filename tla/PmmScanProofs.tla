--------------------------- MODULE PmmScanProofs ---------------------------
(***************************************************************************)
(* The search loop of pmm_alloc_contiguous for every bitmap and request: it *)
(* reads inside the bitmap, finds the first run, and so the manager with    *)
(* the loop implements the manager that takes the first run in one step.    *)
(***************************************************************************)
EXTENDS PmmScan, PmmProofs

(* No start before i can be the answer, and the pages examined are free.    *)
ScanProgress ==
  /\ pc # "idle" => /\ request \in 1 .. NPages
                    /\ i <= NPages
                    /\ \A s \in FreeRuns(request) : i <= s
  /\ pc = "inner" => /\ i <= NPages - request
                     /\ j <= request
                     /\ Run(i, j) \cap pmm_bitmap = {}

ScanInv ==
  /\ PmmInv
  /\ pc \in {"idle", "outer", "inner"}
  /\ request \in Nat /\ i \in Nat /\ j \in Nat
  /\ ScanProgress

----------------------------------------------------------------------------
LEMMA InitScanInv == Init => ScanInv
  BY InitPmmInv DEF Init, ScanInv, ScanProgress

LEMMA EnterScanInv ==
  ASSUME ScanInv, NEW n \in 0 .. NPages + 1, Enter(n)
  PROVE  ScanInv'
  <1>1. PmmInv'
    BY StutterPmmInv DEF ScanInv, Enter
  <1>2. \A s \in FreeRuns(request)' : 0 <= s
    BY PmmAssumption DEF FreeRuns, Pages
  <1> QED
    BY <1>1, <1>2, PmmAssumption DEF ScanInv, ScanProgress, Enter

LEMMA OuterScanInv ==
  ASSUME ScanInv, Outer
  PROVE  ScanInv'
  <1>1. PmmInv'
    BY StutterPmmInv DEF ScanInv, Outer
  <1>2. Run(i, 0) = {}
    BY DEF Run, ScanInv
  <1>3. FreeRuns(request)' = FreeRuns(request) /\ Run(i, j)' = Run(i, 0)
    BY DEF Outer, FreeRuns, Run, pmmVars
  <1> QED
    BY <1>1, <1>2, <1>3 DEF ScanInv, ScanProgress, Outer, pmmVars

(* A used page among those a start would need rules that start out, so the  *)
(* next start worth trying is the page behind it.                           *)
LEMMA InnerScanInv ==
  ASSUME ScanInv, Inner
  PROVE  ScanInv'
  <1>1. PmmInv'
    BY StutterPmmInv DEF ScanInv, Inner
  <1>2. /\ request \in 1 .. NPages /\ i \in Nat /\ j \in Nat /\ j < request
        /\ i <= NPages - request /\ i <= NPages
        /\ \A s \in FreeRuns(request) : i <= s
        /\ Run(i, j) \cap pmm_bitmap = {}
    BY DEF ScanInv, ScanProgress, Inner
  <1>3. /\ FreeRuns(request)' = FreeRuns(request)
        /\ request' = request /\ pmm_bitmap' = pmm_bitmap
    BY DEF Inner, FreeRuns, Run, pmmVars
  <1>4. CASE i + j \in pmm_bitmap
    <2>1. pc' = "outer" /\ i' = i + j + 1 /\ j' = j
      BY <1>4 DEF Inner
    <2>2. ASSUME NEW s \in FreeRuns(request) PROVE i + j + 1 <= s
      <3>1. s \in Nat /\ i <= s /\ i + j \notin Run(s, request)
        BY <1>2, <1>4, PmmAssumption DEF FreeRuns, Pages
      <3> QED
        BY <1>2, <3>1, PmmAssumption DEF Run
    <2>3. i + j + 1 <= NPages
      BY <1>2, PmmAssumption
    <2> QED
      BY <1>1, <1>2, <1>3, <2>1, <2>2, <2>3 DEF ScanInv, ScanProgress
  <1>5. CASE i + j \notin pmm_bitmap
    <2>1. pc' = "inner" /\ i' = i /\ j' = j + 1
      BY <1>5 DEF Inner
    <2>2. Run(i, j + 1) = Run(i, j) \cup {i + j}
      BY <1>2 DEF Run
    <2>3. Run(i, j)' = Run(i, j + 1)
      BY <2>1 DEF Run
    <2>4. j + 1 <= request
      BY <1>2, PmmAssumption
    <2> QED
      BY <1>1, <1>2, <1>3, <1>5, <2>1, <2>2, <2>3, <2>4 DEF ScanInv, ScanProgress
  <1> QED
    BY <1>4, <1>5

LEMMA FailScanInv ==
  ASSUME ScanInv, Fail
  PROVE  ScanInv'
  BY StutterPmmInv DEF ScanInv, ScanProgress, Fail

(* At the end of the inner loop i is the least start there is.              *)
LEMMA FoundIsFirst ==
  ASSUME ScanInv, pc = "inner", j = request
  PROVE  /\ IsFirst(i, FreeRuns(request))
         /\ i \in Pages /\ request \in Nat \ {0} /\ request <= NPages
         /\ i + request <= NPages /\ Run(i, request) \cap pmm_bitmap = {}
  <1>1. /\ request \in 1 .. NPages /\ i \in Nat /\ i <= NPages - request
        /\ \A s \in FreeRuns(request) : i <= s
        /\ Run(i, request) \cap pmm_bitmap = {}
    BY DEF ScanInv, ScanProgress
  <1>2. i \in Pages /\ i + request <= NPages
    BY <1>1, PmmAssumption DEF Pages
  <1> QED
    BY <1>1, <1>2, PmmAssumption DEF IsFirst, FreeRuns

(* A start is at most NPages - request, and none is left below i.           *)
LEMMA FailMeansNone ==
  ASSUME ScanInv, pc = "outer", i > NPages - request
  PROVE  FreeRuns(request) = {}
  <1>1. /\ request \in 1 .. NPages /\ i \in Nat
        /\ \A s \in FreeRuns(request) : i <= s
    BY DEF ScanInv, ScanProgress
  <1>2. \A s \in FreeRuns(request) : s \in Nat /\ s + request <= NPages
    BY PmmAssumption DEF FreeRuns, Pages
  <1> QED
    BY <1>1, <1>2, PmmAssumption

LEMMA FoundScanInv ==
  ASSUME ScanInv, Found
  PROVE  ScanInv'
  <1>1. PmmInv'
    <2> pc = "inner" /\ j = request /\ TakeRun(i, request)
      BY DEF Found
    <2> QED
      BY FoundIsFirst, TakeRunInv DEF ScanInv
  <1> QED
    BY <1>1 DEF ScanInv, ScanProgress, Found

LEMMA OtherScanInv ==
  ASSUME ScanInv, pc = "idle", UNCHANGED scanVars, PmmInv'
  PROVE  ScanInv'
  BY DEF ScanInv, ScanProgress, scanVars

LEMMA NextScanInv == ScanInv /\ [Next]_vars => ScanInv'
  <1> SUFFICES ASSUME ScanInv, [Next]_vars PROVE ScanInv'
    OBVIOUS
  <1>1. ASSUME NEW n \in 0 .. NPages + 1, Enter(n) PROVE ScanInv'
    BY <1>1, EnterScanInv
  <1>2. CASE Scan
    BY <1>2, OuterScanInv, FailScanInv, InnerScanInv, FoundScanInv DEF Scan
  <1>3. ASSUME pc = "idle", UNCHANGED scanVars, NEW q \in Pages, pmm_alloc_page(q)
        PROVE  ScanInv'
    BY <1>3, AllocPageInv, OtherScanInv DEF ScanInv
  <1>4. ASSUME pc = "idle", UNCHANGED scanVars,
               NEW q \in held \cup {0} \cup (Pages \ pmm_bitmap), pmm_free_page(q)
        PROVE  ScanInv'
    BY <1>4, FreePageInv, OtherScanInv DEF ScanInv
  <1>5. CASE UNCHANGED vars
    <2>1. PmmInv'
      BY <1>5, StutterPmmInv DEF ScanInv, vars
    <2>2. FreeRuns(request)' = FreeRuns(request) /\ Run(i, j)' = Run(i, j)
      BY <1>5 DEF vars, pmmVars, scanVars, FreeRuns, Run
    <2> QED
      BY <1>5, <2>1, <2>2 DEF ScanInv, ScanProgress, vars, pmmVars, scanVars
  <1> QED
    BY <1>1, <1>2, <1>3, <1>4, <1>5 DEF Next

LEMMA ScanInvHolds == Spec => []ScanInv
  BY InitScanInv, NextScanInv, PTL DEF Spec

----------------------------------------------------------------------------
(* pmm_test is only asked about pages the bitmap has, however the scan      *)
(* skipped near its end (mm.c:42-45, 112-117).                              *)
THEOREM ScanReadsInBounds == Spec => []ReadsInBounds
  <1>1. ScanInv => ReadsInBounds
    BY PmmAssumption DEF ScanInv, ScanProgress, ReadsInBounds, Pages
  <1> QED
    BY <1>1, ScanInvHolds, PTL

(* The scan stops at the least start of a free run long enough, and gives   *)
(* up only when there is none (mm.c:112-128).                               *)
THEOREM ScanFindsFirstRun == Spec => []FindsFirstRun
  <1>1. ScanInv => FindsFirstRun
    BY FoundIsFirst, FailMeansNone DEF FindsFirstRun
  <1> QED
    BY <1>1, ScanInvHolds, PTL

(* One step of the manager with the loop is a step of Pmm or a stutter: the *)
(* step that marks the run is the whole call, the others change nothing.    *)
LEMMA StepImplements ==
  ASSUME ScanInv, [Next]_vars
  PROVE  [PmmNext]_pmmVars
  <1>1. ASSUME NEW n \in 0 .. NPages + 1, Enter(n) PROVE UNCHANGED pmmVars
    BY <1>1 DEF Enter
  <1>2. CASE Outer \/ Fail \/ Inner
    BY <1>2 DEF Outer, Fail, Inner
  <1>3. CASE Found
    <2>1. pc = "inner" /\ j = request /\ TakeRun(i, request)
      BY <1>3 DEF Found
    <2>2. /\ IsFirst(i, FreeRuns(request))
          /\ i \in Pages /\ request \in Nat \ {0} /\ request <= NPages
      BY <2>1, FoundIsFirst
    <2>3. ~(request = 0 \/ request > NPages \/ FreeRuns(request) = {})
      BY <2>2, PmmAssumption DEF IsFirst
    <2>4. pmm_alloc_contiguous(request, i)
      BY <2>1, <2>2, <2>3 DEF pmm_alloc_contiguous
    <2>5. request \in 0 .. NPages + 1
      BY <2>2, PmmAssumption
    <2> QED
      BY <2>2, <2>4, <2>5 DEF PmmNext
  <1>4. ASSUME NEW q \in Pages, pmm_alloc_page(q) PROVE PmmNext
    BY <1>4 DEF PmmNext
  <1>5. ASSUME NEW q \in held \cup {0} \cup (Pages \ pmm_bitmap), pmm_free_page(q)
        PROVE  PmmNext
    BY <1>5 DEF PmmNext
  <1>6. CASE UNCHANGED vars
    BY <1>6 DEF vars
  <1> QED
    BY <1>1, <1>2, <1>3, <1>4, <1>5, <1>6 DEF Next, Scan

(* The manager with the skipping loop implements the manager that takes the *)
(* first free run in one step, so what holds of Pmm holds of the code's     *)
(* loop (mm.c:107-129).                                                     *)
THEOREM ScanImplementsPmm == Spec => ImplementsPmm
  <1>1. Init => pmm_init
    BY DEF Init
  <1>2. ScanInv /\ [Next]_vars => [PmmNext]_pmmVars
    BY StepImplements
  <1> QED
    BY <1>1, <1>2, ScanInvHolds, PTL DEF Spec, ImplementsPmm, PmmSpec

(* With the loop, too: the counter is exact, no page is handed out twice,   *)
(* and nothing reserved or outside RAM ever is.                             *)
THEOREM ScanKeepsPmm ==
  Spec => [](FreeCountExact /\ HeldStaysMarked /\ HeldAvoidsReserved /\ PagesAreRam)
  BY ScanImplementsPmm, FreeCountAlwaysExact, NoPageTwice, ReservedNeverHandedOut,
     OnlyRamCirculates, PTL DEF ImplementsPmm

(* What is left of the loop: the pages not yet tested, each of which costs  *)
(* at most a test of the inner and one of the outer loop.                   *)
ScanLeft ==
  IF pc = "idle" THEN 0
  ELSE IF pc = "outer" THEN 2 * (NPages - i) + 2
  ELSE 2 * (NPages - (i + j)) + 1

ScanStepsDown == [][pc # "idle" => ScanLeft' < ScanLeft]_vars

(* What ScanEnds rests on: every step of the scan brings its end nearer,    *)
(* and a call makes at most 2 * NPages + 2 of them.  Although the inner     *)
(* loop sets the outer's variable, no bit is tested twice (mm.c:112-117).   *)
THEOREM ScanIsLinear == Spec => [](ScanLeft \in 0 .. 2 * NPages + 2) /\ ScanStepsDown
  <1> DEFINE A == pc # "idle" => ScanLeft' < ScanLeft
  <1>1. ScanInv => ScanLeft \in 0 .. 2 * NPages + 2
    BY PmmAssumption DEF ScanInv, ScanProgress, ScanLeft
  <1>2. ScanInv /\ [Next]_vars => [A]_vars
    <2> SUFFICES ASSUME ScanInv, Next, pc # "idle" PROVE ScanLeft' < ScanLeft
      OBVIOUS
    <2>1. /\ pc \in {"outer", "inner"} /\ request \in 1 .. NPages /\ NPages \in Nat
          /\ i \in Nat /\ j \in Nat /\ i <= NPages
          /\ pc = "inner" => i <= NPages - request /\ j <= request
      BY PmmAssumption DEF ScanInv, ScanProgress
    <2>2. Scan
      BY DEF Next, Enter
    <2>3. CASE Outer
      BY <2>1, <2>3 DEF Outer, ScanLeft
    <2>4. CASE Inner
      BY <2>1, <2>4 DEF Inner, ScanLeft
    <2>5. CASE Fail \/ Found
      BY <2>1, <2>5 DEF Fail, Found, ScanLeft
    <2> QED
      BY <2>2, <2>3, <2>4, <2>5 DEF Scan
  <1> QED
    BY <1>1, <1>2, ScanInvHolds, PTL DEF Spec, ScanStepsDown
=============================================================================
