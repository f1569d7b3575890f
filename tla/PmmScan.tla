------------------------------ MODULE PmmScan ------------------------------
(***************************************************************************)
(* The memory manager with the search loop of pmm_alloc_contiguous          *)
(* (src/src/kernel/mm.c:107-129) step by step.  The loop does not try every *)
(* start: after a used page it resumes behind that page (i += j, then i++). *)
(* Pmm.tla takes the first run long enough in one step; this module shows   *)
(* that the loop implements that step, in the bitmaps that sequences of     *)
(* allocations and frees leave.  No interrupt handler calls mm.c, so no     *)
(* other operation runs while the loop does.                                *)
(***************************************************************************)
EXTENDS Pmm

VARIABLES
  request,  \* the argument, pages
  i, j,     \* the loop variables
  pc        \* "idle": no call; "outer", "inner": at the test of that loop

scanVars == <<request, i, j, pc>>
vars == <<pmmVars, scanVars>>

Init == pmm_init /\ request = 0 /\ i = 0 /\ j = 0 /\ pc = "idle"

(* A request for no pages or for more than there are is refused at once.    *)
Enter(n) ==
  /\ pc = "idle"
  /\ n # 0 /\ n <= NPages
  /\ request' = n /\ i' = 0 /\ j' = 0 /\ pc' = "outer"
  /\ UNCHANGED pmmVars

(* Mutant: the last start is tried once more than there is room for.        *)
OuterOneMore ==
  /\ pc = "outer" /\ i <= NPages - request + 1
  /\ pc' = "inner" /\ j' = 0
  /\ UNCHANGED <<pmmVars, request, i>>

Outer ==
  /\ pc = "outer" /\ i <= NPages - request
  /\ pc' = "inner" /\ j' = 0
  /\ UNCHANGED <<pmmVars, request, i>>

(* The outer loop is over: the call returns 0.                              *)
Fail ==
  /\ pc = "outer" /\ i > NPages - request
  /\ pc' = "idle" /\ i' = 0 /\ j' = 0 /\ request' = 0
  /\ UNCHANGED pmmVars

(* Mutant: the whole length of the request is skipped after a used page.    *)
InnerSkipsTooFar ==
  /\ pc = "inner" /\ j < request
  /\ IF i + j \in pmm_bitmap
     THEN pc' = "outer" /\ i' = i + request /\ j' = j
     ELSE pc' = "inner" /\ i' = i /\ j' = j + 1
  /\ UNCHANGED <<pmmVars, request>>

(* Mutant: the loop resumes at the used page itself.                        *)
InnerResumesAtUsed ==
  /\ pc = "inner" /\ j < request
  /\ IF i + j \in pmm_bitmap
     THEN pc' = "outer" /\ i' = i + j /\ j' = j
     ELSE pc' = "inner" /\ i' = i /\ j' = j + 1
  /\ UNCHANGED <<pmmVars, request>>

(* A used page ends the inner loop; the outer loop goes on behind it.       *)
Inner ==
  /\ pc = "inner" /\ j < request
  /\ IF i + j \in pmm_bitmap
     THEN pc' = "outer" /\ i' = i + j + 1 /\ j' = j
     ELSE pc' = "inner" /\ i' = i /\ j' = j + 1
  /\ UNCHANGED <<pmmVars, request>>

(* Mutant: the run starts one page behind the one that was examined.        *)
FoundShifted ==
  /\ pc = "inner" /\ j = request
  /\ TakeRun(i + 1, request)
  /\ pc' = "idle" /\ i' = 0 /\ j' = 0 /\ request' = 0

(* Every page of the run is free: it is marked and returned.                *)
Found ==
  /\ pc = "inner" /\ j = request
  /\ TakeRun(i, request)
  /\ pc' = "idle" /\ i' = 0 /\ j' = 0 /\ request' = 0

Scan == Outer \/ Fail \/ Inner \/ Found

(* The other two operations, between calls; callers as in PmmNext.          *)
Next ==
  \/ \E n \in 0 .. NPages + 1 : Enter(n)
  \/ Scan
  \/ /\ pc = "idle"
     /\ UNCHANGED scanVars
     /\ \/ \E p \in Pages : pmm_alloc_page(p)
        \/ \E p \in held \cup {0} \cup (Pages \ pmm_bitmap) : pmm_free_page(p)

(* A call runs to completion: nothing preempts the kernel for good.         *)
Spec == Init /\ [][Next]_vars /\ WF_vars(Scan)

----------------------------------------------------------------------------

(* pmm_test has no bounds check (mm.c:42-45): the scan only asks about pages *)
(* the bitmap has, also after skipping near its end.                        *)
ReadsInBounds == pc = "inner" /\ j < request => i + j \in Pages

(* The scan ends on the first run of free pages long enough, and fails only *)
(* when there is none: skipping (mm.c:117) never jumps over a start.        *)
FindsFirstRun ==
  /\ pc = "inner" /\ j = request => IsFirst(i, FreeRuns(request))
  /\ pc = "outer" /\ i > NPages - request => FreeRuns(request) = {}

(* The scan ends although the inner loop also writes the outer's variable.  *)
ScanEnds == pc # "idle" ~> pc = "idle"

(* Step by step the manager does what Pmm specifies in one step per call.   *)
ImplementsPmm == PmmSpec
=============================================================================
