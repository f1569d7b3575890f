------------------------------- MODULE MCPmm -------------------------------
(***************************************************************************)
(* A machine of 13 pages of 4 bytes: page 0 is low memory, the kernel ends  *)
(* inside page 2, the user region is 4..7 with the blob in page 4, and page *)
(* 8 is the ramdisk.                                                        *)
(***************************************************************************)
EXTENDS PmmScan

Entry(b, l, t) == [base |-> b, len |-> l, type |-> t]

(* Whole RAM with a hole that starts and ends inside pages, RAM reaching    *)
(* past the bitmap, and an entry beyond the last one pmm_init looks at.     *)
MCTables ==
  { <<Entry(0, 64, 1)>>,
    <<Entry(0, 37, 1), Entry(37, 5, 2), Entry(42, 10, 1)>>,
    <<Entry(0, 3, 2), Entry(3, 30, 1), Entry(33, 7, 3), Entry(40, 12, 1)>> }
=============================================================================
