------------------------------- MODULE MCElf -------------------------------
(***************************************************************************)
(* Sixteen cells: the kernel below the region, the blobs at 4 and 5, pages  *)
(* the heap may own at 6 and 7, the ramdisk behind the region, heap above.  *)
(***************************************************************************)
EXTENDS ElfLoader

MCPlaces == {6, 11}
MCSizes == {1, 2, 4}
MCPhoffs == {1, 14}
MCEntries == {3, 4}
MCOffsets == {0, 1, 15}
MCVaddrs == {3, 4, 6}
MCLengths == {0, 1, 2, 13}
MCUserCells == {7}
=============================================================================
