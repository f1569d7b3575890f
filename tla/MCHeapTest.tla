----------------------------- MODULE MCHeapTest -----------------------------
(***************************************************************************)
(* 4-byte pages with 1-byte headers as in MCBuddy, orders 0 to 5, and a     *)
(* reserved page (the user blobs) in the middle of the memory the heap      *)
(* pulls, which reads as a free block's header.                             *)
(***************************************************************************)
EXTENDS HeapTest

MCTables == { <<[base |-> 0, len |-> 4 * NPages, type |-> 1]>> }

MCSize == [k \in 0 .. MaxOrder |-> 2^k]

(* A warm reset left the headers of free single pages behind.               *)
MCStalePages == {[q \in Pages |-> FREE(0)]}

(* A client stores what looks like the header of a free page.               *)
MCClientData == {FREE(0)}

(* heaptest's requests: orders 0, 0, 1, 1, 4, then 0, 2, 3, then 5.  In the  *)
(* code they are 0, 0, 1, 1, 6, then 0, 2, 5, then 8: the same ranking.     *)
MCSizesA == <<1, 3, 4, 5, 40>>
MCSizesC == <<2, 9, 20>>
=============================================================================
