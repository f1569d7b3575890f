------------------------------ MODULE HeapSpec ------------------------------
(***************************************************************************)
(* What the users of physical pages are promised (kernel.h: kmalloc, kfree; *)
(* ADR-012, ADR-017), without lists, splitting or merging: a block is a     *)
(* contiguous run of whole pages that nobody else has, it stays the         *)
(* client's until the client frees it, and freeing gives back exactly it.   *)
(***************************************************************************)
EXTENDS Integers

CONSTANTS NPages

VARIABLES
  owned,   \* the blocks of heap clients, each a set of pages
  other    \* pages used outside the heap: the page tables of the process

hvars == <<owned, other>>

HInit == owned = {} /\ other = {}

(* kmalloc succeeds: a run nobody has, never page 0 (NULL).                 *)
Allocate ==
  \E b \in 1 .. NPages - 1, n \in 1 .. NPages :
     LET S == b .. b + n - 1
     IN /\ b + n <= NPages
        /\ S \cap other = {}
        /\ \A T \in owned : S \cap T = {}
        /\ owned' = owned \cup {S}
        /\ UNCHANGED other

(* kfree: the client gives up one block, the others keep theirs.            *)
Free == \E S \in owned : owned' = owned \ {S} /\ UNCHANGED other

(* proc_build_address_space gets a page no client has, or NULL.             *)
TakePage ==
  \E i \in 0 .. NPages - 1 :
     /\ \A T \in owned : i \notin T
     /\ other' = other \cup {i}
     /\ UNCHANGED owned

HNext == Allocate \/ Free \/ TakePage

HSpec == HInit /\ [][HNext]_hvars
=============================================================================
