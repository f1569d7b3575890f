------------------------------ MODULE MCBuddy ------------------------------
(***************************************************************************)
(* A machine of 4-byte pages.  A header is 1 byte, so a request of 4 bytes  *)
(* needs two pages and one of 3 bytes just fits one.                        *)
(***************************************************************************)
EXTENDS Buddy

(* All of RAM, and RAM with a page in the middle that is not usable.        *)
MCTables ==
  { <<[base |-> 0, len |-> 4 * NPages, type |-> 1]>>,
    <<[base |-> 0, len |-> 20, type |-> 1], [base |-> 20, len |-> 4, type |-> 2],
      [base |-> 24, len |-> 4 * NPages - 24, type |-> 1]>> }

MCSize == [k \in 0 .. MaxOrder |-> 2^k]

(* RAM after a warm reset that left the headers of free blocks behind.      *)
MCHeaders == {[q \in Pages |-> FREE(k)] : k \in {0, 1}}

(* A client stores what looks like the header of a free page.               *)
MCClientData == {FREE(0)}
=============================================================================
