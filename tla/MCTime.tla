------------------------------- MODULE MCTime -------------------------------
(***************************************************************************)
(* Four seconds around the turn of the year 2000, when every register       *)
(* changes at once; a chip that keeps the century and two that do not.  A   *)
(* minute has three seconds here, 58, 59 and 0: the last date has the       *)
(* seconds of the first.                                                    *)
(***************************************************************************)
EXTENDS TimeCommand

Date(y, mo, d, h, mi, s) ==
  [sec |-> s, min |-> mi, hour |-> h, day |-> d, month |-> mo,
   year |-> y % 100, century |-> y \div 100]

MCInstants ==
  << Date(1999, 12, 31, 23, 59, 58), Date(1999, 12, 31, 23, 59, 59),
     Date(2000, 1, 1, 0, 0, 0), Date(2000, 1, 1, 0, 0, 58) >>

MCCenturyBytes == {-1, 0, 255}
=============================================================================
