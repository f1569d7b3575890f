------------------------------ MODULE MCFiles ------------------------------
(***************************************************************************)
(* Blocks of two bytes; a file that ends inside a block, one that fills its *)
(* block, an empty one, a name that differs from one of them only behind    *)
(* the bytes a directory entry holds, and one file more than the directory  *)
(* block has room for.                                                      *)
(***************************************************************************)
EXTENDS Files

MCNames == {"hello", "helloworld", "ver", "empty", "none"}

MCKey == [n \in MCNames |-> IF n = "helloworld" THEN "hello" ELSE n]

MCStaged ==
  { <<[name |-> "hello", data |-> <<1, 2, 3>>],
      [name |-> "ver",   data |-> <<4, 5>>]>>,
    <<[name |-> "empty", data |-> <<>>],
      [name |-> "hello", data |-> <<1, 2, 3, 4, 5>>]>>,
    <<[name |-> "hello", data |-> <<7>>],
      [name |-> "none",  data |-> <<8, 9, 10>>],
      [name |-> "ver",   data |-> <<4, 5>>]>> }
=============================================================================
