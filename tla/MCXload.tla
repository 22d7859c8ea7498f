------------------------------- MODULE MCXload --------------------------------
(***************************************************************************)
(* Objects of two bytes, blocks of three, lines of two and a ring of five: *)
(* every block has a byte that only fills, every other one leaves a byte   *)
(* of a line behind, the ring runs round, also backwards, and has no byte  *)
(* to spare.                                                               *)
(***************************************************************************)
EXTENDS Xload
=============================================================================
