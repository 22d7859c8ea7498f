---------------------------- MODULE MCAsyncTunnel -----------------------------
(***************************************************************************)
(* A queue of three objects of two bytes, two modules and one primary: the *)
(* queue runs round, an object is left over at every place, it fills.      *)
(***************************************************************************)
EXTENDS AsyncTunnel
=============================================================================
