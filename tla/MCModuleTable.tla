---------------------------- MODULE MCModuleTable -----------------------------
(***************************************************************************)
(* Two table positions with up to two transmit objects: a module with      *)
(* fewer objects than OBJS leaves a gap between its flags and those of the *)
(* next one.                                                               *)
(***************************************************************************)
EXTENDS ModuleTable, TLC

Tx12 == 0 :> 1 @@ 1 :> 2
Tx21 == 0 :> 2 @@ 1 :> 1
=============================================================================
