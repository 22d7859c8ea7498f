------------------------------ MODULE MCSyncBus -------------------------------
(***************************************************************************)
(* One module with a receive and a transmit object, two contents.          *)
(***************************************************************************)
EXTENDS SyncBus, TLC

OneModule == {"A"}
One       == "A" :> 1
None      == "A" :> 0
=============================================================================
