----------------------------- MODULE MCSyncImage ------------------------------
(***************************************************************************)
(* One module with either a receive or a transmit object.                  *)
(***************************************************************************)
EXTENDS SyncImage, TLC

OneModule == {"A"}
One       == "A" :> 1
None      == "A" :> 0
=============================================================================
