----------------------------- MODULE MCReconnect ------------------------------
(***************************************************************************)
(* Three of the four rates: the first, the last and one in between.        *)
(***************************************************************************)
EXTENDS Reconnect

MCTable == <<125, 1000, 250>>
=============================================================================
