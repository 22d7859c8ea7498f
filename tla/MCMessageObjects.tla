-------------------------- MODULE MCMessageObjects ----------------------------
(***************************************************************************)
(* Two modules of four types, which between them run out of everything:    *)
(* the monitor's transmit table (Tx), its objects (Tx before or after Rx), *)
(* the main controller's objects at a receive object (two of Rx) and at    *)
(* the control object (One after Rx).  One after Tx is added while the     *)
(* module before it is not counted.  A new type has as many objects as the *)
(* old one.                                                                *)
(***************************************************************************)
EXTENDS MessageObjects, TLC

Tx   == [rx |-> 1, tx |-> 4]
Rx   == [rx |-> 4, tx |-> 0]
Both == [rx |-> 2, tx |-> 1]
One  == [rx |-> 1, tx |-> 0]

Four == {Tx, Rx, Both, One}
Same == [t \in Four |-> t]
=============================================================================
