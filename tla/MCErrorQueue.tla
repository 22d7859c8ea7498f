----------------------------- MODULE MCErrorQueue -----------------------------
(***************************************************************************)
(* A queue of four entries and two errors: it fills, refuses, drains and   *)
(* wraps around.                                                           *)
(***************************************************************************)
EXTENDS ErrorQueue

CONSTANTS e1, e2

MCErrors == {e1, e2}
=============================================================================
