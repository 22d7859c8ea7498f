------------------------------- MODULE ErrorLog -------------------------------
(***************************************************************************)
(* What the system error queue promises its users: a bounded FIFO of       *)
(* errors that keeps its last place for the message QUEUE_FULL.            *)
(***************************************************************************)
EXTENDS Integers, Sequences

CONSTANTS SIZE, Errors, QUEUE_FULL, ERR_OK

VARIABLES pending,   \* errors accepted and not yet read
          taken      \* the error the last reader got

vars == <<pending, taken>>

Init == pending = <<>> /\ taken = ERR_OK

Accept(e) ==
  /\ Len(pending) < SIZE - 2
  /\ pending' = Append(pending, e)
  /\ taken' = taken

AcceptLast(e) ==
  /\ Len(pending) = SIZE - 2
  /\ pending' = pending \o <<e, QUEUE_FULL>>
  /\ taken' = taken

Refuse ==
  /\ Len(pending) > SIZE - 2
  /\ UNCHANGED vars

Take ==
  /\ pending # <<>>
  /\ taken' = Head(pending)
  /\ pending' = Tail(pending)

Next == (\E e \in Errors : Accept(e) \/ AcceptLast(e)) \/ Refuse \/ Take

Spec == Init /\ [][Next]_vars
=============================================================================
