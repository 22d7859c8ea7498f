------------------------------ MODULE ErrorQueue ------------------------------
(***************************************************************************)
(* The system error queue of source/error/io_can_error.c: every part of    *)
(* the slave reports errors with can_error_sys_error_send_full, and the    *)
(* process-request and status-request handlers take them out again with    *)
(* can_error_sys_error_get_full to put them on the bus.                    *)
(*                                                                         *)
(* A call is one step here: no call interrupts another.  ErrorQueueIrq     *)
(* takes the send apart and lets the interrupt handlers in between.        *)
(***************************************************************************)
EXTENDS Integers

CONSTANTS SIZE,         \* LI_CAN_SLV_ERROR_SYSERR_QUEUE_SIZE
          Errors,       \* the errors callers report
          QUEUE_FULL,   \* ERR_MSG_CAN_SYS_ERR_QUEUE_FULL
          ERR_OK        \* what can_error_init fills the entries with

ASSUME SizeAssumption == SIZE \in Nat /\ SIZE >= 2
ASSUME MessageAssumption == QUEUE_FULL \notin Errors /\ ERR_OK \notin Errors
                            /\ QUEUE_FULL # ERR_OK

VARIABLES state,      \* can_error_sys_error_state
          queue,      \* error_syserr_queue
          inNext,     \* in_next_idx
          outNext,    \* out_next_idx
          count,      \* count
          returned,   \* what the last get handed to its caller
          memory      \* whether an entry was written behind the array

vars == <<state, queue, inNext, outNext, count, returned, memory>>

Slots   == 0 .. SIZE - 1
Entries == Errors \cup {QUEUE_FULL, ERR_OK}

NOT_INITIALIZED == "NOT_INITIALIZED"
READY           == "READY"

Intact == memory = "intact"

TypeOK ==
  /\ state \in {NOT_INITIALIZED, READY}
  /\ queue \in [Slots -> Entries]
  /\ inNext \in 0 .. SIZE
  /\ outNext \in Slots
  /\ count \in 0 .. SIZE
  /\ returned \in Entries
  /\ memory \in {"intact", "overwritten"}

(***************************************************************************)
(* The queue is a zero-initialised static; the first send runs             *)
(* can_error_init, which stores exactly the values of Init.                *)
(***************************************************************************)
Init ==
  /\ state = NOT_INITIALIZED
  /\ queue = [i \in Slots |-> ERR_OK]
  /\ inNext = 0
  /\ outNext = 0
  /\ count = 0
  /\ returned = ERR_OK
  /\ memory = "intact"

\* Without the modulo.
MutantNextSlot(i) == i + 1

NextSlot(i) == (i + 1) % SIZE

\* free in the code: what is left after this entry and a QUEUE_FULL entry.
Free == SIZE - (count + 2)

(***************************************************************************)
(* can_error_sys_error_send_full, by the value of free.                    *)
(***************************************************************************)
SendRefused ==
  /\ Intact
  /\ Free < 0
  /\ state' = READY
  /\ UNCHANGED <<queue, inNext, outNext, count, returned, memory>>

SendQueued(e) ==
  /\ Intact
  /\ Free > 0
  /\ inNext \in Slots
  /\ state' = READY
  /\ queue' = [queue EXCEPT ![inNext] = e]
  /\ inNext' = NextSlot(inNext)
  /\ count' = count + 1
  /\ UNCHANGED <<outNext, returned, memory>>

\* The last entry is queued like any other, QUEUE_FULL is forgotten.
MutantSendQueuedLast(e) ==
  /\ Intact
  /\ Free = 0
  /\ inNext \in Slots
  /\ state' = READY
  /\ queue' = [queue EXCEPT ![inNext] = e]
  /\ inNext' = NextSlot(inNext)
  /\ count' = count + 1
  /\ UNCHANGED <<outNext, returned, memory>>

\* The last entry that fits is followed by QUEUE_FULL; the index is then
\* advanced without the modulo.
SendQueuedLast(e) ==
  /\ Intact
  /\ Free = 0
  /\ inNext \in Slots
  /\ state' = READY
  /\ queue' = [queue EXCEPT ![inNext] = e, ![NextSlot(inNext)] = QUEUE_FULL]
  /\ inNext' = NextSlot(inNext) + 1
  /\ count' = count + 2
  /\ UNCHANGED <<outNext, returned, memory>>

\* inNext = SIZE: error_syserr_queue[SIZE] is in_next_idx and the fields that
\* follow it, so the indices and the count are overwritten.
SendBehindArray ==
  /\ Intact
  /\ Free >= 0
  /\ inNext \notin Slots
  /\ memory' = "overwritten"
  /\ inNext' \in 0 .. SIZE
  /\ outNext' \in Slots
  /\ count' \in 0 .. SIZE
  /\ UNCHANGED <<state, queue, returned>>

Send(e) == SendRefused \/ SendQueued(e) \/ SendQueuedLast(e) \/ SendBehindArray

\* A FATAL error only initialises the module.
SendFatal ==
  /\ Intact
  /\ state' = READY
  /\ UNCHANGED <<queue, inNext, outNext, count, returned, memory>>

\* Get with the index advanced before the entry is read.
MutantGetAdvanced ==
  /\ Intact
  /\ state = READY
  /\ count > 0
  /\ returned' = queue[NextSlot(outNext)]
  /\ outNext' = NextSlot(outNext)
  /\ count' = count - 1
  /\ UNCHANGED <<state, queue, inNext, memory>>

\* Get that forgets to count the entry as taken.
MutantGetUncounted ==
  /\ Intact
  /\ state = READY
  /\ count > 0
  /\ returned' = queue[outNext]
  /\ outNext' = NextSlot(outNext)
  /\ UNCHANGED <<state, queue, inNext, count, memory>>

(***************************************************************************)
(* can_error_sys_error_get_full; without an entry it returns an error code *)
(* and changes nothing.                                                    *)
(***************************************************************************)
Get ==
  /\ Intact
  /\ state = READY
  /\ count > 0
  /\ returned' = queue[outNext]
  /\ outNext' = NextSlot(outNext)
  /\ count' = count - 1
  /\ UNCHANGED <<state, queue, inNext, memory>>

\* Once the fields behind the array are overwritten nothing is said any more.
Overrun == ~Intact /\ UNCHANGED vars

Next == (\E e \in Errors : Send(e)) \/ SendFatal \/ Get \/ Overrun

Spec == Init /\ [][Next]_vars

-----------------------------------------------------------------------------
(***************************************************************************)
(* The entries a reader has still to get, the next one first.              *)
(***************************************************************************)
Pending == [i \in 1 .. count |-> queue[(outNext + i - 1) % SIZE]]

ErrorLog == INSTANCE ErrorLog WITH pending <- Pending, taken <- returned

\* Up to the first write behind the array the cyclic queue is a FIFO: errors
\* come out once and in the order they were accepted, the last place is
\* kept for QUEUE_FULL, and an error is refused only when the log is full.
ImplementsErrorLog ==
  ErrorLog!Init /\ [][~Intact' \/ ErrorLog!Next]_<<ErrorLog!vars>>

\* A caller whose error is refused (io_can_error.c:242) is always announced:
\* the newest entry the readers will get is then QUEUE_FULL.
LastSlot == (outNext + count - 1) % SIZE
LossAnnounced == Intact /\ Free < 0 => queue[LastSlot] = QUEUE_FULL

\* The write index is the first slot behind the pending entries.
IndicesAgree ==
  Intact => inNext % SIZE = (outNext + count) % SIZE

\* io_can_error.c:68,73: a cyclic queue whose in_next_idx is the index of
\* the next free queue entry, so always the index of an entry.
InIndexIsASlot == Intact => inNext \in Slots
=============================================================================
