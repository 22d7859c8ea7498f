---------------------------- MODULE ErrorQueueIrq -----------------------------
(***************************************************************************)
(* The error queue with one sender in a task: the application reports      *)
(* errors from its own context (lcsa_send_module_error), nothing locks the *)
(* interrupts (io_can_error.c:234,392), and the CAN interrupt handlers     *)
(* send and get in between.  The task's send, and the can_error_init it    *)
(* may begin with, are cut at every access to the shared fields; ++count   *)
(* and the steps of in_next_idx are a load and a store.  A call of an      *)
(* interrupt handler runs to its end.                                      *)
(***************************************************************************)
EXTENDS ErrorQueue

VARIABLES pc,      \* the next access of the task's send
          full,    \* whether it is about the entry QUEUE_FULL
          msg,     \* its msg_code
          free,    \* its local variable free
          reg      \* the value loaded, or i of can_error_init

queueVars == <<state, queue, inNext, outNext, count, memory>>
taskVars  == <<pc, full, msg, free, reg>>
irqVars   == <<vars, taskVars>>

Statements == {"idle", "entries", "count0", "out0", "in0", "ready",
               "free", "test", "load", "store", "write", "rest",
               "index", "advance"}

IrqTypeOK ==
  /\ state \in {NOT_INITIALIZED, READY}
  /\ queue \in [Slots -> Entries]
  /\ inNext \in 0 .. SIZE + 1
  /\ outNext \in Slots
  /\ returned \in Entries
  /\ memory \in {"intact", "overwritten"}
  /\ pc \in Statements
  /\ full \in BOOLEAN
  /\ msg \in Entries
  /\ free \in -3 .. SIZE - 2
  /\ reg \in 0 .. SIZE + 1

IrqInit == /\ Init
           /\ pc = "idle" /\ full = FALSE /\ msg = ERR_OK /\ free = 0 /\ reg = 0

\* The access at pc; the next one is at pc2.
At(here, pc2) == pc = here /\ Intact /\ pc' = pc2 /\ UNCHANGED returned

\* Line 211.
TaskCall(e) ==
  /\ At("idle", IF state = READY THEN "free" ELSE "entries")
  /\ msg' = e /\ full' = FALSE /\ reg' = 0
  /\ UNCHANGED <<queueVars, free>>

\* can_error_init, lines 507-514, one entry after the other ...
TaskInitEntry ==
  /\ At("entries", IF reg + 1 = SIZE THEN "count0" ELSE "entries")
  /\ queue' = [queue EXCEPT ![reg] = ERR_OK]
  /\ reg' = (reg + 1) % SIZE
  /\ UNCHANGED <<state, inNext, outNext, count, memory, full, msg, free>>

\* ... and lines 515, 516, 517 and 520.
TaskInitFields ==
  /\ \/ At("count0", "out0") /\ count' = 0 /\ UNCHANGED <<outNext, inNext, state>>
     \/ At("out0", "in0") /\ outNext' = 0 /\ UNCHANGED <<count, inNext, state>>
     \/ At("in0", "ready") /\ inNext' = 0 /\ UNCHANGED <<count, outNext, state>>
     \/ At("ready", "free") /\ state' = READY /\ UNCHANGED <<count, outNext, inNext>>
  /\ UNCHANGED <<queue, memory, full, msg, free, reg>>

\* Line 240 and the decision at line 242.
TaskFree ==
  /\ At("free", IF Free < 0 THEN "idle" ELSE "test")
  /\ free' = Free
  /\ UNCHANGED <<queueVars, full, msg, reg>>

\* Without the test of lines 251 and 270.
MutantRoom == TRUE

Room == count < SIZE

\* Lines 251 and 270.
TaskTest ==
  /\ At("test", IF Room THEN "load" ELSE "write")
  /\ UNCHANGED <<queueVars, full, msg, free, reg>>

\* Lines 253 and 272.
TaskCount ==
  /\ \/ At("load", "store") /\ reg' = count /\ UNCHANGED count
     \/ At("store", "write") /\ count' = reg + 1 /\ UNCHANGED reg
  /\ UNCHANGED <<state, queue, inNext, outNext, memory, full, msg, free>>

\* A field of the entry is written behind the array: in_next_idx and the
\* fields that follow it take any value.
Overwrite ==
  /\ inNext \notin Slots
  /\ memory' = "overwritten"
  /\ inNext' \in 0 .. SIZE
  /\ outNext' \in Slots
  /\ count' \in 0 .. SIZE
  /\ UNCHANGED queue

\* Lines 255 and 275.
TaskWrite ==
  /\ At("write", "rest")
  /\ \/ /\ inNext \in Slots
        /\ queue' = [queue EXCEPT ![inNext] = IF full THEN QUEUE_FULL ELSE msg]
        /\ UNCHANGED <<inNext, outNext, count, memory>>
     \/ Overwrite
  /\ UNCHANGED <<state, full, msg, free, reg>>

\* Lines 256-259 and 276-279 go to in_next_idx as it is by then; the fields
\* they write are not modelled.
TaskWriteRest ==
  /\ At("rest", "index")
  /\ \/ inNext \in Slots /\ UNCHANGED <<queue, inNext, outNext, count, memory>>
     \/ Overwrite
  /\ UNCHANGED <<state, full, msg, free, reg>>

\* Line 260, with the decision at line 263, and line 280.
TaskAdvance ==
  /\ \/ /\ At("index", "advance")
        /\ reg' = inNext
        /\ UNCHANGED <<inNext, full>>
     \/ /\ ~full
        /\ At("advance", IF free = 0 THEN "test" ELSE "idle")
        /\ inNext' = NextSlot(reg)
        /\ full' = (free = 0)
        /\ UNCHANGED reg
     \/ /\ full
        /\ At("advance", "idle")
        /\ inNext' = reg + 1
        /\ UNCHANGED <<full, reg>>
  /\ UNCHANGED <<state, queue, outNext, count, memory, msg, free>>

Task == \/ \E e \in Errors : TaskCall(e)
        \/ TaskInitEntry \/ TaskInitFields
        \/ TaskFree \/ TaskTest \/ TaskCount
        \/ TaskWrite \/ TaskWriteRest \/ TaskAdvance

\* A send or a get of an interrupt handler.
Interrupt == Next /\ UNCHANGED taskVars

IrqNext == Task \/ Interrupt

IrqSpec == IrqInit /\ [][IrqNext]_irqVars

-----------------------------------------------------------------------------
\* However a send is interrupted the count is at most one too high: the test
\* at line 270 stops a second increment whatever was counted since free was
\* computed.
CountOverByOne == count \in 0 .. SIZE + 1
=============================================================================
