----------------------------- MODULE AsyncTunnel ------------------------------
(***************************************************************************)
(* The asynchronous tunnel: bytes of a serial stream are collected in one  *)
(* object, full or overdue objects go into the transmit queue, the queue   *)
(* is handled when something is put into it.  The tunnel is opened, shut   *)
(* down and closed by messages that the CAN receive interrupt handles; the *)
(* interrupt also looks after overdue objects.                             *)
(*                                                                         *)
(* putc and the timed sending of the task are cut where the interrupt may  *)
(* come between: after the state of the tunnel has been tested, and at     *)
(* every turn of the loop in which putc waits for a place in the queue.    *)
(* A call of the interrupt is one step.                                    *)
(*                                                                         *)
(* A byte is the number of its acceptance; under whose number an object    *)
(* goes out is left out.  The times reduce to one fact: the test at line   *)
(* 987 adds the delay to the number of bytes and not to the time of the    *)
(* last one, so it holds as soon as the slave has been up for the delay,   *)
(* and for good.                                                           *)
(***************************************************************************)
EXTENDS Naturals, Sequences, FiniteSets

CONSTANTS
  LENGTH,       \* CAN_ASYNC_DATA_TX_QUEUE_LENGTH
  DLC,          \* CAN_CONFIG_ASYNC_DATA_TX_DLC
  Own,          \* the slave's logical modules
  Primaries,    \* modules that may ask for the tunnel
  DEFNR,        \* LI_CAN_SLV_CONFIG_DEF_MOD_NR1
  MaxBytes,     \* bound: bytes the serial side offers
  MaxRefusals   \* bound: sends that the driver or the reconnection prevents

ASSUME SizeAssumption == LENGTH \in Nat \ {0} /\ DLC \in Nat \ {0}
ASSUME BoundAssumption == MaxBytes \in Nat /\ MaxRefusals \in Nat

VARIABLES
  tunnel,       \* can_async_tunnel: state, mod_own, prim_modnr
  tmp,          \* can_async_tunnel_tmpTXobj: the bytes used
  lock,         \* can_async_tnl_lock
  slots, read, write, count, \* can_async_data_tx_queue and its indices
  pc,           \* where the task stands
  up,           \* the slave has been running for the delay
  accepted,     \* history: bytes that putc took
  sent,         \* history: bytes on the bus
  refusals      \* history: sends that were prevented

queue == <<slots, read, write, count>>
vars == <<tunnel, tmp, lock, queue, pc, up, accepted, sent, refusals>>

FREE == "FREE"
ACTIVE == "ACTIVE"
SHUTDOWN == "SHUTDOWN"
-----------------------------------------------------------------------------
Numbers == Own \union Primaries \union {DEFNR}
Bytes   == 1..MaxBytes
Object  == {s \in Seq(Bytes) : Len(s) <= DLC}
Closed  == [state |-> FREE, own |-> DEFNR, prim |-> DEFNR]

Init ==
  /\ tunnel = Closed /\ tmp = <<>> /\ lock = 0
  /\ slots = [i \in 0..LENGTH - 1 |-> <<>>]
  /\ read = 0 /\ write = 0 /\ count = 0
  /\ pc = "idle" /\ up = FALSE
  /\ accepted = 0 /\ sent = <<>> /\ refusals = 0
-----------------------------------------------------------------------------
(* The transmit queue.                                                     *)
MutantAdvanced(i) == i + 1

Advanced(i) == IF i < LENGTH - 1 THEN i + 1 ELSE 0

MutantHandled(s) ==
  /\ sent' = sent \o s[read] /\ read' = Advanced(read)
  /\ count' = count + 1 /\ UNCHANGED refusals

\* can_main_handler_tx, called for every object put into the queue: one
\* object is sent, unless the driver refuses it or the reconnection is on.
\* It then stays in the queue until the next one is put there.
Handled(s) ==
  \/ /\ sent' = sent \o s[read]
     /\ read' = Advanced(read)
     /\ UNCHANGED <<count, refusals>>
  \/ /\ refusals < MaxRefusals
     /\ count' = count + 1 /\ refusals' = refusals + 1
     /\ UNCHANGED <<read, sent>>

Enqueue ==
  /\ count < LENGTH
  /\ slots' = [slots EXCEPT ![write] = tmp]
  /\ write' = Advanced(write)
  /\ Handled(slots')
  /\ tmp' = <<>>

QueueFull == count = LENGTH
-----------------------------------------------------------------------------
(* The task: putc and the timed sending.                                   *)
Enter(to) == lock' = lock + 1 /\ pc' = to
Leave     == lock' = lock - 1 /\ pc' = "idle"

\* A call that finds the lock taken or no active tunnel changes nothing.
PutcEnter ==
  /\ pc = "idle" /\ lock = 0 /\ tunnel.state = ACTIVE
  /\ accepted < MaxBytes
  /\ Enter("store")
  /\ UNCHANGED <<tunnel, tmp, queue, up, accepted, sent, refusals>>

PutcStore ==
  /\ pc = "store"
  /\ tmp' = Append(tmp, accepted + 1) /\ accepted' = accepted + 1
  /\ IF Len(tmp') = DLC THEN pc' = "wait" /\ UNCHANGED lock ELSE Leave
  /\ UNCHANGED <<tunnel, queue, up, sent, refusals>>

MutantPutcSend ==
  /\ pc = "wait" /\ Enqueue
  /\ UNCHANGED <<tunnel, lock, pc, up, accepted>>

PutcSend ==
  /\ pc = "wait" /\ Enqueue /\ Leave
  /\ UNCHANGED <<tunnel, up, accepted>>

MutantOverdue == Len(tmp) = DLC /\ up

Overdue == tmp # <<>> /\ up

ProcessEnter ==
  /\ pc = "idle" /\ lock = 0 /\ tunnel.state = ACTIVE /\ Overdue
  /\ Enter("flush")
  /\ UNCHANGED <<tunnel, tmp, queue, up, accepted, sent, refusals>>

MutantProcessSend ==
  /\ pc = "flush" /\ Leave /\ tmp' = <<>>
  /\ \/ Enqueue
     \/ QueueFull /\ UNCHANGED <<queue, sent, refusals>>
  /\ UNCHANGED <<tunnel, up, accepted>>

ProcessSend ==
  /\ pc = "flush" /\ Leave
  /\ \/ Enqueue
     \/ QueueFull /\ UNCHANGED <<tmp, queue, sent, refusals>>
  /\ UNCHANGED <<tunnel, up, accepted>>

Task == PutcStore \/ PutcSend \/ ProcessEnter \/ ProcessSend

\* can_async_tunnel_shutdown, called by the application.
Shutdown ==
  /\ tunnel.state = ACTIVE
  /\ tunnel' = [tunnel EXCEPT !.state = SHUTDOWN]
  /\ UNCHANGED <<tmp, lock, queue, pc, up, accepted, sent, refusals>>
-----------------------------------------------------------------------------
(* The receive interrupt: messages of the tunnel, and the timed sending at *)
(* the end of the handler.                                                 *)
\* The port may refuse; then, or when it is in use, the opening is denied.
\* A connection type nobody handles is denied with the tunnel left active.
Open(own, prim) ==
  /\ tunnel.state = FREE
  /\ tunnel' = [state |-> ACTIVE, own |-> own, prim |-> prim]

\* Closed for whoever asks, unless the port refuses.
Close == tunnel' = Closed

CloseAck(own, prim) ==
  /\ tunnel = [state |-> SHUTDOWN, own |-> own, prim |-> prim]
  /\ tunnel' = Closed

CloseDeny(own, prim) ==
  /\ tunnel = [state |-> SHUTDOWN, own |-> own, prim |-> prim]
  /\ tunnel' = [tunnel EXCEPT !.state = ACTIVE]

Message ==
  /\ \/ Close
     \/ \E own \in Own, prim \in Primaries :
          Open(own, prim) \/ CloseAck(own, prim) \/ CloseDeny(own, prim)
  /\ UNCHANGED <<tmp, lock, queue, pc, up, accepted, sent, refusals>>

MutantInterruptProcess ==
  /\ tunnel.state = ACTIVE /\ Overdue
  /\ Enqueue
  /\ UNCHANGED <<tunnel, lock, pc, up, accepted>>

InterruptProcess ==
  /\ lock = 0 /\ tunnel.state = ACTIVE /\ Overdue
  /\ Enqueue
  /\ UNCHANGED <<tunnel, lock, pc, up, accepted>>

TimePasses ==
  /\ ~up /\ up' = TRUE
  /\ UNCHANGED <<tunnel, tmp, lock, queue, pc, accepted, sent, refusals>>
-----------------------------------------------------------------------------
Next ==
  \/ PutcEnter \/ Task \/ Shutdown
  \/ Message \/ InterruptProcess \/ TimePasses

Spec == Init /\ [][Next]_vars

\* The task goes on with what it has begun, polls, and time passes.
FairSpec == Spec /\ WF_vars(Task) /\ WF_vars(TimePasses)
-----------------------------------------------------------------------------
Contents ==
  LET Of[n \in 0..count] ==
        IF n = 0 THEN <<>>
        ELSE Of[n - 1] \o slots[(read + n - 1) % LENGTH]
  IN Of[count]

TypeOK ==
  /\ tunnel \in [state : {FREE, ACTIVE, SHUTDOWN}, own : Numbers, prim : Numbers]
  /\ tmp \in Object /\ lock \in 0..1
  /\ slots \in [0..LENGTH - 1 -> Object]
  /\ read \in 0..LENGTH - 1 /\ write \in 0..LENGTH - 1 /\ count \in 0..LENGTH
  /\ pc \in {"idle", "store", "wait", "flush"} /\ up \in BOOLEAN
  /\ accepted \in 0..MaxBytes /\ sent \in Seq(Bytes)
  /\ refusals \in 0..MaxRefusals

\* Whatever interrupts whatever, and however the tunnel is opened and closed
\* meanwhile: the bytes on the bus, those in the queue and those in the
\* object are the bytes accepted, each once and in their order.
StreamKept ==
  sent \o Contents \o tmp = [i \in 1..accepted |-> i]

\* io_can_async.c:929-966 and 980-1008.  The lock is held exactly while the
\* task is inside one of the two functions, and a waiting or flushing task has
\* bytes to send: nobody else emptied the object in between.
LockHeld ==
  /\ (lock = 1) <=> (pc # "idle")
  /\ pc = "wait" => Len(tmp) = DLC
  /\ pc = "flush" => tmp # <<>>
  /\ pc # "wait" => Len(tmp) < DLC

\* An object is left behind for every send that was prevented, and none of
\* them is ever made up for: the length of the queue is their number.
LagIsRefusals == count = refusals

\* The loop at io_can_async.c:944 ends, whatever the interrupt and the tunnel
\* do meanwhile, unless the queue is full.  (It is full once as many sends
\* were prevented as it has places, and then it stays so: LagIsRefusals.)
PutcReturns == (pc = "wait") ~> (pc = "idle" \/ QueueFull)

\* io_can_async.c:987.  Bytes are not held in the object for ever while the
\* tunnel is active and the queue has a place.
Flushed ==
  (tunnel.state = ACTIVE /\ tmp # <<>>)
    ~> (tunnel.state # ACTIVE \/ tmp = <<>> \/ QueueFull)
=============================================================================
