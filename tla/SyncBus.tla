------------------------------- MODULE SyncBus --------------------------------
(***************************************************************************)
(* SyncImage on a bus.  A master (outside src/) sends a process request    *)
(* and then every module's receive objects, cycle by cycle; the slave's    *)
(* main node answers a request with the transmit objects; every frame the  *)
(* nodes take in waits for its interrupt handler.  A frame may be lost by  *)
(* some of the nodes, or taken in with other contents by one of them.      *)
(***************************************************************************)
EXTENDS SyncImage, Sequences, FiniteSets

CONSTANTS MaxLost,   \* bound: frames that some of the nodes lose
          MaxWrong,  \* bound: frames a node takes in with other contents
          Lag        \* bound: frames a node's handler may be behind

ASSUME TableAssumption == IsFiniteSet(Modules)
ASSUME BusAssumption == MaxLost \in Nat /\ MaxWrong \in Nat /\ Lag \in Nat \ {0}

VARIABLES inbox,    \* per node: frames taken in, not yet handled
          toSend,   \* receive objects the master has still to send this cycle
          outbox,   \* frames the slave has handed to its main controller
          lost,     \* frames lost so far
          wrong     \* frames taken in wrongly so far

faults  == <<lost, wrong>>
busVars == <<inbox, toSend, outbox, faults>>
allVars == <<vars, busVars>>

PR       == [type |-> "PR"]
RX(x, d) == [type |-> "RX", obj |-> x, data |-> d]
TX(x, d) == [type |-> "TX", obj |-> x, data |-> d]

BusInit ==
  /\ Init
  /\ inbox = [n \in Nodes |-> <<>>]
  /\ toSend = {}
  /\ outbox = <<>>
  /\ lost = 0 /\ wrong = 0

(***************************************************************************)
(* Frame f goes over the bus to the nodes of to: all take it in, or some   *)
(* do not, or one takes it in with other data.                             *)
(***************************************************************************)
Deliver(f, got, bad) ==
  inbox' = [n \in Nodes |->
              IF n \in bad THEN Append(inbox[n], [f EXCEPT !.data = CHOOSE d \in Data : d # @])
              ELSE IF n \in got THEN Append(inbox[n], f)
              ELSE inbox[n]]

Lose(f, to) ==
  /\ lost < MaxLost
  /\ lost' = lost + 1 /\ wrong' = wrong
  /\ \E got \in (SUBSET to) \ {to} : Deliver(f, got, {})

Falsify(f, to) ==
  /\ wrong < MaxWrong
  /\ wrong' = wrong + 1 /\ lost' = lost
  /\ f.type # "PR" /\ Data # {f.data}
  /\ \E n \in to : Deliver(f, to, {n})

Broadcast(f, to) ==
  /\ \A n \in to : Len(inbox[n]) < Lag
  /\ \/ Deliver(f, to, {}) /\ UNCHANGED faults
     \/ Lose(f, to)
     \/ Falsify(f, to)

MasterRequest ==
  /\ toSend = {} /\ outbox = <<>>
  /\ Broadcast(PR, Nodes)
  /\ toSend' = RxObjs
  /\ UNCHANGED <<vars, outbox>>

MasterData ==
  \E x \in toSend, d \in Data :
    /\ Broadcast(RX(x, d), Nodes)
    /\ toSend' = toSend \ {x}
    /\ UNCHANGED <<vars, outbox>>

\* The controllers do not take in their own frames.
SlaveSends ==
  /\ outbox # <<>>
  /\ Broadcast(Head(outbox), Nodes \ {"main"})
  /\ outbox' = Tail(outbox)
  /\ UNCHANGED <<vars, toSend>>

(***************************************************************************)
(* The handler of a node takes the oldest frame.  A process request on the *)
(* main node puts one frame per transmit object into the outbox.           *)
(***************************************************************************)
Take(n) == /\ inbox[n] # <<>>
           /\ inbox' = [inbox EXCEPT ![n] = Tail(@)]
           /\ UNCHANGED <<toSend, faults>>

HandleRequest(n) ==
  /\ Take(n)
  /\ Head(inbox[n]) = PR
  /\ \/ /\ n = "main"
        /\ \E app \in [TxObjs -> Data] :
             /\ ProcessRequestMain(FALSE, app)
             /\ \E order \in [1 .. Cardinality(TxObjs) -> TxObjs] :
                  /\ \A i, j \in DOMAIN order : i < j => order[i] # order[j]
                  /\ outbox' = outbox \o
                       [i \in DOMAIN order |-> TX(order[i], app[order[i]])]
     \/ /\ n = "mon"
        /\ ProcessRequestMon(FALSE)
        /\ UNCHANGED outbox

HandleData(n) ==
  /\ Take(n)
  /\ LET f == Head(inbox[n])
     IN  \/ f.type = "RX" /\ RxData(n, f.obj, TRUE, f.data)
         \/ f.type = "TX" /\ MonTxData(f.obj, TRUE, f.data)
  /\ UNCHANGED outbox

Bus       == MasterRequest \/ MasterData \/ SlaveSends
Handle(n) == HandleRequest(n) \/ HandleData(n)
BusNext   == Bus \/ \E n \in Nodes : Handle(n)

BusSpec == BusInit /\ [][BusNext]_allVars

(***************************************************************************)
(* The master goes on with its cycle, the controllers send what they hold, *)
(* interrupts are served.                                                  *)
(***************************************************************************)
BusFairSpec == BusSpec /\ WF_allVars(Bus)
                       /\ \A n \in Nodes : WF_allVars(Handle(n))

-----------------------------------------------------------------------------
\* No verdict calls an image not valid that the bus gave no reason for: a
\* single lost frame is absorbed by the pre-counters, whichever it is (a lost
\* request ends a round without a verdict, or shifts the pairing of the two
\* nodes' requests by one cycle) and however the handlers interleave.
NoFalseAlarm ==
  [][(\E n \in Nodes : HandleRequest(n)) /\ Judged /\ lost <= 1 /\ wrong = 0 =>
        \A m \in Modules : imageValid'[m]]_allVars

\* After the last fault the image becomes valid and stays so: neither the
\* counters nor the pairing of the requests remain disturbed.
Recovers == <>[](\A m \in Modules : imageValid[m])
=============================================================================
