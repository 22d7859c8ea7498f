---------------------------- MODULE SyncBusProofs -----------------------------
(***************************************************************************)
(* The supervision on the bus, for every module table, with and without    *)
(* the monitor node, and any number of faults: it does nothing SyncImage   *)
(* does not allow, so what is proved of SyncImage holds on the bus; and    *)
(* one lost frame, whichever it is, never makes an image not valid.        *)
(***************************************************************************)
EXTENDS SyncBus, SyncImageProofs, FiniteSetTheorems, TLAPS

(***************************************************************************)
(* The frames on the bus carry objects of configured modules.              *)
(***************************************************************************)
TxFrames == {TX(x, d) : x \in TxObjs, d \in Data}
RxFrames == {RX(x, d) : x \in RxObjs, d \in Data}
Frames   == {PR} \cup RxFrames \cup TxFrames

OnTheBus ==
  /\ inbox \in [Nodes -> Seq(Frames)]
  /\ outbox \in Seq(TxFrames)
  /\ toSend \subseteq RxObjs

\* The table of modules is finite, and so are its transmit objects.
LEMMA TxObjsFinite == IsFiniteSet(TxObjs)
<1> DEFINE of == [m \in Modules |-> {m} \X (0 .. NrTx[m] - 1)]
           all == {{m} \X (0 .. NrTx[m] - 1) : m \in Modules}
<1>1. of \in Surjection(Modules, all)
  BY DEF Surjection
<1>2. IsFiniteSet(all)
  BY <1>1, TableAssumption, FS_Surjection
<1>3. ASSUME NEW T \in all
      PROVE  IsFiniteSet(T)
  <2>1. PICK m \in Modules : T = {m} \X (0 .. NrTx[m] - 1)
    OBVIOUS
  <2>2. NrTx[m] - 1 \in Int
    BY ObjAssumption
  <2>3. IsFiniteSet(0 .. NrTx[m] - 1)
    BY <2>2, FS_Interval, SMT
  <2>4. IsFiniteSet({m})
    BY FS_Singleton, Zenon
  <2> QED
    BY <2>1, <2>3, <2>4, FS_Product
<1> HIDE DEF all
<1>4. IsFiniteSet(UNION all)
  BY <1>2, <1>3, FS_UNION
<1> QED
  BY <1>4 DEF all, TxObjs, Objs

\* The fields of a frame.
LEMMA FrameTypes ==
  /\ PR.type = "PR"
  /\ \A x, d : RX(x, d).type = "RX" /\ RX(x, d).obj = x /\ RX(x, d).data = d
  /\ \A x, d : TX(x, d).type = "TX" /\ TX(x, d).obj = x /\ TX(x, d).data = d
  BY DEF PR, RX, TX

\* A frame taken in with other contents is still a frame of its object.
LEMMA FalsifiedFrame ==
  ASSUME NEW f \in Frames, f.type # "PR", Data # {f.data}
  PROVE  [f EXCEPT !.data = CHOOSE d \in Data : d # @] \in Frames
<1> DEFINE other == CHOOSE d \in Data : d # f.data
<1>1. other \in Data
  <2>1. \E d \in Data : d # f.data
    BY DataAssumption
  <2> QED
    BY <2>1
<1> HIDE DEF other
<1>2. ASSUME NEW x, NEW d, NEW e, f = RX(x, d)
      PROVE  [f EXCEPT !.data = e] = RX(x, e)
  BY <1>2, SMT DEF RX
<1>3. ASSUME NEW x, NEW d, NEW e, f = TX(x, d)
      PROVE  [f EXCEPT !.data = e] = TX(x, e)
  BY <1>3, SMT DEF TX
<1>4. [f EXCEPT !.data = other] \in Frames
  BY <1>1, <1>2, <1>3, FrameTypes DEF Frames, RxFrames, TxFrames
<1> QED
  BY <1>4 DEF other

\* Whoever takes a frame in, what waits for the handlers are frames.
LEMMA BroadcastKeepsFrames ==
  ASSUME OnTheBus, NEW f \in Frames, NEW to, Broadcast(f, to)
  PROVE  inbox' \in [Nodes -> Seq(Frames)]
<1>1. ASSUME NEW got, NEW bad, Deliver(f, got, bad),
             \/ bad = {}
             \/ f.type # "PR" /\ Data # {f.data}
      PROVE  inbox' \in [Nodes -> Seq(Frames)]
  <2> DEFINE g == [f EXCEPT !.data = CHOOSE d \in Data : d # @]
  <2>1. bad = {} \/ g \in Frames
    BY <1>1, FalsifiedFrame
  <2> HIDE DEF g
  <2>2. ASSUME NEW n \in Nodes
        PROVE  (IF n \in bad THEN Append(inbox[n], g)
                ELSE IF n \in got THEN Append(inbox[n], f)
                ELSE inbox[n]) \in Seq(Frames)
    <3>1. inbox[n] \in Seq(Frames)
      BY DEF OnTheBus
    <3>2. Append(inbox[n], f) \in Seq(Frames)
      BY <3>1
    <3>3. n \in bad => Append(inbox[n], g) \in Seq(Frames)
      BY <3>1, <2>1
    <3> QED
      BY <3>1, <3>2, <3>3
  <2>3. inbox' = [n \in Nodes |->
                    IF n \in bad THEN Append(inbox[n], g)
                    ELSE IF n \in got THEN Append(inbox[n], f)
                    ELSE inbox[n]]
    BY <1>1 DEF Deliver, g
  <2> QED
    BY <2>2, <2>3
<1>2. CASE Deliver(f, to, {}) \/ Lose(f, to)
  BY <1>1, <1>2 DEF Lose
<1>3. CASE Falsify(f, to)
  BY <1>1, <1>3 DEF Falsify
<1> QED
  BY <1>2, <1>3 DEF Broadcast

\* What a handler takes is a frame, and frames remain.
LEMMA TakenFrame ==
  ASSUME OnTheBus, NEW n \in Nodes, Take(n)
  PROVE  /\ Head(inbox[n]) \in Frames
         /\ inbox' \in [Nodes -> Seq(Frames)]
<1>1. inbox[n] \in Seq(Frames) /\ inbox[n] # <<>>
  BY DEF OnTheBus, Take
<1>2. Head(inbox[n]) \in Frames /\ Tail(inbox[n]) \in Seq(Frames)
  BY <1>1
<1> QED
  BY <1>2 DEF Take, OnTheBus

\* What the slave sends are its transmit objects.
LEMMA SentFrames ==
  ASSUME OnTheBus, NEW n \in Nodes, HandleRequest(n)
  PROVE  outbox' \in Seq(TxFrames)
<1>1. CASE UNCHANGED outbox
  BY <1>1 DEF OnTheBus
<1>2. ASSUME NEW app \in [TxObjs -> Data],
             NEW order \in [1 .. Cardinality(TxObjs) -> TxObjs],
             outbox' = outbox \o [i \in DOMAIN order |-> TX(order[i], app[order[i]])]
      PROVE  outbox' \in Seq(TxFrames)
  <2>1. IsFiniteSet(TxObjs)
    BY TxObjsFinite
  <2>2. Cardinality(TxObjs) \in Nat
    BY <2>1, FS_CardinalityType
  <2>3. [i \in DOMAIN order |-> TX(order[i], app[order[i]])] \in Seq(TxFrames)
    <3>1. \A i \in 1 .. Cardinality(TxObjs) : TX(order[i], app[order[i]]) \in TxFrames
      BY DEF TxFrames
    <3>2. DOMAIN order = 1 .. Cardinality(TxObjs)
      OBVIOUS
    <3> QED
      BY <2>2, <3>1, <3>2
  <2> DEFINE answer == [i \in DOMAIN order |-> TX(order[i], app[order[i]])]
  <2> HIDE DEF answer
  <2>4. outbox' = outbox \o answer /\ answer \in Seq(TxFrames)
    BY <1>2, <2>3 DEF answer
  <2> QED
    BY <2>4 DEF OnTheBus
<1> QED
  BY <1>1, <1>2 DEF HandleRequest

\* No step of master, bus or slave brings anything else onto the bus.
LEMMA OnTheBusInductive ==
  ASSUME OnTheBus, [BusNext]_allVars
  PROVE  OnTheBus'
<1>1. CASE MasterRequest
  <2>1. Broadcast(PR, Nodes) /\ toSend' = RxObjs /\ outbox' = outbox
    BY <1>1 DEF MasterRequest
  <2>2. PR \in Frames
    BY DEF Frames
  <2> QED
    BY <2>1, <2>2, BroadcastKeepsFrames DEF OnTheBus
<1>2. CASE MasterData
  <2>1. PICK x \in toSend, d \in Data :
          Broadcast(RX(x, d), Nodes) /\ toSend' = toSend \ {x} /\ outbox' = outbox
    BY <1>2 DEF MasterData
  <2>2. RX(x, d) \in Frames
    BY <2>1 DEF Frames, RxFrames, OnTheBus
  <2>3. inbox' \in [Nodes -> Seq(Frames)]
    BY <2>1, <2>2, BroadcastKeepsFrames
  <2> QED
    BY <2>1, <2>3 DEF OnTheBus
<1>3. CASE SlaveSends
  <2>1. Head(outbox) \in TxFrames /\ Tail(outbox) \in Seq(TxFrames)
    BY <1>3 DEF SlaveSends, OnTheBus
  <2>2. inbox' \in [Nodes -> Seq(Frames)]
    <3>1. Broadcast(Head(outbox), Nodes \ {"main"}) /\ Head(outbox) \in Frames
      BY <1>3, <2>1 DEF SlaveSends, Frames
    <3> QED
      BY <3>1, BroadcastKeepsFrames
  <2> QED
    BY <1>3, <2>1, <2>2 DEF SlaveSends, OnTheBus
<1>4. ASSUME NEW n \in Nodes, HandleRequest(n)
      PROVE  OnTheBus'
  <2>1. Take(n)
    BY <1>4 DEF HandleRequest
  <2>2. inbox' \in [Nodes -> Seq(Frames)]
    BY <2>1, TakenFrame
  <2>3. outbox' \in Seq(TxFrames)
    BY <1>4, SentFrames
  <2> QED
    BY <2>1, <2>2, <2>3 DEF OnTheBus, Take
<1>5. ASSUME NEW n \in Nodes, HandleData(n)
      PROVE  OnTheBus'
  <2>1. Take(n) /\ outbox' = outbox
    BY <1>5 DEF HandleData
  <2>2. inbox' \in [Nodes -> Seq(Frames)]
    BY <2>1, TakenFrame
  <2> QED
    BY <2>1, <2>2 DEF OnTheBus, Take
<1>6. CASE UNCHANGED allVars
  BY <1>6 DEF allVars, busVars, OnTheBus
<1> QED
  BY <1>1, <1>2, <1>3, <1>4, <1>5, <1>6 DEF BusNext, Bus, Handle

\* Only frames of configured objects wait anywhere, at any time.
LEMMA BusInvariant == BusSpec => []OnTheBus
<1>1. BusInit => OnTheBus
  BY DEF BusInit, OnTheBus
<1>2. OnTheBus /\ [BusNext]_allVars => OnTheBus'
  BY OnTheBusInductive
<1> QED
  BY <1>1, <1>2, PTL DEF BusSpec

\* A data frame handled is a step of the supervision.
LEMMA DataStep ==
  ASSUME OnTheBus, NEW n \in Nodes, HandleData(n)
  PROVE  Next
<1> DEFINE f == Head(inbox[n])
<1>1. f \in Frames
  BY TakenFrame DEF HandleData
<1>2. TRUE \in DlcOks
  BY DEF DlcOks
<1>3. CASE f.type = "RX" /\ RxData(n, f.obj, TRUE, f.data)
  <2>1. f.obj \in RxObjs /\ f.data \in Data
    BY <1>1, <1>3, FrameTypes DEF Frames, RxFrames, TxFrames
  <2> QED
    BY <1>2, <1>3, <2>1 DEF Next, Receive
<1>4. CASE f.type = "TX" /\ MonTxData(f.obj, TRUE, f.data)
  <2>1. f.obj \in TxObjs /\ f.data \in Data
    BY <1>1, <1>4, FrameTypes DEF Frames, RxFrames, TxFrames
  <2> QED
    BY <1>2, <1>4, <2>1 DEF Next, LoopBack
<1> QED
  BY <1>3, <1>4 DEF HandleData

\* A process request handled is a step of the supervision.
LEMMA RequestStep ==
  ASSUME NEW n \in Nodes, HandleRequest(n)
  PROVE  ProcessRequest
<1>1. FALSE \in Longs
  BY DEF Longs
<1>2. \/ \E app \in [TxObjs -> Data] : ProcessRequestMain(FALSE, app)
      \/ ProcessRequestMon(FALSE)
  BY DEF HandleRequest
<1> QED
  BY <1>1, <1>2 DEF ProcessRequest

\* On the bus the supervision does what SyncImage lets it do with any frame at
\* any time, whatever the master sends and the bus loses or falsifies.
THEOREM BusImplementsImage == BusSpec => Spec
<1>1. BusInit => Init
  BY DEF BusInit
<1>2. OnTheBus /\ [BusNext]_allVars => [Next]_vars
  <2> SUFFICES ASSUME OnTheBus, [BusNext]_allVars PROVE [Next]_vars
    OBVIOUS
  <2>1. CASE Bus
    BY <2>1 DEF Bus, MasterRequest, MasterData, SlaveSends
  <2>2. ASSUME NEW n \in Nodes, Handle(n)
        PROVE  Next
    BY <2>2, DataStep, RequestStep DEF Handle, Next
  <2>3. CASE UNCHANGED allVars
    BY <2>3 DEF allVars
  <2> QED
    BY <2>1, <2>2, <2>3 DEF BusNext
<1> QED
  BY <1>1, <1>2, BusInvariant, PTL DEF BusSpec, Spec

\* What is missing or differs at two judgements running is not accepted twice on
\* the bus either, however many frames are lost or falsified.
THEOREM NeverTwiceOnTheBus == BusSpec => TwoMissesNeverBothValid
  BY BusImplementsImage, NeverTwiceAccepted

-----------------------------------------------------------------------------
(***************************************************************************)
(* No false alarm.  With Lag = 1 the frames of a cycle do not overtake the *)
(* request of the next: while a node has a request to handle (Asked),      *)
(* nothing but requests waits, and the cycle's data is still to be sent.   *)
(***************************************************************************)
Asked(n)      == inbox[n] = <<PR>>
Carries(n, x) == \E d \in Data : inbox[n] = <<RX(x, d)>>
LoopsBack(x)  == \E d \in Data : inbox["mon"] = <<TX(x, d)>>
InOutbox(x)   == \E i \in DOMAIN outbox : outbox[i].obj = x

Waiting(n) ==
  \/ inbox[n] = <<>>
  \/ Asked(n)
  \/ \E x \in RxObjs : Carries(n, x) /\ x \notin toSend
  \/ n = "mon" /\ \E x \in TxObjs : LoopsBack(x) /\ ~InOutbox(x)

OneEach == \A i, j \in DOMAIN outbox : outbox[i].obj = outbox[j].obj => i = j

RequestsAlone ==
  \A n \in Nodes : Asked(n) =>
    /\ toSend = RxObjs
    /\ n = "main" => (outbox = <<>>)
    /\ \A k \in Nodes : inbox[k] = <<>> \/ Asked(k)

Order == (\A n \in Nodes : Waiting(n)) /\ OneEach /\ RequestsAlone

(***************************************************************************)
(* The requests counted by the nodes since the last clear.  A request lost *)
(* by one node pairs its next one with the other's last; the nodes part,   *)
(* or one counts two, when the node behind is not the first to handle one. *)
(***************************************************************************)
Once  == [flag |-> TRUE, cnt |-> 1, long |-> FALSE]
Twice == [flag |-> TRUE, cnt |-> 2, long |-> FALSE]

Pair(n, k) ==
  /\ pr[n] = pr[k] => pr[n] # Twice /\ (lost = 1 \/ (Asked(n) <=> Asked(k)))
  /\ pr[n] = NoRequest /\ pr[k] = Once =>
       (Asked(n) /\ ~Asked(k)) \/ (lost = 1 /\ (Asked(n) <=> Asked(k)))
  /\ pr[n] = NoRequest /\ pr[k] = Twice => lost = 1 /\ Asked(n) /\ ~Asked(k)
  /\ pr[n] = Once /\ pr[k] = Twice => lost = 1 /\ (Asked(n) <=> Asked(k))

Pairs ==
  /\ pr \in [Nodes -> {NoRequest, Once, Twice}]
  /\ \A n \in Nodes : pr[n] = Twice => \E k \in Nodes : k # n
  /\ \A n, k \in Nodes : n # k => Pair(n, k)

(***************************************************************************)
(* A request is to be handled and the counters are still the last cycle's. *)
(***************************************************************************)
LastCycle ==
  /\ \E n \in Nodes : Asked(n)
  /\ \/ Ready
     \/ (\A n \in Nodes : Asked(n)) /\ \E n \in Nodes : pr[n] # NoRequest

\* What this cycle still brings, and what has come: once each, the same on
\* both nodes.
DueRx(n, x) == ~LastCycle /\ (x \in toSend \/ Carries(n, x))
DueTx(x)    == ~LastCycle /\ (InOutbox(x) \/ LoopsBack(x) \/ Asked("main"))
View(n, x)  == IF Carries(n, x) THEN Head(inbox[n]).data ELSE rxData[n][x]

RxCounted == \A n \in Nodes, x \in RxObjs :
               rxCnt[n][x] = IF DueRx(n, x) THEN 0 ELSE 1
TxCounted == Monitor => \A x \in TxObjs : txCnt[x] = IF DueTx(x) THEN 0 ELSE 1
Alike     == Monitor => \A x \in RxObjs :
               (~LastCycle /\ x \in toSend) \/ View("main", x) = View("mon", x)
Counted   == RxCounted /\ TxCounted /\ Alike

\* The main node has answered the request the monitor node has yet to handle.
OutAll   == \A x \in TxObjs : InOutbox(x)
Answered == Monitor /\ Asked("mon") /\ ~Asked("main") => OutAll

AllZero == \A c \in Checks : pre[c] = 0
Started == \E n \in Nodes : pr[n] # NoRequest \/ Asked(n)

Fresh ==
  /\ pr = [n \in Nodes |-> NoRequest] /\ inbox = [n \in Nodes |-> <<>>]
  /\ toSend = {} /\ outbox = <<>>
  /\ rxCnt = [n \in Nodes |-> [x \in RxObjs |-> 0]]
  /\ txCnt = [x \in TxObjs |-> 0]

TxKept ==
  /\ \A i \in DOMAIN outbox : outbox[i].data = txData[outbox[i].obj]
  /\ Monitor => \A x \in TxObjs, d \in Data :
       inbox["mon"] = <<TX(x, d)>> => d = txData[x]
  /\ \A m \in Modules : errFlags[m] = {} /\ ~off[m]

(***************************************************************************)
(* The cycle is undisturbed; or a request was counted twice and the next   *)
(* judgement is left out; or the one fault has not been judged yet, and    *)
(* every pre-counter is zero; or nothing was sent yet.                     *)
(***************************************************************************)
Whole     == Started /\ Counted /\ Answered
Unpaired  == \E n \in Nodes : pr[n] = Twice
Unjudged  == lost = 1 /\ AllZero /\ (Answered \/ Counted \/ ~Ready)
State     == Whole \/ Unpaired \/ Unjudged \/ (lost = 0 /\ Fresh)

Spared ==
  /\ lost = 0 => AllZero
  /\ (\A n \in Nodes : pr[n] = NoRequest) => AllZero

Mild     == lost <= 1 /\ wrong = 0
Health   == Order /\ Pairs /\ TxKept /\ State /\ Spared
AlarmInv == lost \in Nat /\ wrong \in Nat /\ (Mild => Health)

\* A frame tells its type, its object and its contents.
LEMMA FramesDiffer ==
  /\ \A x, d : PR # RX(x, d) /\ PR # TX(x, d)
  /\ \A x, d : <<PR>> # <<RX(x, d)>> /\ <<PR>> # <<TX(x, d)>>
  /\ \A x, d, y, e : <<RX(x, d)>> # <<TX(y, e)>>
  /\ \A x, d, y, e : <<RX(x, d)>> = <<RX(y, e)>> => x = y /\ d = e
  /\ \A x, d, y, e : <<TX(x, d)>> = <<TX(y, e)>> => x = y /\ d = e
<1>1. \A f, g : <<f>> = <<g>> => f = g
  OBVIOUS
<1>2. \A x, d : PR # RX(x, d) /\ PR # TX(x, d)
  <2>1. "PR" # "RX" /\ "PR" # "TX"
    OBVIOUS
  <2> QED
    BY <2>1, FrameTypes
<1>3. \A x, d, y, e : RX(x, d) # TX(y, e)
  <2>1. "RX" # "TX"
    OBVIOUS
  <2> QED
    BY <2>1, FrameTypes
<1>4. \A x, d, y, e : RX(x, d) = RX(y, e) => x = y /\ d = e
  BY FrameTypes
<1>5. \A x, d, y, e : TX(x, d) = TX(y, e) => x = y /\ d = e
  BY FrameTypes
<1> QED
  BY <1>1, <1>2, <1>3, <1>4, <1>5

\* An inbox with one frame, and a frame put into an empty one.
LEMMA Singletons ==
  /\ \A f : <<f>> # <<>> /\ Head(<<f>>) = f /\ Tail(<<f>>) = <<>>
  /\ \A f : Append(<<>>, f) = <<f>>
  OBVIOUS

\* The values a node's counting of requests takes.
LEMMA PairValues ==
  /\ NoRequest # Once /\ NoRequest # Twice /\ Once # Twice
  /\ ~NoRequest.flag /\ Once.flag /\ Twice.flag
  /\ ~NoRequest.long /\ ~Once.long /\ ~Twice.long
  /\ NoRequest.cnt = 0 /\ Once.cnt = 1 /\ Twice.cnt = 2
  BY DEF NoRequest, Once, Twice

\* There is the main node and, with the monitor controller, one other.
LEMMA NodeNames ==
  /\ \A n \in Nodes : n = "main" \/ (n = "mon" /\ Monitor)
  /\ Monitor => "mon" \in Nodes
  /\ "main" \in Nodes /\ "main" # "mon"
  BY DEF Nodes

\* What a broadcast without a falsified frame leaves in the inboxes.
LEMMA Delivered ==
  ASSUME OnTheBus, Lag = 1, NEW f, NEW to \in SUBSET Nodes, Broadcast(f, to),
         wrong \in Nat, lost \in Nat, wrong' = 0, lost' <= 1
  PROVE  /\ \A n \in to : inbox[n] = <<>>
         /\ wrong = 0
         /\ \E got \in SUBSET to :
              /\ inbox' = [n \in Nodes |-> IF n \in got THEN <<f>> ELSE inbox[n]]
              /\ \/ got = to /\ lost' = lost
                 \/ lost = 0 /\ lost' = 1
<1>1. \A n \in to : inbox[n] = <<>>
  <2> SUFFICES ASSUME NEW n \in to PROVE inbox[n] = <<>>
    OBVIOUS
  <2>1. inbox[n] \in Seq(Frames)
    BY DEF OnTheBus
  <2>2. Len(inbox[n]) < 1
    BY DEF Broadcast
  <2> QED
    BY <2>1, <2>2
<1>2. ASSUME NEW got \in SUBSET to, Deliver(f, got, {})
      PROVE  inbox' = [n \in Nodes |-> IF n \in got THEN <<f>> ELSE inbox[n]]
  <2>1. \A n \in got : Append(inbox[n], f) = <<f>>
    BY <1>1, Singletons
  <2>2. inbox' = [n \in Nodes |-> IF n \in got THEN Append(inbox[n], f) ELSE inbox[n]]
    BY <1>2 DEF Deliver
  <2> QED
    BY <2>1, <2>2
<1>3. CASE Deliver(f, to, {}) /\ UNCHANGED faults
  BY <1>1, <1>2, <1>3 DEF faults
<1>4. CASE Lose(f, to)
  <2>1. PICK got \in (SUBSET to) \ {to} : Deliver(f, got, {})
    BY <1>4 DEF Lose
  <2>2. lost' = lost + 1 /\ wrong' = wrong
    BY <1>4 DEF Lose
  <2>3. lost = 0 /\ lost' = 1
    BY <2>2
  <2> QED
    BY <1>1, <1>2, <2>1, <2>2, <2>3
<1>5. CASE Falsify(f, to)
  <2>1. wrong' = wrong + 1
    BY <1>5 DEF Falsify
  <2> QED
    BY <2>1
<1> QED
  BY <1>3, <1>4, <1>5 DEF Broadcast

\* Without a request to handle the counters are this cycle's.
LEMMA NoneAsked ==
  ASSUME \A n \in Nodes : ~Asked(n)
  PROVE  ~LastCycle /\ Answered
  BY NodeNames DEF LastCycle, Answered

\* A handler that takes a request was asked.
LEMMA RequestAsked ==
  ASSUME Order, NEW n \in Nodes, Take(n), Head(inbox[n]) = PR
  PROVE  Asked(n)
<1>1. ASSUME NEW x, Carries(n, x) PROVE FALSE
  BY <1>1, FramesDiffer, Singletons DEF Carries
<1>2. ASSUME NEW x, n = "mon", LoopsBack(x) PROVE FALSE
  BY <1>2, FramesDiffer, Singletons DEF LoopsBack
<1> QED
  BY <1>1, <1>2 DEF Order, Waiting, Take

\* While a node has a request to handle no data frame waits.
LEMMA OnlyRequests ==
  ASSUME Order, NEW k \in Nodes, Asked(k), NEW n \in Nodes
  PROVE  /\ \A x : ~Carries(n, x)
         /\ n = "mon" => \A x : ~LoopsBack(x)
         /\ toSend = RxObjs
<1>1. inbox[n] = <<>> \/ inbox[n] = <<PR>>
  BY DEF Order, RequestsAlone, Asked
<1> QED
  BY <1>1, FramesDiffer, Singletons DEF Order, RequestsAlone, Carries, LoopsBack

\* The three frames a broadcast can be of.
LEMMA RequestDelivered ==
  ASSUME OnTheBus, Lag = 1, AlarmInv, Mild', MasterRequest
  PROVE  /\ Mild
         /\ \A n \in Nodes : inbox[n] = <<>>
         /\ \E got \in SUBSET Nodes :
              /\ inbox' = [n \in Nodes |-> IF n \in got THEN <<PR>> ELSE inbox[n]]
              /\ (got = Nodes /\ lost' = lost) \/ (lost = 0 /\ lost' = 1)
<1>1. Broadcast(PR, Nodes)
  BY DEF MasterRequest
<1>2. wrong \in Nat /\ lost \in Nat /\ wrong' = 0 /\ lost' <= 1
  BY DEF AlarmInv, Mild
<1>3. /\ \A n \in Nodes : inbox[n] = <<>>
      /\ wrong = 0
      /\ \E got \in SUBSET Nodes :
           /\ inbox' = [n \in Nodes |-> IF n \in got THEN <<PR>> ELSE inbox[n]]
           /\ \/ got = Nodes /\ lost' = lost
              \/ lost = 0 /\ lost' = 1
  BY <1>1, <1>2, Delivered
<1>4. lost <= 1
  BY <1>2, <1>3
<1> QED
  BY <1>3, <1>4 DEF Mild

\* The master asks when the cycle before is through.
LEMMA MasterRequestOrder ==
  ASSUME OnTheBus, Lag = 1, AlarmInv, Mild', MasterRequest
  PROVE  Order'
<1>1. PICK got \in SUBSET Nodes :
        inbox' = [n \in Nodes |-> IF n \in got THEN <<PR>> ELSE inbox[n]]
  BY RequestDelivered
<1>2. \A n \in Nodes : inbox[n] = <<>>
  BY RequestDelivered
<1>3. \A n \in Nodes : inbox'[n] = <<>> \/ inbox'[n] = <<PR>>
  BY <1>1, <1>2
<1>4. toSend' = RxObjs /\ outbox = <<>> /\ outbox' = <<>>
  BY DEF MasterRequest
<1>5. OneEach'
  BY <1>4 DEF OneEach
<1>6. (\A n \in Nodes : Waiting(n))'
  BY <1>3, Zenon DEF Waiting, Asked
<1>7. RequestsAlone'
  BY <1>3, <1>4, Zenon DEF RequestsAlone, Asked
<1> QED
  BY <1>5, <1>6, <1>7 DEF Order

\* The request begins the next cycle, or is the one frame lost.
LEMMA MasterRequestHealth ==
  ASSUME OnTheBus, Lag = 1, AlarmInv, Mild', MasterRequest
  PROVE  Health'
<1>1. /\ Mild
      /\ \A n \in Nodes : inbox[n] = <<>>
      /\ \E got \in SUBSET Nodes :
           /\ inbox' = [n \in Nodes |-> IF n \in got THEN <<PR>> ELSE inbox[n]]
           /\ (got = Nodes /\ lost' = lost) \/ (lost = 0 /\ lost' = 1)
  BY RequestDelivered
<1>2. PICK got \in SUBSET Nodes :
           /\ inbox' = [n \in Nodes |-> IF n \in got THEN <<PR>> ELSE inbox[n]]
           /\ (got = Nodes /\ lost' = lost) \/ (lost = 0 /\ lost' = 1)
  BY <1>1
<1>3. /\ UNCHANGED vars /\ toSend = {} /\ outbox = <<>>
      /\ toSend' = RxObjs /\ outbox' = <<>>
  BY DEF MasterRequest
<1>4. Health
  BY <1>1 DEF AlarmInv
<1>5. \A n \in Nodes : ~Asked(n)
  BY <1>1, Singletons DEF Asked
<1>6. \A n \in Nodes : Asked(n)' <=> n \in got
  BY <1>1, <1>2, Singletons DEF Asked
<1>7. Order'
  BY MasterRequestOrder
<1>8. UNCHANGED <<pr, pre, rxCnt, txCnt, rxData, txData, errFlags, off>>
  BY <1>3 DEF vars, prVars, verdict
<1>9. Pairs'
  <2>1. ASSUME NEW n \in Nodes, NEW k \in Nodes, n # k
        PROVE  Pair(n, k)'
    <3>1. Pair(n, k)
      BY <1>4, <2>1 DEF Health, Pairs
    <3>2. ~Asked(n) /\ ~Asked(k)
      BY <1>5
    <3>3. lost' = lost => (Asked(n)' /\ Asked(k)')
      BY <1>2, <1>6
    <3>4. lost' = lost \/ (lost = 0 /\ lost' = 1)
      BY <1>2
    <3> QED
      BY <1>8, <3>1, <3>2, <3>3, <3>4 DEF Pair
  <2>2. lost' = lost \/ lost' = 1
    BY <1>2
  <2> QED
    BY <1>4, <1>8, <2>1 DEF Health, Pairs
<1>10. TxKept'
  <2>1. \A n \in Nodes : inbox'[n] = <<>> \/ inbox'[n] = <<PR>>
    BY <1>1, <1>2
  <2> QED
    BY <1>3, <1>4, <1>8, <2>1, NodeNames, FramesDiffer, Singletons DEF Health, TxKept
<1>11. AllZero' <=> AllZero
  BY <1>8 DEF AllZero
<1>12. Spared'
  BY <1>2, <1>4, <1>8, <1>11 DEF Health, Spared, Mild
<1>13. \A n \in Nodes, x \in RxObjs : ~Carries(n, x) /\ ~Carries(n, x)'
  <2>1. \A n \in Nodes : inbox'[n] = <<>> \/ inbox'[n] = <<PR>>
    BY <1>1, <1>2
  <2> QED
    BY <1>1, <2>1, FramesDiffer, Singletons DEF Carries
<1>14. \A n \in Nodes, x \in RxObjs :
         View(n, x) = rxData[n][x] /\ View(n, x)' = rxData[n][x]
  BY <1>8, <1>13 DEF View
<1>15. ~LastCycle
  BY <1>5, NoneAsked
<1>16. got = Nodes => Answered'
  BY <1>6, NodeNames DEF Answered
<1>17. ASSUME Counted, LastCycle'
       PROVE  Counted'
  <2>1. RxCounted'
    BY <1>3, <1>8, <1>13, <1>15, <1>17 DEF Counted, RxCounted, DueRx
  <2>2. ASSUME Monitor, NEW x \in TxObjs
        PROVE  txCnt[x] = 1
    <3>1. ~InOutbox(x)
      BY <1>3 DEF InOutbox
    <3>2. ~LoopsBack(x)
      BY <1>1, <2>2, NodeNames, Singletons DEF LoopsBack
    <3> QED
      BY <1>5, <1>17, <2>2, <3>1, <3>2, NodeNames DEF Counted, TxCounted, DueTx
  <2>3. TxCounted'
    BY <1>8, <1>17, <2>2 DEF TxCounted, DueTx
  <2>4. Alike'
    BY <1>3, <1>14, <1>17, NodeNames DEF Counted, Alike
  <2> QED
    BY <2>1, <2>3, <2>4 DEF Counted
<1>18. SUFFICES State'
  BY <1>7, <1>9, <1>10, <1>12 DEF Health
<1>19. CASE Whole
  <2>1. PICK n \in Nodes : pr[n] # NoRequest
    BY <1>5, <1>19 DEF Whole, Started
  <2>2. CASE got = Nodes
    <3>1. LastCycle'
      BY <1>6, <1>8, <2>1, <2>2 DEF LastCycle
    <3> QED
      BY <1>8, <1>16, <1>17, <1>19, <2>1, <2>2, <3>1 DEF Whole, Started, State
  <2>3. CASE lost = 0 /\ lost' = 1
    <3>1. AllZero'
      BY <1>4, <1>11, <2>3 DEF Health, Spared
    <3>2. CASE Ready' /\ got # {}
      <4>1. LastCycle'
        BY <1>6, <3>2 DEF LastCycle
      <4> QED
        BY <1>17, <1>19, <2>3, <3>1, <4>1 DEF Whole, State, Unjudged
    <3>3. CASE got = {}
      <4>1. Answered'
        BY <1>6, <3>3, NodeNames DEF Answered
      <4> QED
        BY <2>3, <3>1, <4>1 DEF State, Unjudged
    <3>4. CASE ~Ready'
      BY <2>3, <3>1, <3>4 DEF State, Unjudged
    <3> QED
      BY <3>2, <3>3, <3>4
  <2> QED
    BY <1>2, <2>2, <2>3
<1>20. CASE Unpaired
  BY <1>8, <1>20 DEF State, Unpaired
<1>21. CASE Unjudged
  BY <1>2, <1>11, <1>16, <1>21 DEF State, Unjudged
<1>22. CASE lost = 0 /\ Fresh
  <2>1. \A n \in Nodes : pr[n] = NoRequest
    BY <1>22 DEF Fresh
  <2>2. ~Ready'
    BY <1>8, <2>1, NodeNames, PairValues DEF Ready
  <2>3. CASE lost' = 1
    BY <1>4, <1>11, <1>22, <2>2, <2>3 DEF Health, Spared, State, Unjudged
  <2>4. CASE got = Nodes
    <3>1. ~LastCycle'
      BY <1>8, <2>1, <2>2 DEF LastCycle
    <3>2. RxCounted'
      BY <1>3, <1>8, <1>22, <3>1 DEF Fresh, RxCounted, DueRx
    <3>3. TxCounted'
      BY <1>6, <1>8, <1>22, <2>4, <3>1, NodeNames DEF Fresh, TxCounted, DueTx
    <3>4. Alike'
      BY <1>3, <3>1 DEF Alike
    <3>5. Started'
      BY <1>6, <2>4, NodeNames DEF Started
    <3> QED
      BY <1>16, <2>4, <3>2, <3>3, <3>4, <3>5 DEF State, Whole, Counted
  <2> QED
    BY <1>2, <2>3, <2>4
<1> QED
  BY <1>4, <1>19, <1>20, <1>21, <1>22 DEF Health, State

\* A frame broadcast while nobody has a request to handle, and lost by some of
\* the nodes: the one fault, not judged yet.
LEMMA LostFrame ==
  ASSUME Health, lost = 0, lost' = 1, UNCHANGED vars, Order', TxKept',
         \A n \in Nodes : ~Asked(n) /\ ~Asked(n)'
  PROVE  Health'
<1>1. UNCHANGED <<pr, pre>>
  BY DEF vars, prVars, verdict
<1>2. AllZero /\ AllZero'
  BY <1>1 DEF Health, Spared, AllZero
<1>3. Pairs'
  <2>1. ASSUME NEW n \in Nodes, NEW k \in Nodes, n # k
        PROVE  Pair(n, k)'
    <3>1. Pair(n, k)
      BY <2>1 DEF Health, Pairs
    <3> QED
      BY <1>1, <3>1 DEF Pair
  <2> QED
    BY <1>1, <2>1 DEF Health, Pairs
<1>4. Answered'
  BY NodeNames DEF Answered
<1>5. State' /\ Spared'
  BY <1>2, <1>4 DEF State, Unjudged, Spared
<1> QED
  BY <1>3, <1>5 DEF Health

\* A frame broadcast or taken without a fault: only the counting matters.
LEMMA FrameSent ==
  ASSUME Health, lost' = lost, UNCHANGED <<pr, pre>>, Order', TxKept',
         \A n \in Nodes : ~Asked(n) /\ ~Asked(n)',
         ~Fresh, Whole => Counted'
  PROVE  Health'
<1>1. Pairs'
  <2>1. ASSUME NEW n \in Nodes, NEW k \in Nodes, n # k
        PROVE  Pair(n, k)'
    <3>1. Pair(n, k)
      BY <2>1 DEF Health, Pairs
    <3> QED
      BY <3>1 DEF Pair
  <2> QED
    BY <2>1 DEF Health, Pairs
<1>2. Answered'
  BY NodeNames DEF Answered
<1>3. Spared' /\ (AllZero => AllZero')
  BY DEF Health, Spared, AllZero
<1>4. State'
  <2>1. CASE Whole
    BY <1>2, <2>1 DEF Whole, Started, State
  <2>2. CASE Unpaired
    BY <2>2 DEF Unpaired, State
  <2>3. CASE Unjudged
    BY <1>2, <1>3, <2>3 DEF Unjudged, State
  <2> QED
    BY <2>1, <2>2, <2>3 DEF Health, State
<1> QED
  BY <1>1, <1>3, <1>4 DEF Health

\* A data frame of the master is due no longer but carried, or lost.
LEMMA MasterDataHealth ==
  ASSUME OnTheBus, Lag = 1, AlarmInv, Mild', MasterData
  PROVE  Health'
<1>1. PICK x \in toSend, d \in Data :
        Broadcast(RX(x, d), Nodes) /\ toSend' = toSend \ {x}
        /\ UNCHANGED <<vars, outbox>>
  BY DEF MasterData
<1>2. wrong \in Nat /\ lost \in Nat /\ wrong' = 0 /\ lost' <= 1
  BY DEF AlarmInv, Mild
<1>3. /\ \A n \in Nodes : inbox[n] = <<>>
      /\ wrong = 0
      /\ \E got \in SUBSET Nodes :
           /\ inbox' = [n \in Nodes |-> IF n \in got THEN <<RX(x, d)>> ELSE inbox[n]]
           /\ \/ got = Nodes /\ lost' = lost
              \/ lost = 0 /\ lost' = 1
  BY <1>1, <1>2, Delivered
<1>4. PICK got \in SUBSET Nodes :
           /\ inbox' = [n \in Nodes |-> IF n \in got THEN <<RX(x, d)>> ELSE inbox[n]]
           /\ \/ got = Nodes /\ lost' = lost
              \/ lost = 0 /\ lost' = 1
  BY <1>3
<1>5. Health
  BY <1>2, <1>3 DEF AlarmInv, Mild
<1>6. x \in RxObjs /\ x \notin toSend'
  BY <1>1 DEF OnTheBus
<1>7. \A n \in Nodes : inbox'[n] = <<>> \/ inbox'[n] = <<RX(x, d)>>
  BY <1>3, <1>4
<1>8. \A n \in Nodes : ~Asked(n) /\ ~Asked(n)'
  BY <1>3, <1>7, FramesDiffer, Singletons DEF Asked
<1>9. \A n \in Nodes : inbox'[n] = <<RX(x, d)>> => Carries(n, x)'
  BY DEF Carries
<1>10. Order'
  <2>1. (\A n \in Nodes : Waiting(n))'
    BY <1>6, <1>7, <1>9 DEF Waiting
  <2>2. OneEach'
    BY <1>1, <1>5 DEF Health, Order, OneEach
  <2> QED
    BY <1>8, <2>1, <2>2 DEF Order, RequestsAlone
<1>11. UNCHANGED <<pr, pre, rxCnt, txCnt, rxData, txData, errFlags, off>>
  BY <1>1 DEF vars, prVars, verdict
<1>12. TxKept'
  BY <1>1, <1>5, <1>7, <1>11, NodeNames, FramesDiffer, Singletons DEF Health, TxKept
<1>13. CASE lost = 0 /\ lost' = 1
  BY <1>1, <1>5, <1>8, <1>10, <1>12, <1>13, LostFrame
<1>14. CASE got = Nodes /\ lost' = lost
  <2>1. \A n \in Nodes : inbox'[n] = <<RX(x, d)>>
    BY <1>4, <1>14
  <2>2. \A n \in Nodes, y \in RxObjs : ~Carries(n, y) /\ (Carries(n, y)' <=> y = x)
    <3>1. \A n \in Nodes, y \in RxObjs : ~Carries(n, y)
      BY <1>3, Singletons DEF Carries
    <3>2. \A n \in Nodes, y \in RxObjs : Carries(n, y)' => y = x
      BY <2>1, FramesDiffer DEF Carries
    <3> QED
      BY <1>9, <2>1, <3>1, <3>2
  <2>3. \A n \in Nodes : View(n, x)' = d
    BY <1>6, <2>1, <2>2, FrameTypes, Singletons DEF View
  <2>4. \A n \in Nodes, y \in RxObjs : y # x => View(n, y)' = View(n, y)
    BY <1>11, <2>2 DEF View
  <2>5. ~LastCycle /\ ~LastCycle'
    BY <1>8 DEF LastCycle
  <2>6. ASSUME Whole PROVE Counted'
    <3>1. RxCounted'
      BY <1>1, <1>11, <2>2, <2>5, <2>6 DEF Whole, Counted, RxCounted, DueRx
    <3>2. ASSUME Monitor, NEW y \in TxObjs
          PROVE  DueTx(y)' <=> DueTx(y)
      <4>1. ~LoopsBack(y) /\ ~LoopsBack(y)'
        BY <1>3, <2>1, <3>2, NodeNames, FramesDiffer, Singletons DEF LoopsBack
      <4> QED
        BY <1>1, <1>8, <2>5, <4>1, NodeNames DEF DueTx, InOutbox
    <3>3. TxCounted'
      BY <1>11, <2>6, <3>2 DEF Whole, Counted, TxCounted
    <3>4. Alike'
      BY <1>1, <2>3, <2>4, <2>5, <2>6, NodeNames DEF Whole, Counted, Alike
    <3> QED
      BY <3>1, <3>3, <3>4 DEF Counted
  <2>7. ~Fresh
    BY <1>1 DEF Fresh
  <2> QED
    BY <1>5, <1>8, <1>10, <1>11, <1>12, <1>14, <2>6, <2>7, FrameSent
<1> QED
  BY <1>4, <1>13, <1>14

\* The frame the slave sends leaves the outbox, the others stay.
LEMMA SentAway ==
  ASSUME OnTheBus, Order, outbox # <<>>, outbox' = Tail(outbox)
  PROVE  \E x \in TxObjs, d \in Data :
           /\ Head(outbox) = TX(x, d)
           /\ InOutbox(x) /\ ~InOutbox(x)'
           /\ \A y : y # x => (InOutbox(y)' <=> InOutbox(y))
           /\ OneEach'
           /\ TxKept => d = txData[x]
           /\ \A j \in DOMAIN outbox' : \E i \in DOMAIN outbox : outbox'[j] = outbox[i]
<1>1. /\ outbox \in Seq(TxFrames) /\ Len(outbox) \in Nat /\ Len(outbox) >= 1
      /\ DOMAIN outbox = 1 .. Len(outbox)
      /\ DOMAIN outbox' = 1 .. Len(outbox) - 1
      /\ \A j \in 1 .. Len(outbox) - 1 : outbox'[j] = outbox[j + 1]
      /\ Head(outbox) = outbox[1]
  BY DEF OnTheBus
<1>2. PICK x \in TxObjs, d \in Data : outbox[1] = TX(x, d)
  BY <1>1 DEF TxFrames
<1>3. outbox[1].obj = x /\ outbox[1].data = d
  BY <1>2, FrameTypes
<1>4. \A i \in 1 .. Len(outbox) : outbox[i].obj = x => i = 1
  BY <1>1, <1>3 DEF Order, OneEach
<1>5. InOutbox(x)
  BY <1>1, <1>3 DEF InOutbox
<1>6. ~InOutbox(x)'
  <2> SUFFICES ASSUME NEW j \in 1 .. Len(outbox) - 1, outbox'[j].obj = x
               PROVE  FALSE
    BY <1>1 DEF InOutbox
  <2>1. j + 1 \in 1 .. Len(outbox) /\ j + 1 # 1
    BY <1>1
  <2> QED
    BY <1>1, <1>4, <2>1
<1>7. ASSUME NEW y, y # x
      PROVE  InOutbox(y)' <=> InOutbox(y)
  <2>1. ASSUME InOutbox(y)'
        PROVE  InOutbox(y)
    <3>1. PICK j \in 1 .. Len(outbox) - 1 : outbox'[j].obj = y
      BY <1>1, <2>1 DEF InOutbox
    <3>2. j + 1 \in 1 .. Len(outbox)
      BY <1>1
    <3> QED
      BY <1>1, <3>1, <3>2 DEF InOutbox
  <2>2. ASSUME InOutbox(y)
        PROVE  InOutbox(y)'
    <3>1. PICK i \in 1 .. Len(outbox) : outbox[i].obj = y
      BY <1>1, <2>2 DEF InOutbox
    <3>2. i # 1
      BY <1>3, <1>7, <3>1
    <3>3. i - 1 \in 1 .. Len(outbox) - 1 /\ (i - 1) + 1 = i
      BY <1>1, <3>2
    <3>4. outbox'[i - 1] = outbox[i]
      BY <1>1, <3>3
    <3> QED
      BY <1>1, <3>1, <3>3, <3>4 DEF InOutbox
  <2> QED
    BY <2>1, <2>2
<1>8. OneEach'
  <2> SUFFICES ASSUME NEW i \in 1 .. Len(outbox) - 1, NEW j \in 1 .. Len(outbox) - 1,
                      outbox'[i].obj = outbox'[j].obj
               PROVE  i = j
    BY <1>1 DEF OneEach
  <2>1. i + 1 \in 1 .. Len(outbox) /\ j + 1 \in 1 .. Len(outbox)
    BY <1>1
  <2>2. i + 1 = j + 1
    BY <1>1, <2>1 DEF Order, OneEach
  <2> QED
    BY <2>2
<1>9. TxKept => d = txData[x]
  BY <1>1, <1>3 DEF TxKept
<1>10. \A j \in DOMAIN outbox' : \E i \in DOMAIN outbox : outbox'[j] = outbox[i]
  <2>1. \A j \in 1 .. Len(outbox) - 1 : j + 1 \in 1 .. Len(outbox)
    BY <1>1
  <2> QED
    BY <1>1, <2>1
<1> QED
  BY <1>1, <1>2, <1>5, <1>6, <1>7, <1>8, <1>9, <1>10

\* The slave's own frame loops back to the monitor node, or is lost.
LEMMA SlaveSendsHealth ==
  ASSUME OnTheBus, Lag = 1, AlarmInv, Mild', SlaveSends
  PROVE  Health'
<1>1. /\ outbox # <<>> /\ outbox' = Tail(outbox) /\ UNCHANGED <<vars, toSend>>
      /\ Broadcast(Head(outbox), Nodes \ {"main"})
  BY DEF SlaveSends
<1>2. wrong \in Nat /\ lost \in Nat /\ wrong' = 0 /\ lost' <= 1
  BY DEF AlarmInv, Mild
<1>3. /\ \A n \in Nodes \ {"main"} : inbox[n] = <<>>
      /\ wrong = 0
      /\ \E got \in SUBSET (Nodes \ {"main"}) :
           /\ inbox' = [n \in Nodes |->
                          IF n \in got THEN <<Head(outbox)>> ELSE inbox[n]]
           /\ \/ got = Nodes \ {"main"} /\ lost' = lost
              \/ lost = 0 /\ lost' = 1
  <2>1. Nodes \ {"main"} \in SUBSET Nodes
    OBVIOUS
  <2> QED
    BY <1>1, <1>2, <2>1, Delivered
<1>4. PICK got \in SUBSET (Nodes \ {"main"}) :
           /\ inbox' = [n \in Nodes |->
                          IF n \in got THEN <<Head(outbox)>> ELSE inbox[n]]
           /\ \/ got = Nodes \ {"main"} /\ lost' = lost
              \/ lost = 0 /\ lost' = 1
  BY <1>3
<1>5. Health
  BY <1>2, <1>3 DEF AlarmInv, Mild
<1>6. PICK x \in TxObjs, d \in Data :
           /\ Head(outbox) = TX(x, d)
           /\ InOutbox(x) /\ ~InOutbox(x)'
           /\ \A y : y # x => (InOutbox(y)' <=> InOutbox(y))
           /\ OneEach'
           /\ TxKept => d = txData[x]
           /\ \A j \in DOMAIN outbox' : \E i \in DOMAIN outbox : outbox'[j] = outbox[i]
  BY <1>1, <1>5, SentAway DEF Health
<1>7. \A n \in Nodes : \/ n = "main" /\ inbox'[n] = inbox[n]
                       \/ n = "mon" /\ Monitor /\ inbox[n] = <<>>
                          /\ (inbox'[n] = <<>> \/ inbox'[n] = <<TX(x, d)>>)
  BY <1>3, <1>4, <1>6, NodeNames
<1>8. \A n \in Nodes : ~Asked(n) /\ ~Asked(n)'
  <2>1. ~Asked("main")
    BY <1>1, <1>5, NodeNames DEF Health, Order, RequestsAlone
  <2> QED
    BY <1>7, <2>1, FramesDiffer, Singletons DEF Asked
<1>9. \A n \in Nodes : \A y : Carries(n, y)' <=> Carries(n, y)
  BY <1>7, FramesDiffer, Singletons DEF Carries
<1>10. UNCHANGED <<pr, pre, rxCnt, txCnt, rxData, txData, errFlags, off>>
  BY <1>1 DEF vars, prVars, verdict
<1>11. Order'
  <2>1. Waiting("main")'
    <3>1. Waiting("main")
      BY <1>5, NodeNames DEF Health, Order
    <3> QED
      BY <1>1, <1>7, <1>8, <1>9, <3>1, NodeNames DEF Waiting
  <2>2. Monitor => Waiting("mon")'
    <3>1. inbox'["mon"] = <<TX(x, d)>> => LoopsBack(x)'
      BY DEF LoopsBack
    <3> QED
      BY <1>6, <1>7, <3>1, NodeNames DEF Waiting
  <2> QED
    BY <1>6, <1>8, <2>1, <2>2, NodeNames DEF Order, RequestsAlone
<1>12. TxKept'
  BY <1>5, <1>6, <1>7, <1>10, NodeNames, FramesDiffer, Singletons DEF Health, TxKept
<1>13. CASE lost = 0 /\ lost' = 1
  BY <1>1, <1>5, <1>8, <1>11, <1>12, <1>13, LostFrame
<1>14. CASE got = Nodes \ {"main"} /\ lost' = lost
  <2>1. ~LastCycle /\ ~LastCycle'
    BY <1>8 DEF LastCycle
  <2>2. ASSUME Whole PROVE Counted'
    <3>1. RxCounted'
      BY <1>1, <1>9, <1>10, <2>1, <2>2 DEF Whole, Counted, RxCounted, DueRx
    <3>2. ASSUME Monitor, NEW y \in TxObjs
          PROVE  DueTx(y)' <=> DueTx(y)
      <4>1. inbox["mon"] = <<>> /\ inbox'["mon"] = <<TX(x, d)>>
        BY <1>3, <1>4, <1>6, <1>14, <3>2, NodeNames
      <4>2. ~LoopsBack(y) /\ (LoopsBack(y)' <=> y = x)
        BY <4>1, FramesDiffer, Singletons DEF LoopsBack
      <4> QED
        BY <1>6, <1>8, <2>1, <4>2, NodeNames DEF DueTx
    <3>3. TxCounted'
      BY <1>10, <2>2, <3>2 DEF Whole, Counted, TxCounted
    <3>4. \A n \in Nodes, y \in RxObjs : View(n, y)' = View(n, y)
      <4>1. \A n \in Nodes : \A y : Carries(n, y) => inbox'[n] = inbox[n]
        BY <1>7, Singletons DEF Carries
      <4> QED
        BY <1>9, <1>10, <4>1 DEF View
    <3>5. Alike'
      BY <1>1, <2>1, <2>2, <3>4, NodeNames DEF Whole, Counted, Alike
    <3> QED
      BY <3>1, <3>3, <3>5 DEF Counted
  <2>3. ~Fresh
    BY <1>1 DEF Fresh
  <2> QED
    BY <1>5, <1>8, <1>10, <1>11, <1>12, <1>14, <2>2, <2>3, FrameSent
<1> QED
  BY <1>4, <1>13, <1>14

\* A data frame is handled only when nobody has a request to handle.
LEMMA DataHandled ==
  ASSUME OnTheBus, Order, NEW n \in Nodes, HandleData(n)
  PROVE  /\ \A k \in Nodes : ~Asked(k) /\ ~Asked(k)'
         /\ inbox'[n] = <<>> /\ \A k \in Nodes : k # n => inbox'[k] = inbox[k]
         /\ ~Fresh
         /\ \/ \E x \in RxObjs, d \in Data :
                 /\ inbox[n] = <<RX(x, d)>> /\ x \notin toSend
                 /\ RxData(n, x, TRUE, d)
            \/ \E x \in TxObjs, d \in Data :
                 /\ n = "mon" /\ Monitor /\ inbox[n] = <<TX(x, d)>> /\ ~InOutbox(x)
                 /\ MonTxData(x, TRUE, d)
<1> DEFINE f == Head(inbox[n])
<1>1. /\ inbox[n] # <<>> /\ inbox' = [inbox EXCEPT ![n] = Tail(@)]
      /\ \/ f.type = "RX" /\ RxData(n, f.obj, TRUE, f.data)
         \/ f.type = "TX" /\ MonTxData(f.obj, TRUE, f.data)
  BY DEF HandleData, Take
<1>2. ~Asked(n)
  <2>1. Asked(n) => f = PR
    BY Singletons DEF Asked
  <2>2. "PR" # "RX" /\ "PR" # "TX"
    OBVIOUS
  <2> QED
    BY <1>1, <2>1, <2>2, FrameTypes
<1>3. \A k \in Nodes : ~Asked(k)
  BY <1>1, <1>2 DEF Order, RequestsAlone
<1>4. /\ inbox'[n] = Tail(inbox[n])
      /\ \A k \in Nodes : k # n => inbox'[k] = inbox[k]
  BY <1>1 DEF OnTheBus
<1>5. ASSUME NEW x \in RxObjs, NEW d \in Data, inbox[n] = <<RX(x, d)>>
      PROVE  RxData(n, x, TRUE, d) /\ inbox'[n] = <<>>
  <2>1. f = RX(x, d) /\ Tail(inbox[n]) = <<>>
    BY <1>5, Singletons
  <2>2. f.type = "RX" /\ f.obj = x /\ f.data = d
    BY <2>1, FrameTypes
  <2>3. "RX" # "TX"
    OBVIOUS
  <2> HIDE DEF f
  <2> QED
    BY <1>1, <1>4, <2>1, <2>2, <2>3
<1>6. ASSUME NEW x \in TxObjs, NEW d \in Data, inbox[n] = <<TX(x, d)>>
      PROVE  MonTxData(x, TRUE, d) /\ inbox'[n] = <<>>
  <2>1. f = TX(x, d) /\ Tail(inbox[n]) = <<>>
    BY <1>6, Singletons
  <2>2. f.type = "TX" /\ f.obj = x /\ f.data = d
    BY <2>1, FrameTypes
  <2>3. "RX" # "TX"
    OBVIOUS
  <2> HIDE DEF f
  <2> QED
    BY <1>1, <1>4, <2>1, <2>2, <2>3
<1>7. \/ \E x \in RxObjs, d \in Data : inbox[n] = <<RX(x, d)>> /\ x \notin toSend
      \/ \E x \in TxObjs, d \in Data :
           n = "mon" /\ Monitor /\ inbox[n] = <<TX(x, d)>> /\ ~InOutbox(x)
  BY <1>1, <1>2, NodeNames DEF Order, Waiting, Carries, LoopsBack
<1>8. inbox'[n] = <<>>
  BY <1>5, <1>6, <1>7
<1>9. \A k \in Nodes : ~Asked(k)'
  BY <1>3, <1>4, <1>8, Singletons DEF Asked
<1>10. ~Fresh
  BY <1>1 DEF Fresh
<1> QED
  BY <1>3, <1>4, <1>5, <1>6, <1>7, <1>8, <1>9, <1>10

\* What was carried is counted, and the image holds what was seen.
LEMMA RxHandledHealth ==
  ASSUME OnTheBus, TypeOK, Health, NEW n \in Nodes, HandleData(n),
         NEW x \in RxObjs, NEW d \in Data,
         inbox[n] = <<RX(x, d)>>, x \notin toSend, RxData(n, x, TRUE, d)
  PROVE  Health'
<1>1. /\ \A k \in Nodes : ~Asked(k) /\ ~Asked(k)'
      /\ inbox'[n] = <<>> /\ \A k \in Nodes : k # n => inbox'[k] = inbox[k]
      /\ ~Fresh
  BY DataHandled DEF Health
<1>2. UNCHANGED <<toSend, outbox, lost>>
  BY DEF HandleData, Take, faults
<1>3. UNCHANGED <<pr, pre, txCnt, txData, errFlags, off>>
  BY DEF RxData, verdict
<1>4. /\ rxCnt'[n][x] = rxCnt[n][x] + 1
      /\ rxData'[n][x] = d
      /\ \A k \in Nodes, y \in RxObjs : (k # n \/ y # x) =>
           rxCnt'[k][y] = rxCnt[k][y] /\ rxData'[k][y] = rxData[k][y]
  <2>1. /\ rxCnt' = [rxCnt EXCEPT ![n][x] = @ + 1]
        /\ rxData' = [rxData EXCEPT ![n][x] = d]
    BY DEF RxData
  <2>2. /\ rxCnt \in [Nodes -> [RxObjs -> 0 .. MaxCnt]]
        /\ rxData \in [Nodes -> [RxObjs -> Data]]
    BY DEF TypeOK
  <2> QED
    BY <2>1, <2>2
<1>5. /\ Carries(n, x) /\ \A y : ~Carries(n, y)'
      /\ \A y : y # x => ~Carries(n, y)
      /\ \A k \in Nodes : \A y : k # n => (Carries(k, y)' <=> Carries(k, y))
  <2>1. Carries(n, x)
    BY DEF Carries
  <2>2. \A y : ~Carries(n, y)'
    BY <1>1, Singletons DEF Carries
  <2>3. \A y : y # x => ~Carries(n, y)
    BY FramesDiffer DEF Carries
  <2> QED
    BY <1>1, <2>1, <2>2, <2>3 DEF Carries
<1>6. Order'
  <2>1. ASSUME NEW k \in Nodes PROVE Waiting(k)'
    <3>1. Waiting(k)
      BY DEF Health, Order
    <3>2. CASE k = n
      BY <1>1, <3>2 DEF Waiting
    <3>3. CASE k # n
      BY <1>1, <1>2, <3>1, <3>3 DEF Waiting, Asked, Carries, LoopsBack, InOutbox
    <3> QED
      BY <3>2, <3>3
  <2> QED
    BY <1>1, <1>2, <2>1 DEF Health, Order, OneEach, RequestsAlone
<1>7. TxKept'
  <2>1. \A y \in TxObjs, e \in Data :
          Monitor /\ inbox'["mon"] = <<TX(y, e)>> => inbox["mon"] = <<TX(y, e)>>
    BY <1>1, NodeNames, Singletons
  <2> QED
    BY <1>2, <1>3, <2>1 DEF Health, TxKept
<1>8. ASSUME Whole PROVE Counted'
  <2>1. ~LastCycle /\ ~LastCycle'
    BY <1>1 DEF LastCycle
  <2>2. RxCounted'
    <3>1. rxCnt'[n][x] = 1 /\ ~DueRx(n, x)'
      BY <1>2, <1>4, <1>5, <1>8, <2>1 DEF Whole, Counted, RxCounted, DueRx
    <3>2. \A k \in Nodes, y \in RxObjs : (k # n \/ y # x) =>
            (DueRx(k, y)' <=> DueRx(k, y))
      BY <1>2, <1>5, <2>1 DEF DueRx
    <3> QED
      BY <1>4, <1>8, <3>1, <3>2 DEF Whole, Counted, RxCounted
  <2>3. TxCounted'
    <3>1. ASSUME Monitor, NEW y \in TxObjs PROVE LoopsBack(y)' <=> LoopsBack(y)
      BY <1>1, <3>1, NodeNames, FramesDiffer, Singletons DEF LoopsBack
    <3>2. ASSUME Monitor, NEW y \in TxObjs PROVE DueTx(y)' <=> DueTx(y)
      BY <1>1, <1>2, <2>1, <3>1, <3>2, NodeNames DEF DueTx, InOutbox
    <3> QED
      BY <1>3, <1>8, <3>2 DEF Whole, Counted, TxCounted
  <2>4. \A k \in Nodes, y \in RxObjs : View(k, y)' = View(k, y)
    <3>1. View(n, x)' = d /\ View(n, x) = d
      BY <1>4, <1>5, FrameTypes, Singletons DEF View
    <3>2. \A y \in RxObjs : y # x => View(n, y)' = View(n, y)
      BY <1>4, <1>5 DEF View
    <3>3. \A k \in Nodes, y \in RxObjs : k # n => View(k, y)' = View(k, y)
      BY <1>1, <1>4, <1>5 DEF View
    <3> QED
      BY <3>1, <3>2, <3>3
  <2>5. Alike'
    BY <1>2, <1>8, <2>1, <2>4, NodeNames DEF Whole, Counted, Alike
  <2> QED
    BY <2>2, <2>3, <2>5 DEF Counted
<1> QED
  BY <1>1, <1>2, <1>3, <1>6, <1>7, <1>8, FrameSent

\* The loop-back carries what the main node captured, and is counted.
LEMMA TxHandledHealth ==
  ASSUME OnTheBus, TypeOK, Health, HandleData("mon"), Monitor,
         NEW x \in TxObjs, NEW d \in Data,
         inbox["mon"] = <<TX(x, d)>>, ~InOutbox(x), MonTxData(x, TRUE, d)
  PROVE  Health'
<1>1. /\ \A k \in Nodes : ~Asked(k) /\ ~Asked(k)'
      /\ inbox'["mon"] = <<>> /\ inbox'["main"] = inbox["main"]
      /\ ~Fresh
  BY DataHandled, NodeNames DEF Health
<1>2. UNCHANGED <<toSend, outbox, lost>>
  BY DEF HandleData, Take, faults
<1>3. d = txData[x] /\ ~off[x[1]]
  BY ObjModule DEF Health, TxKept
<1>4. UNCHANGED <<pr, pre, rxCnt, rxData, txData, errFlags, off>>
  BY <1>3 DEF MonTxData, verdict
<1>5. /\ txCnt'[x] = txCnt[x] + 1
      /\ \A y \in TxObjs : y # x => txCnt'[y] = txCnt[y]
  <2>1. txCnt' = [txCnt EXCEPT ![x] = @ + 1]
    BY <1>3 DEF MonTxData
  <2>2. txCnt \in [TxObjs -> 0 .. MaxCnt]
    BY DEF TypeOK
  <2> QED
    BY <2>1, <2>2
<1>6. /\ LoopsBack(x) /\ \A y : ~LoopsBack(y)'
      /\ \A y : y # x => ~LoopsBack(y)
  <2>1. LoopsBack(x)
    BY DEF LoopsBack
  <2>2. \A y : ~LoopsBack(y)'
    BY <1>1, Singletons DEF LoopsBack
  <2>3. \A y : y # x => ~LoopsBack(y)
    BY FramesDiffer DEF LoopsBack
  <2> QED
    BY <2>1, <2>2, <2>3
<1>7. \A k \in Nodes : \A y : Carries(k, y)' <=> Carries(k, y)
  <2>1. \A y : ~Carries("mon", y) /\ ~Carries("mon", y)'
    BY <1>1, FramesDiffer, Singletons DEF Carries
  <2> QED
    BY <1>1, <2>1, NodeNames DEF Carries
<1>8. Order'
  <2>1. Waiting("main")'
    <3>1. Waiting("main")
      BY NodeNames DEF Health, Order
    <3> QED
      BY <1>1, <1>2, <1>7, <3>1, NodeNames DEF Waiting, Asked
  <2>2. Waiting("mon")'
    BY <1>1 DEF Waiting
  <2> QED
    BY <1>1, <1>2, <2>1, <2>2, NodeNames DEF Health, Order, OneEach, RequestsAlone
<1>9. TxKept'
  BY <1>1, <1>2, <1>4, Singletons DEF Health, TxKept
<1>10. ASSUME Whole PROVE Counted'
  <2>1. ~LastCycle /\ ~LastCycle'
    BY <1>1 DEF LastCycle
  <2>2. RxCounted'
    BY <1>2, <1>4, <1>7, <1>10, <2>1 DEF Whole, Counted, RxCounted, DueRx
  <2>3. TxCounted'
    <3>1. txCnt'[x] = 1 /\ ~DueTx(x)'
      <4>1. txCnt[x] = 0
        BY <1>6, <1>10, <2>1 DEF Whole, Counted, TxCounted, DueTx
      <4> QED
        BY <1>1, <1>2, <1>5, <1>6, <4>1, NodeNames DEF DueTx, InOutbox
    <3>2. \A y \in TxObjs : y # x => (DueTx(y)' <=> DueTx(y))
      BY <1>1, <1>2, <1>6, <2>1, NodeNames DEF DueTx, InOutbox
    <3> QED
      BY <1>5, <1>10, <3>1, <3>2 DEF Whole, Counted, TxCounted
  <2>4. \A k \in Nodes, y \in RxObjs : View(k, y)' = View(k, y)
    <3>1. \A k \in Nodes, y \in RxObjs : Carries(k, y) => inbox'[k] = inbox[k]
      BY <1>1, NodeNames, FramesDiffer DEF Carries
    <3> QED
      BY <1>4, <1>7, <3>1 DEF View
  <2>5. Alike'
    BY <1>2, <1>10, <2>1, <2>4, NodeNames DEF Whole, Counted, Alike
  <2> QED
    BY <2>2, <2>3, <2>5 DEF Counted
<1> QED
  BY <1>1, <1>2, <1>4, <1>8, <1>9, <1>10, FrameSent

\* Handling a data frame keeps the cycle whole.
LEMMA DataHealth ==
  ASSUME OnTheBus, TypeOK, Health, NEW n \in Nodes, HandleData(n)
  PROVE  Health'
<1>1. \/ \E x \in RxObjs, d \in Data :
           /\ inbox[n] = <<RX(x, d)>> /\ x \notin toSend
           /\ RxData(n, x, TRUE, d)
      \/ \E x \in TxObjs, d \in Data :
           /\ n = "mon" /\ Monitor /\ inbox[n] = <<TX(x, d)>> /\ ~InOutbox(x)
           /\ MonTxData(x, TRUE, d)
  BY DataHandled DEF Health
<1> QED
  BY <1>1, RxHandledHealth, TxHandledHealth

-----------------------------------------------------------------------------
(***************************************************************************)
(* A process request handled.                                              *)
(***************************************************************************)
LEMMA RequestHandled ==
  ASSUME OnTheBus, Order, NEW n \in Nodes, HandleRequest(n)
  PROVE  /\ Asked(n) /\ ~Asked(n)' /\ inbox'[n] = <<>>
         /\ \A k \in Nodes : k # n => inbox'[k] = inbox[k]
         /\ \A k \in Nodes : k # n => (Asked(k)' <=> Asked(k))
         /\ UNCHANGED <<toSend, lost, wrong>>
         /\ CheckProcessImage /\ Request(n, FALSE)
         /\ UNCHANGED <<rxData, off>>
<1>1. Take(n) /\ Head(inbox[n]) = PR
  BY DEF HandleRequest
<1>2. Asked(n)
  BY <1>1, RequestAsked
<1>3. inbox'[n] = <<>> /\ \A k \in Nodes : k # n => inbox'[k] = inbox[k]
  BY <1>1, <1>2, Singletons DEF Take, OnTheBus, Asked
<1>4. ~Asked(n)' /\ \A k \in Nodes : k # n => (Asked(k)' <=> Asked(k))
  BY <1>3, Singletons DEF Asked
<1>5. /\ CheckProcessImage /\ Request(n, FALSE)
      /\ UNCHANGED <<rxData, off>>
  BY DEF HandleRequest, ProcessRequestMain, ProcessRequestMon
<1> QED
  BY <1>1, <1>2, <1>3, <1>4, <1>5 DEF Take, faults

\* The main node answers with each transmit object once.
LEMMA AnswerSent ==
  ASSUME OnTheBus, Order, HandleRequest("main"), \A m \in Modules : ~off[m]
  PROVE  /\ OutAll' /\ OneEach'
         /\ \A i \in DOMAIN outbox' : outbox'[i].data = txData'[outbox'[i].obj]
<1>1. outbox = <<>>
  BY RequestHandled, NodeNames DEF Order, RequestsAlone
<1>2. PICK app \in [TxObjs -> Data],
           order \in [1 .. Cardinality(TxObjs) -> TxObjs] :
        /\ ProcessRequestMain(FALSE, app)
        /\ \A i, j \in DOMAIN order : i < j => order[i] # order[j]
        /\ outbox' = outbox \o [i \in DOMAIN order |-> TX(order[i], app[order[i]])]
  BY NodeNames DEF HandleRequest
<1> DEFINE N      == Cardinality(TxObjs)
           answer == [i \in DOMAIN order |-> TX(order[i], app[order[i]])]
<1>3. N \in Nat
  BY TxObjsFinite, FS_CardinalityType
<1>4. DOMAIN order = 1 .. N
  OBVIOUS
<1>5. answer \in Seq(TxFrames) /\ DOMAIN answer = 1 .. N
  <2>1. \A i \in 1 .. N : TX(order[i], app[order[i]]) \in TxFrames
    BY DEF TxFrames
  <2> QED
    BY <1>3, <1>4, <2>1
<1>6. \A i \in 1 .. N : answer[i] = TX(order[i], app[order[i]])
  BY <1>4
<1> HIDE DEF answer, N
<1>7. outbox' = answer
  <2>1. outbox' = <<>> \o answer
    BY <1>1, <1>2 DEF answer
  <2> QED
    BY <1>5, <2>1
<1>8. \A i \in 1 .. N : outbox'[i].obj = order[i] /\ outbox'[i].data = app[order[i]]
  BY <1>6, <1>7, FrameTypes
<1>9. \A i, j \in 1 .. N : order[i] = order[j] => i = j
  <2>1. \A i, j \in 1 .. N : i = j \/ i < j \/ j < i
    BY <1>3
  <2> QED
    BY <1>2, <1>4, <2>1
<1>10. \A x \in TxObjs : \E i \in 1 .. N : order[i] = x
  <2>1. IsFiniteSet(1 .. N) /\ Cardinality(1 .. N) = N
    <3>1. /\ IsFiniteSet(1 .. N)
          /\ Cardinality(1 .. N) = IF 1 > N THEN 0 ELSE N - 1 + 1
      BY <1>3, FS_Interval
    <3> QED
      BY <1>3, <3>1
  <2>2. order \in Injection(1 .. N, TxObjs)
    BY <1>4, <1>9 DEF Injection, IsInjective, N
  <2>3. order \in Surjection(1 .. N, TxObjs)
    BY <2>1, <2>2, TxObjsFinite, FS_Injection DEF N
  <2> QED
    BY <2>3 DEF Surjection
<1>11. txData' = app
  <2>1. txData' = [x \in TxObjs |-> IF off[x[1]] THEN txData[x] ELSE app[x]]
    BY <1>2 DEF ProcessRequestMain
  <2>2. \A x \in TxObjs : ~off[x[1]]
    BY ObjModule
  <2> QED
    BY <2>1, <2>2
<1>12. OutAll'
  BY <1>5, <1>7, <1>8, <1>10 DEF OutAll, InOutbox
<1>13. OneEach'
  BY <1>5, <1>7, <1>8, <1>9 DEF OneEach
<1> QED
  BY <1>5, <1>7, <1>8, <1>11, <1>12, <1>13

\* The monitor node only listens.
LEMMA MonitorAnswersNot ==
  ASSUME HandleRequest("mon")
  PROVE  UNCHANGED <<outbox, txData>>
  BY NodeNames DEF HandleRequest, ProcessRequestMon

\* Replacing flag and count in a node's counting of requests.
LEMMA RequestFields ==
  ASSUME NEW r \in {NoRequest, Once, Twice}
  PROVE  /\ r.flag \in BOOLEAN /\ r.cnt \in 0 .. 2
         /\ r = [flag |-> r.flag, cnt |-> r.cnt, long |-> FALSE]
         /\ \A f \in BOOLEAN, c \in Int :
              [r EXCEPT !.flag = f, !.cnt = c] = [flag |-> f, cnt |-> c, long |-> FALSE]
<1>1. \E g \in BOOLEAN, d \in 0 .. 2 : r = [flag |-> g, cnt |-> d, long |-> FALSE]
  <2>1. 0 \in 0 .. 2 /\ 1 \in 0 .. 2 /\ 2 \in 0 .. 2
    OBVIOUS
  <2>2. CASE r = NoRequest
    BY <2>1, <2>2, Zenon DEF NoRequest
  <2>3. CASE r = Once
    BY <2>1, <2>3, Zenon DEF Once
  <2>4. CASE r = Twice
    BY <2>1, <2>4, Zenon DEF Twice
  <2> QED
    BY <2>2, <2>3, <2>4
<1>2. PICK g \in BOOLEAN, d \in 0 .. 2, l \in BOOLEAN :
        r = [flag |-> g, cnt |-> d, long |-> l] /\ l = FALSE
  BY <1>1
<1>3. r.flag = g /\ r.cnt = d
  BY <1>2
<1>4. ASSUME NEW f \in BOOLEAN, NEW c \in Int
      PROVE  [r EXCEPT !.flag = f, !.cnt = c] = [flag |-> f, cnt |-> c, long |-> FALSE]
  <2> DEFINE s == [r EXCEPT !.flag = f]
  <2>1. s = [flag |-> f, cnt |-> d, long |-> l]
    BY <1>2, SMT
  <2> HIDE DEF s
  <2>2. [s EXCEPT !.cnt = c] = [flag |-> f, cnt |-> c, long |-> l]
    BY <2>1, SMT
  <2> QED
    BY <1>2, <2>2 DEF s
<1> QED
  BY <1>2, <1>3, <1>4

\* How the requests are counted.
LEMMA RequestCounted ==
  ASSUME Pairs, NEW n \in Nodes, Request(n, FALSE)
  PROVE  /\ pr' \in [Nodes -> {NoRequest, Once, Twice}] \/ (~Ready /\ pr[n] = Twice)
         /\ Ready => /\ pr'[n] = Once
                     /\ \A k \in Nodes : k # n => pr'[k] = NoRequest
         /\ ~Ready => /\ pr[n] = NoRequest => pr'[n] = Once
                      /\ pr[n] = Once => pr'[n] = Twice
                      /\ \A k \in Nodes : k # n => pr'[k] = pr[k]
<1> DEFINE cnt(k) == IF Ready THEN 0 ELSE pr[k].cnt
<1>1. pr' = [k \in Nodes |->
               IF k = n
               THEN [flag |-> TRUE, cnt |-> cnt(k) + 1, long |-> FALSE]
               ELSE [pr[k] EXCEPT !.flag = @ /\ ~Ready, !.cnt = cnt(k)]]
  BY DEF Request
<1>2. \A k \in Nodes : pr[k] \in {NoRequest, Once, Twice}
  BY DEF Pairs
<1> DEFINE other(k) == [pr[k] EXCEPT !.flag = @ /\ ~Ready, !.cnt = cnt(k)]
<1>5. /\ pr'[n] = [flag |-> TRUE, cnt |-> cnt(n) + 1, long |-> FALSE]
      /\ \A k \in Nodes : k # n => pr'[k] = other(k)
  BY <1>1
<1>6. \A k \in Nodes : cnt(k) = IF Ready THEN 0 ELSE pr[k].cnt
  OBVIOUS
<1>7. ASSUME NEW k \in Nodes, NEW f \in BOOLEAN, f = (pr[k].flag /\ ~Ready)
      PROVE  other(k) = [flag |-> f, cnt |-> cnt(k), long |-> FALSE]
  <2>1. cnt(k) \in Int
    <3>1. pr[k].cnt \in 0 .. 2
      BY <1>2, RequestFields
    <3> QED
      BY <3>1
  <2> HIDE DEF cnt
  <2>2. other(k) = [pr[k] EXCEPT !.flag = f, !.cnt = cnt(k)]
    BY <1>7
  <2> HIDE DEF other
  <2>3. pr[k] \in {NoRequest, Once, Twice}
    BY <1>2
  <2>4. [pr[k] EXCEPT !.flag = f, !.cnt = cnt(k)]
          = [flag |-> f, cnt |-> cnt(k), long |-> FALSE]
    BY <2>1, <2>3, RequestFields, Zenon
  <2> QED
    BY <2>2, <2>4
<1> HIDE DEF cnt, other
<1>3. CASE Ready
  <2>1. pr'[n] = Once
    <3>1. cnt(n) = 0
      BY <1>3, <1>6
    <3> QED
      BY <1>5, <3>1 DEF Once
  <2>2. ASSUME NEW k \in Nodes, k # n PROVE pr'[k] = NoRequest
    <3>1. FALSE = (pr[k].flag /\ ~Ready)
      BY <1>3
    <3>2. pr'[k] = [flag |-> FALSE, cnt |-> 0, long |-> FALSE]
      BY <1>3, <1>5, <1>6, <1>7, <2>2, <3>1
    <3> QED
      BY <3>2 DEF NoRequest
  <2> QED
    BY <1>1, <1>3, <2>1, <2>2
<1>4. CASE ~Ready
  <2>1. pr'[n] = [flag |-> TRUE, cnt |-> pr[n].cnt + 1, long |-> FALSE]
    BY <1>4, <1>5, <1>6
  <2>2. ASSUME NEW k \in Nodes, k # n PROVE pr'[k] = pr[k]
    <3>1. pr[k].flag \in BOOLEAN
      BY <1>2, RequestFields
    <3>2. pr[k].flag = (pr[k].flag /\ ~Ready)
      BY <1>4, <3>1
    <3>3. pr'[k] = [flag |-> pr[k].flag, cnt |-> pr[k].cnt, long |-> FALSE]
      BY <1>4, <1>5, <1>6, <1>7, <2>2, <3>2
    <3> QED
      BY <1>2, <3>3, RequestFields
  <2>3. pr[n] = NoRequest => pr'[n] = Once
    BY <2>1 DEF NoRequest, Once
  <2>4. pr[n] = Once => pr'[n] = Twice
    BY <2>1 DEF Once, Twice
  <2>5. pr[n] # Twice => \A k \in Nodes : pr'[k] \in {NoRequest, Once, Twice}
    BY <1>2, <2>2, <2>3, <2>4
  <2>6. pr' = [k \in Nodes |-> pr'[k]]
    BY <1>1
  <2>7. pr[n] # Twice => pr' \in [Nodes -> {NoRequest, Once, Twice}]
    BY <2>5, <2>6
  <2> QED
    BY <1>4, <2>2, <2>3, <2>4, <2>7
<1> QED
  BY <1>3, <1>4

\* Off the judgement the counters are only cleared, and only when both nodes
\* have their request.
LEMMA Clearing ==
  ASSUME TypeOK, CheckProcessImage, \A m \in Modules : ~off[m]
  PROVE  /\ Ready => /\ \A k \in Nodes, x \in RxObjs : rxCnt'[k][x] = 0
                     /\ \A x \in TxObjs : txCnt'[x] = 0
         /\ ~Ready => UNCHANGED <<rxCnt, txCnt>>
         /\ ~Judged => UNCHANGED <<verdict, errFlags>>
         /\ Judged => Judge
<1>1. \A k \in Nodes : rxCnt[k] \in [RxObjs -> 0 .. MaxCnt]
  BY DEF TypeOK
<1>2. txCnt \in [TxObjs -> 0 .. MaxCnt]
  BY DEF TypeOK
<1>3. CASE Ready
  <2>1. rxCnt' = [k \in Nodes |-> Cleared(rxCnt[k])] /\ txCnt' = Cleared(txCnt)
    BY <1>3 DEF CheckProcessImage
  <2>2. \A k \in Nodes, x \in RxObjs : Cleared(rxCnt[k])[x] = 0
    BY <1>1, ObjModule DEF Cleared
  <2>3. \A x \in TxObjs : Cleared(txCnt)[x] = 0
    BY <1>2, ObjModule DEF Cleared
  <2> QED
    BY <1>3, <2>1, <2>2, <2>3 DEF CheckProcessImage
<1> QED
  BY <1>3 DEF CheckProcessImage

\* What a verdict meets: the whole last cycle, or pre-counters all zero.
LEMMA JudgedQuiet ==
  ASSUME TypeOK, Health, NEW n \in Nodes, Asked(n), Judged
  PROVE  /\ \A m \in Modules : Correct(m)
         /\ Counted => \A c \in Checks : ~Bad(c)
         /\ ~Unpaired
<1>1. LastCycle
  BY DEF LastCycle, Judged
<1>2. ~Unpaired
  BY PairValues DEF Unpaired, Judged
<1>3. ~Fresh
  BY Singletons DEF Fresh, Asked
<1>4. \A m \in Modules : errFlags[m] = {}
  BY DEF Health, TxKept
<1>5. ASSUME Counted, NEW c \in Checks
      PROVE  ~Bad(c)
  <2>1. \A k \in Nodes, x \in RxObjs : rxCnt[k][x] = 1
    BY <1>1, <1>5 DEF Counted, RxCounted, DueRx
  <2>2. Monitor => \A x \in TxObjs : txCnt[x] = 1
    BY <1>1, <1>5 DEF Counted, TxCounted, DueTx
  <2>3. \A k \in Nodes, x \in RxObjs : View(k, x) = rxData[k][x]
    BY OnlyRequests DEF Health, View
  <2>4. Monitor => \A x \in RxObjs : rxData["main"][x] = rxData["mon"][x]
    BY <1>1, <1>5, <2>3, NodeNames DEF Counted, Alike
  <2>5. \/ \E x \in RxObjs : c = Check("MAIN_RX_MISSING", x)
        \/ Monitor /\ \E x \in TxObjs : c = Check("MON_TX_MISSING", x)
        \/ Monitor /\ \E x \in RxObjs : c = Check("MON_RX_MISSING", x)
        \/ Monitor /\ \E x \in RxObjs : c = Check("MAIN_MON_RX_DATA", x)
    BY <1>5 DEF Checks
  <2>6. \A kind, x : Check(kind, x).kind = kind /\ Check(kind, x).obj = x
    BY DEF Check
  <2>7. CASE \E x \in RxObjs : c = Check("MAIN_RX_MISSING", x)
    BY <2>1, <2>6, <2>7, NodeNames DEF Bad
  <2>8. CASE Monitor /\ \E x \in TxObjs : c = Check("MON_TX_MISSING", x)
    BY <2>2, <2>6, <2>8 DEF Bad
  <2>9. CASE Monitor /\ \E x \in RxObjs : c = Check("MON_RX_MISSING", x)
    BY <2>1, <2>6, <2>9, NodeNames DEF Bad
  <2>10. CASE Monitor /\ \E x \in RxObjs : c = Check("MAIN_MON_RX_DATA", x)
    BY <2>4, <2>6, <2>10 DEF Bad
  <2> QED
    BY <2>5, <2>7, <2>8, <2>9, <2>10
<1>6. ASSUME AllZero, NEW c \in Checks
      PROVE  ~Trips(c)
  <2>1. Bumped(c) = 1
    BY <1>6, WidthAssumption DEF AllZero, Bumped
  <2> QED
    BY <2>1 DEF Trips, CAN_SYNC_VALID_PRE_NR
<1>7. \A c \in Checks : ~Trips(c)
  <2>1. CASE Counted
    BY <1>5, <2>1 DEF Trips
  <2>2. CASE AllZero
    BY <1>6, <2>2
  <2> QED
    BY <1>2, <1>3, <2>1, <2>2 DEF Health, State, Whole, Unjudged
<1>8. \A m \in Modules : Correct(m)
  BY <1>4, <1>7 DEF Correct, Tripped, ChecksOf
<1> QED
  BY <1>2, <1>5, <1>8

\* A verdict that finds nothing bad leaves every pre-counter zero.
LEMMA NothingBad ==
  ASSUME TypeOK, Judge, \A m \in Modules : ~off[m], \A c \in Checks : ~Bad(c)
  PROVE  AllZero'
<1> SUFFICES ASSUME NEW c \in Checks PROVE pre'[c] = 0
  BY DEF AllZero
<1>1. c.obj[1] \in Modules
  <2>1. c.obj \in RxObjs \cup TxObjs
    BY DEF Checks, Check
  <2> QED
    BY <2>1, ObjModule
<1>2. c \in ChecksOf(c.obj[1])
  BY <1>1 DEF ChecksOf
<1>3. Tripped(c.obj[1]) = {}
  BY DEF Tripped, Trips, ChecksOf
<1>4. c \in Evaluated(c.obj[1])
  BY <1>2, <1>3 DEF Evaluated
<1> QED
  BY <1>4 DEF Judge

\* A node that has counted two requests has no third before the counters are
\* cleared.
LEMMA TwiceIsReady ==
  ASSUME Pairs, NEW n \in Nodes, Asked(n), pr[n] = Twice
  PROVE  Ready
<1> SUFFICES ASSUME NEW k \in Nodes, ~pr[k].flag PROVE FALSE
  BY DEF Ready
<1>1. pr[k] = NoRequest
  BY PairValues DEF Pairs
<1>2. Pair(k, n)
  BY <1>1, PairValues DEF Pairs
<1> QED
  BY <1>1, <1>2 DEF Pair

\* Handling a request keeps the counting of both nodes together.
LEMMA RequestPairs ==
  ASSUME OnTheBus, Order, Pairs, NEW n \in Nodes, HandleRequest(n)
  PROVE  Pairs'
<1>1. /\ Asked(n) /\ ~Asked(n)' /\ Request(n, FALSE) /\ lost' = lost
      /\ \A k \in Nodes : k # n => (Asked(k)' <=> Asked(k))
  BY RequestHandled
<1>2. /\ pr' \in [Nodes -> {NoRequest, Once, Twice}] \/ (~Ready /\ pr[n] = Twice)
      /\ Ready => /\ pr'[n] = Once
                  /\ \A k \in Nodes : k # n => pr'[k] = NoRequest
      /\ ~Ready => /\ pr[n] = NoRequest => pr'[n] = Once
                   /\ pr[n] = Once => pr'[n] = Twice
                   /\ \A k \in Nodes : k # n => pr'[k] = pr[k]
  BY <1>1, RequestCounted
<1>3. pr[n] = Twice => Ready
  BY <1>1, TwiceIsReady
<1>4. pr' \in [Nodes -> {NoRequest, Once, Twice}]
  BY <1>2, <1>3
<1>5. \A k \in Nodes : pr[k] \in {NoRequest, Once, Twice}
  BY DEF Pairs
<1>6. \A a, b \in Nodes : a # b => a = n \/ b = n
  BY NodeNames
<1>7. ASSUME NEW k \in Nodes, k # n
      PROVE  Pair(n, k)' /\ Pair(k, n)'
  <2>1. Pair(n, k) /\ Pair(k, n)
    BY <1>7 DEF Pairs
  <2>2. Asked(k)' <=> Asked(k)
    BY <1>1, <1>7
  <2>3. CASE Ready
    <3>1. pr'[n] = Once /\ pr'[k] = NoRequest
      BY <1>2, <1>7, <2>3
    <3>2. pr[n] # NoRequest /\ pr[k] # NoRequest
      BY <2>3, PairValues DEF Ready
    <3>3. lost = 1 \/ Asked(k)
      BY <1>1, <1>5, <2>1, <3>2 DEF Pair
    <3> QED
      BY <1>1, <2>2, <3>1, <3>3, PairValues DEF Pair
  <2>4. CASE ~Ready /\ pr[n] = NoRequest
    <3>1. pr'[n] = Once /\ pr'[k] = pr[k]
      BY <1>2, <1>7, <2>4
    <3> QED
      BY <1>1, <1>5, <2>1, <2>2, <2>4, <3>1, PairValues DEF Pair
  <2>5. CASE ~Ready /\ pr[n] = Once
    <3>1. pr'[n] = Twice /\ pr'[k] = pr[k]
      BY <1>2, <1>7, <2>5
    <3>2. pr[k] = NoRequest
      <4>1. \A j \in Nodes : j = n \/ j = k
        BY <1>6, <1>7
      <4> QED
        BY <1>5, <2>5, <4>1, PairValues DEF Ready
    <3> QED
      BY <1>1, <2>1, <2>2, <2>5, <3>1, <3>2, PairValues DEF Pair
  <2> QED
    BY <1>3, <1>5, <2>3, <2>4, <2>5
<1>8. ASSUME NEW j \in Nodes, pr'[j] = Twice
      PROVE  \E k \in Nodes : k # j
  <2>1. CASE j # n
    BY <2>1
  <2>2. CASE j = n
    <3>1. ~Ready
      BY <1>2, <1>8, <2>2, PairValues
    <3>2. pr[n] = Once
      BY <1>2, <1>3, <1>5, <1>8, <2>2, <3>1, PairValues
    <3> QED
      BY <2>2, <3>1, <3>2, PairValues DEF Ready
  <2> QED
    BY <2>1, <2>2
<1> QED
  BY <1>4, <1>6, <1>7, <1>8 DEF Pairs

\* After a request is handled still only requests wait.
LEMMA RequestOrder ==
  ASSUME OnTheBus, Order, TxKept, NEW n \in Nodes, HandleRequest(n)
  PROVE  Order'
<1>1. /\ Asked(n) /\ ~Asked(n)' /\ inbox'[n] = <<>> /\ toSend' = toSend
      /\ \A k \in Nodes : k # n => inbox'[k] = inbox[k]
      /\ \A k \in Nodes : k # n => (Asked(k)' <=> Asked(k))
  BY RequestHandled
<1>2. \A k \in Nodes : inbox[k] = <<>> \/ Asked(k)
  BY <1>1 DEF Order, RequestsAlone
<1>3. \A k \in Nodes : inbox'[k] = <<>> \/ Asked(k)'
  BY <1>1, <1>2
<1>4. (\A k \in Nodes : Waiting(k))'
  BY <1>3 DEF Waiting
<1>5. n # "main" => n = "mon" /\ outbox' = outbox
  BY MonitorAnswersNot, NodeNames
<1>6. OneEach'
  <2>1. CASE n = "main"
    BY <2>1, AnswerSent DEF TxKept
  <2>2. CASE n # "main"
    BY <1>5, <2>2 DEF Order, OneEach
  <2> QED
    BY <2>1, <2>2
<1>7. RequestsAlone'
  BY <1>1, <1>3, <1>5 DEF Order, RequestsAlone
<1> QED
  BY <1>4, <1>6, <1>7 DEF Order

\* The answer in the outbox is the data captured for the comparison.
LEMMA RequestTxKept ==
  ASSUME OnTheBus, TypeOK, Order, TxKept, NEW n \in Nodes, HandleRequest(n)
  PROVE  TxKept'
<1>1. /\ Asked(n) /\ inbox'[n] = <<>> /\ off' = off /\ CheckProcessImage
      /\ \A k \in Nodes : k # n => inbox'[k] = inbox[k]
  BY RequestHandled
<1>2. ASSUME Monitor, NEW x \in TxObjs, NEW d \in Data
      PROVE  inbox'["mon"] # <<TX(x, d)>>
  <2>1. "mon" \in Nodes
    BY <1>2, NodeNames
  <2>2. ~LoopsBack(x)
    BY <1>1, <2>1, OnlyRequests
  <2> QED
    BY <1>1, <2>1, <2>2, Singletons DEF LoopsBack
<1>3. \A m \in Modules : errFlags'[m] = {}
  <2>1. \A m \in Modules : ~off[m] /\ errFlags[m] = {}
    BY DEF TxKept
  <2>2. CASE Judged
    BY <1>1, <2>1, <2>2, Clearing DEF Judge
  <2>3. CASE ~Judged
    BY <1>1, <2>1, <2>3, Clearing
  <2> QED
    BY <2>2, <2>3
<1>4. \A i \in DOMAIN outbox' : outbox'[i].data = txData'[outbox'[i].obj]
  <2>1. CASE n = "main"
    BY <2>1, AnswerSent DEF TxKept
  <2>2. CASE n # "main"
    BY <2>2, MonitorAnswersNot, NodeNames DEF TxKept
  <2> QED
    BY <2>1, <2>2
<1> QED
  BY <1>1, <1>2, <1>3, <1>4 DEF TxKept

\* The pre-counters stay zero unless an incomplete cycle is judged.
LEMMA StaysZero ==
  ASSUME OnTheBus, TypeOK, Health, NEW n \in Nodes, HandleRequest(n),
         AllZero, Judged => Counted
  PROVE  AllZero'
<1>1. Asked(n) /\ CheckProcessImage
  BY RequestHandled DEF Health
<1>2. \A m \in Modules : ~off[m]
  BY DEF Health, TxKept
<1>3. CASE Judged
  BY <1>1, <1>2, <1>3, Clearing, JudgedQuiet, NothingBad
<1>4. CASE ~Judged
  <2>1. pre' = pre
    BY <1>1, <1>2, <1>4, Clearing DEF verdict
  <2> QED
    BY <2>1 DEF AllZero
<1> QED
  BY <1>3, <1>4

\* Without a loss no verdict raises a pre-counter.
LEMMA RequestSpared ==
  ASSUME OnTheBus, TypeOK, Health, NEW n \in Nodes, HandleRequest(n)
  PROVE  Spared'
<1>1. Asked(n) /\ Request(n, FALSE) /\ lost' = lost
  BY RequestHandled DEF Health
<1>2. pr'[n] # NoRequest
  <2>1. pr'[n].flag
    BY <1>1 DEF Request
  <2> QED
    BY <2>1, PairValues
<1>3. ASSUME lost = 0 PROVE AllZero'
  <2>1. AllZero
    BY <1>3 DEF Health, Spared
  <2>2. ~Fresh
    BY <1>1, Singletons DEF Fresh, Asked
  <2>3. Judged => Counted
    BY <1>1, <1>3, <2>2, JudgedQuiet DEF Health, State, Whole, Unjudged
  <2> QED
    BY <2>1, <2>3, StaysZero
<1> QED
  BY <1>1, <1>2, <1>3 DEF Spared

\* Whoever handles the request: the main node answers it, the monitor node
\* finds the answer made or still to be made.
LEMMA StillAnswered ==
  ASSUME OnTheBus, Order, TxKept, NEW n \in Nodes, HandleRequest(n)
  PROVE  Answered'
<1>1. /\ ~Asked(n)'
      /\ \A k \in Nodes : k # n => (Asked(k)' <=> Asked(k))
  BY RequestHandled
<1>2. CASE n = "main"
  BY <1>2, AnswerSent DEF TxKept, Answered
<1>3. CASE n # "main"
  BY <1>1, <1>3, NodeNames DEF Answered
<1> QED
  BY <1>2, <1>3

\* The request that completes the pairs clears the counters.
LEMMA RequestClears ==
  ASSUME OnTheBus, TypeOK, Health, NEW n \in Nodes, HandleRequest(n), Ready
  PROVE  State'
<1>1. /\ Asked(n) /\ ~Asked(n)' /\ toSend' = toSend /\ lost' = lost
      /\ CheckProcessImage /\ Request(n, FALSE)
      /\ \A k \in Nodes : k # n => (Asked(k)' <=> Asked(k))
  BY RequestHandled DEF Health
<1>2. pr'[n] = Once /\ \A k \in Nodes : k # n => pr'[k] = NoRequest
  BY <1>1, RequestCounted DEF Health
<1>3. Started'
  BY <1>2, PairValues DEF Started
<1>4. ~LastCycle'
  <2>1. \A k \in Nodes : Asked(k)' => ~Ready'
    BY <1>1, <1>2, PairValues DEF Ready
  <2> QED
    BY <1>1, <2>1 DEF LastCycle
<1>5. toSend' = RxObjs
  BY <1>1 DEF Health, Order, RequestsAlone
<1>6. /\ \A k \in Nodes, x \in RxObjs : rxCnt'[k][x] = 0
      /\ \A x \in TxObjs : txCnt'[x] = 0
  BY <1>1, Clearing DEF Health, TxKept
<1>7. RxCounted' /\ Alike'
  BY <1>4, <1>5, <1>6 DEF RxCounted, DueRx, Alike
<1>8. Answered'
  BY StillAnswered DEF Health
<1>9. ASSUME n = "main" \/ Asked("main") \/ Answered
      PROVE  State'
  <2>1. ASSUME Monitor, NEW x \in TxObjs
        PROVE  DueTx(x)'
    <3>1. CASE n = "main"
      BY <1>4, <3>1, AnswerSent DEF Health, TxKept, OutAll, DueTx
    <3>2. CASE n # "main" /\ Asked("main")
      BY <1>1, <1>4, <3>2, NodeNames DEF DueTx
    <3>3. CASE n # "main" /\ ~Asked("main") /\ Answered
      <4>1. InOutbox(x)
        BY <1>1, <2>1, <3>3, NodeNames DEF Answered, OutAll
      <4>2. outbox' = outbox
        BY <3>3, NodeNames, MonitorAnswersNot
      <4> QED
        BY <1>4, <4>1, <4>2 DEF DueTx, InOutbox
    <3> QED
      BY <1>9, <3>1, <3>2, <3>3
  <2>2. TxCounted'
    BY <1>6, <2>1 DEF TxCounted
  <2> QED
    BY <1>3, <1>7, <1>8, <2>2 DEF State, Whole, Counted
<1>10. ASSUME n # "main", ~Asked("main"), ~Answered
       PROVE  State'
  <2>1. ~Unpaired
    <3> SUFFICES ASSUME NEW j \in Nodes, pr[j] = Twice PROVE FALSE
      BY DEF Unpaired
    <3>1. PICK k \in Nodes : k # j
      BY DEF Health, Pairs
    <3>2. Pair(j, k) /\ Pair(k, j)
      BY <3>1 DEF Health, Pairs
    <3>3. pr[k] # NoRequest
      BY PairValues DEF Ready
    <3>4. Asked(j) <=> Asked(k)
      <4>1. pr[k] = Once
        BY <3>2, <3>3 DEF Health, Pairs, Pair
      <4> QED
        BY <3>2, <4>1 DEF Pair
    <3>5. {j, k} = {n, "main"}
      BY <1>10, <3>1, NodeNames
    <3> QED
      BY <1>1, <1>10, <3>4, <3>5
  <2>2. ~Fresh
    BY <1>1, Singletons DEF Fresh, Asked
  <2>3. lost = 1 /\ AllZero /\ Counted
    BY <1>10, <2>1, <2>2 DEF Health, State, Whole, Unjudged
  <2>4. AllZero'
    BY <2>3, StaysZero
  <2> QED
    BY <1>1, <1>8, <2>3, <2>4 DEF State, Unjudged
<1> QED
  BY <1>9, <1>10

\* The first node to have the request leaves the counters alone.
LEMMA RequestFirst ==
  ASSUME OnTheBus, TypeOK, Health, NEW n \in Nodes, HandleRequest(n), ~Ready
  PROVE  State'
<1>1. /\ Asked(n) /\ ~Asked(n)' /\ inbox'[n] = <<>>
      /\ \A k \in Nodes : k # n => inbox'[k] = inbox[k]
      /\ UNCHANGED <<toSend, lost, rxData, off>>
      /\ CheckProcessImage /\ Request(n, FALSE)
      /\ \A k \in Nodes : k # n => (Asked(k)' <=> Asked(k))
  BY RequestHandled DEF Health
<1>2. /\ pr[n] = NoRequest => pr'[n] = Once
      /\ pr[n] = Once => pr'[n] = Twice
      /\ \A k \in Nodes : k # n => pr'[k] = pr[k]
  BY <1>1, RequestCounted DEF Health
<1>3. pr[n] # Twice
  BY <1>1, TwiceIsReady DEF Health
<1>4. /\ UNCHANGED <<rxCnt, txCnt, pre>>
  BY <1>1, Clearing DEF Health, TxKept, Judged, verdict
<1>5. Answered'
  BY StillAnswered DEF Health
<1>6. ~Fresh
  BY <1>1, Singletons DEF Fresh, Asked
<1>7. CASE Unpaired
  BY <1>2, <1>3, <1>7 DEF State, Unpaired
<1>8. CASE pr[n] = Once
  BY <1>2, <1>8 DEF State, Unpaired
<1>9. CASE Unjudged
  <2>1. AllZero'
    BY <1>4, <1>9 DEF Unjudged, AllZero
  <2> QED
    BY <1>1, <1>5, <1>9, <2>1 DEF State, Unjudged
<1>10. CASE Whole /\ pr[n] = NoRequest
  <2>1. pr'[n] = Once
    BY <1>2, <1>10
  <2>2. Started'
    BY <2>1, PairValues DEF Started
  <2>3. ASSUME NEW k \in Nodes, k # n
        PROVE  LastCycle' <=> LastCycle
    <3>1. \A j \in Nodes : j = n \/ j = k
      BY <2>3, NodeNames
    <3>2. pr'[k] = pr[k] /\ (Asked(k)' <=> Asked(k))
      BY <1>1, <1>2, <2>3
    <3>3. pr[k] = NoRequest \/ pr[k] = Once \/ pr[k] = Twice
      BY DEF Health, Pairs
    <3>4. Ready' <=> pr[k] # NoRequest
      BY <2>1, <3>1, <3>2, <3>3, PairValues DEF Ready
    <3>5. LastCycle <=> Asked(k) /\ pr[k] # NoRequest
      BY <1>1, <1>10, <3>1 DEF LastCycle
    <3>6. LastCycle' <=> Asked(k) /\ pr[k] # NoRequest
      BY <1>1, <3>1, <3>2, <3>4 DEF LastCycle
    <3> QED
      BY <3>5, <3>6
  <2>4. ASSUME \A k \in Nodes : k = n
        PROVE  LastCycle' <=> LastCycle
    BY <1>1, <1>10, <2>4 DEF LastCycle
  <2>5. LastCycle' <=> LastCycle
    BY <2>3, <2>4
  <2>6. \A k \in Nodes, x \in RxObjs : ~Carries(k, x) /\ ~Carries(k, x)'
    <3>1. \A k \in Nodes, x \in RxObjs : ~Carries(k, x)
      BY <1>1, OnlyRequests DEF Health
    <3> QED
      BY <1>1, <3>1, Singletons DEF Carries
  <2>7. RxCounted'
    BY <1>1, <1>4, <1>10, <2>5, <2>6 DEF Whole, Counted, RxCounted, DueRx
  <2>8. \A k \in Nodes, x \in RxObjs : View(k, x)' = View(k, x)
    BY <1>1, <2>6 DEF View
  <2>9. Alike'
    BY <1>1, <1>10, <2>5, <2>8, NodeNames DEF Whole, Counted, Alike
  <2>10. ASSUME Monitor, NEW x \in TxObjs
         PROVE  DueTx(x)' <=> DueTx(x)
    <3>1. CASE n = "main"
      <4>1. InOutbox(x)'
        BY <3>1, AnswerSent DEF Health, TxKept, OutAll
      <4> QED
        BY <1>1, <2>5, <3>1, <4>1 DEF DueTx
    <3>2. CASE n = "mon"
      <4>1. outbox' = outbox
        BY <3>2, MonitorAnswersNot
      <4>2. ~LoopsBack(x) /\ ~LoopsBack(x)'
        BY <1>1, <3>2, OnlyRequests, Singletons DEF Health, LoopsBack
      <4>3. Asked("main")' <=> Asked("main")
        BY <1>1, <3>2, NodeNames
      <4> QED
        BY <2>5, <4>1, <4>2, <4>3 DEF DueTx, InOutbox
    <3> QED
      BY <3>1, <3>2, NodeNames
  <2>11. TxCounted'
    BY <1>4, <1>10, <2>10 DEF Whole, Counted, TxCounted
  <2> QED
    BY <1>5, <2>2, <2>7, <2>9, <2>11 DEF State, Whole, Counted
<1>11. pr[n] = NoRequest \/ pr[n] = Once
  BY <1>3 DEF Health, Pairs
<1> QED
  BY <1>6, <1>7, <1>8, <1>9, <1>10, <1>11 DEF Health, State

\* Handling a request keeps all of it.
LEMMA RequestHealth ==
  ASSUME OnTheBus, TypeOK, Health, NEW n \in Nodes, HandleRequest(n)
  PROVE  Health'
<1>1. Order /\ Pairs /\ TxKept
  BY DEF Health
<1>2. State'
  BY RequestClears, RequestFirst
<1> QED
  BY <1>1, <1>2, RequestOrder, RequestPairs, RequestTxKept, RequestSpared DEF Health

-----------------------------------------------------------------------------
\* Before the first request nothing was sent.
LEMMA AlarmInit == BusInit => AlarmInv
<1> SUFFICES ASSUME BusInit PROVE AlarmInv
  OBVIOUS
<1>1. /\ pr = [n \in Nodes |-> NoRequest] /\ inbox = [n \in Nodes |-> <<>>]
      /\ toSend = {} /\ outbox = <<>> /\ lost = 0 /\ wrong = 0
      /\ errFlags = [m \in Modules |-> {}] /\ off = [m \in Modules |-> FALSE]
  BY DEF BusInit, Init
<1>2. \A n \in Nodes : ~Asked(n)
  BY <1>1, Singletons DEF Asked
<1>3. Order
  BY <1>1, <1>2 DEF Order, Waiting, OneEach, RequestsAlone
<1>4. Pairs
  BY <1>1, <1>2, PairValues DEF Pairs, Pair
<1>5. TxKept
  BY <1>1, NodeNames, Singletons DEF TxKept
<1>6. lost = 0 /\ Fresh
  BY <1>1 DEF Fresh, BusInit, Init
<1>7. Spared
  BY DEF Spared, AllZero, BusInit, Init
<1> QED
  BY <1>1, <1>3, <1>4, <1>5, <1>6, <1>7 DEF AlarmInv, Health, State

\* The bus only adds faults.
LEMMA FaultsCounted ==
  ASSUME lost \in Nat, wrong \in Nat, BusNext
  PROVE  lost' \in Nat /\ wrong' \in Nat
<1>1. ASSUME NEW f, NEW to, Broadcast(f, to)
      PROVE  lost' \in Nat /\ wrong' \in Nat
  BY <1>1 DEF Broadcast, Lose, Falsify, faults
<1>2. CASE Bus
  BY <1>1, <1>2 DEF Bus, MasterRequest, MasterData, SlaveSends
<1>3. ASSUME NEW n \in Nodes, Handle(n)
      PROVE  lost' \in Nat /\ wrong' \in Nat
  BY <1>3 DEF Handle, HandleRequest, HandleData, Take, faults
<1> QED
  BY <1>2, <1>3 DEF BusNext

\* Steps that change nothing.
LEMMA AlarmStutters ==
  ASSUME AlarmInv, UNCHANGED allVars
  PROVE  AlarmInv'
<1>1. UNCHANGED <<pr, pre, rxCnt, txCnt, rxData, txData, errFlags, off,
                  inbox, toSend, outbox, lost, wrong>>
  BY DEF allVars, vars, prVars, verdict, busVars, faults
<1>2. UNCHANGED <<Order, Pairs, LastCycle>>
  BY <1>1 DEF Order, Waiting, OneEach, RequestsAlone, Pairs, Pair, LastCycle,
     Asked, Carries, LoopsBack, InOutbox, Ready
<1>3. UNCHANGED <<Counted, Answered, AllZero>>
  BY <1>1, <1>2 DEF Counted, RxCounted, TxCounted, Alike, DueRx, DueTx, View,
     Answered, OutAll, AllZero, Asked, Carries, LoopsBack, InOutbox
<1>4. UNCHANGED <<TxKept, State, Spared, Mild>>
  BY <1>1, <1>3 DEF TxKept, State, Whole, Started, Unpaired, Unjudged, Fresh,
     Spared, Mild, Ready, Asked, AllZero
<1> QED
  BY <1>1, <1>2, <1>4 DEF AlarmInv, Health

\* The invariant of a bus with one loss at most.
LEMMA AlarmInductive ==
  ASSUME OnTheBus, TypeOK, Lag = 1, AlarmInv, [BusNext]_allVars
  PROVE  AlarmInv'
<1>1. CASE UNCHANGED allVars
  BY <1>1, AlarmStutters
<1>2. CASE BusNext
  <2>1. lost' \in Nat /\ wrong' \in Nat
    BY <1>2, FaultsCounted DEF AlarmInv
  <2>2. SUFFICES ASSUME Mild' PROVE Health'
    BY <2>1 DEF AlarmInv
  <2>3. CASE MasterRequest
    BY <2>2, <2>3, MasterRequestHealth
  <2>4. CASE MasterData
    BY <2>2, <2>4, MasterDataHealth
  <2>5. CASE SlaveSends
    BY <2>2, <2>5, SlaveSendsHealth
  <2>6. ASSUME NEW n \in Nodes, Handle(n)
        PROVE  Health'
    <3>1. UNCHANGED faults
      BY <2>6 DEF Handle, HandleRequest, HandleData, Take
    <3>2. Health
      BY <2>2, <3>1 DEF faults, AlarmInv, Mild
    <3> QED
      BY <2>6, <3>2, RequestHealth, DataHealth DEF Handle
  <2> QED
    BY <1>2, <2>3, <2>4, <2>5, <2>6 DEF BusNext, Bus
<1> QED
  BY <1>1, <1>2

\* The bus gives no reason for a false alarm: with one frame lost at most and
\* none falsified every verdict accepts every image, when each handler has
\* taken its frame before the next one comes.
THEOREM OneLossIsAbsorbed == Lag = 1 => (BusSpec => NoFalseAlarm)
<1> SUFFICES ASSUME Lag = 1 PROVE BusSpec => NoFalseAlarm
  OBVIOUS
<1> DEFINE Quiet ==
             (\E n \in Nodes : HandleRequest(n)) /\ Judged /\ lost <= 1 /\ wrong = 0 =>
               \A m \in Modules : imageValid'[m]
<1>1. BusSpec => []TypeOK
  BY BusImplementsImage, TypeCorrect, PTL
<1>2. OnTheBus /\ TypeOK /\ AlarmInv /\ [BusNext]_allVars => AlarmInv'
  BY AlarmInductive
<1>3. OnTheBus /\ TypeOK /\ AlarmInv /\ [BusNext]_allVars => [Quiet]_allVars
  <2> SUFFICES ASSUME OnTheBus, TypeOK, AlarmInv,
                      NEW n \in Nodes, HandleRequest(n), Judged, lost <= 1, wrong = 0,
                      NEW m \in Modules
               PROVE  imageValid'[m]
    BY DEF Quiet
  <2>1. Health
    BY DEF AlarmInv, Mild
  <2>2. Asked(n) /\ CheckProcessImage
    BY <2>1, RequestHandled DEF Health
  <2>3. Judge
    BY <2>1, <2>2, Clearing DEF Health, TxKept
  <2>4. Correct(m)
    BY <2>1, <2>2, JudgedQuiet
  <2> QED
    BY <2>3, <2>4 DEF Judge
<1> HIDE DEF Quiet
<1>4. BusSpec => [][Quiet]_allVars
  BY <1>1, <1>2, <1>3, AlarmInit, BusInvariant, PTL DEF BusSpec
<1> QED
  BY <1>4 DEF Quiet, NoFalseAlarm
=============================================================================
