-------------------------- MODULE AsyncTunnelProofs ---------------------------
(***************************************************************************)
(* The tunnel for every length of the queue, every size of an object and   *)
(* every set of modules: its types, the lock, that the queue holds one     *)
(* object for every send that was prevented, and that the stream of bytes  *)
(* is kept.                                                                *)
(***************************************************************************)
EXTENDS AsyncTunnel, SequenceTheorems, WellFoundedInduction, TLAPS

\* A byte is stored only while the serial side has one.
ByteAtHand == pc = "store" => accepted < MaxBytes

\* The four are inductive together: the object keeps its size because a
\* byte is only stored under the lock into one that is not full.
IInv == TypeOK /\ LockHeld /\ LagIsRefusals /\ ByteAtHand

\* A position in the ring of slots stays one.
LEMMA AdvancedInRange ==
  ASSUME NEW i \in 0..LENGTH - 1
  PROVE  Advanced(i) \in 0..LENGTH - 1
BY SizeAssumption DEF Advanced

\* Appending an object to a stream of bytes gives a stream of bytes.
LEMMA ObjectIsStream ==
  ASSUME NEW s \in Seq(Bytes), NEW b \in Object
  PROVE  s \o b \in Seq(Bytes)
BY DEF Object

LEMMA EmptyObject == <<>> \in Object
<1>1. <<>> \in Seq(Bytes) /\ Len(<<>>) = 0
  OBVIOUS
<1> QED
  BY <1>1, SizeAssumption DEF Object

LEMMA InitIInv == Init => IInv
<1> SUFFICES ASSUME Init PROVE IInv
  OBVIOUS
<1>1. tmp \in Object /\ slots \in [0..LENGTH - 1 -> Object]
  BY EmptyObject DEF Init
<1>2. tunnel \in [state : {FREE, ACTIVE, SHUTDOWN}, own : Numbers, prim : Numbers]
  BY DEF Init, Closed, Numbers
<1>4. sent \in Seq(Bytes)
  BY DEF Init
<1>5. TypeOK
  BY <1>1, <1>2, <1>4, SizeAssumption, BoundAssumption DEF Init, TypeOK
<1>3. LockHeld
  BY SizeAssumption DEF Init, LockHeld
<1> QED
  BY <1>3, <1>5 DEF IInv, LagIsRefusals, ByteAtHand, Init

\* Putting the object into the queue, and the handling that follows.
LEMMA EnqueueTypes ==
  ASSUME IInv, Enqueue
  PROVE  /\ tmp' = <<>>
         /\ slots' \in [0..LENGTH - 1 -> Object]
         /\ read' \in 0..LENGTH - 1 /\ write' \in 0..LENGTH - 1
         /\ count' \in 0..LENGTH /\ sent' \in Seq(Bytes)
         /\ refusals' \in 0..MaxRefusals
         /\ count' = refusals'
<1>1. slots' \in [0..LENGTH - 1 -> Object]
  BY DEF IInv, TypeOK, Enqueue
<1>2. read' \in 0..LENGTH - 1 /\ write' \in 0..LENGTH - 1
  BY AdvancedInRange DEF IInv, TypeOK, Enqueue, Handled
<1>3. sent' \in Seq(Bytes)
  <2>1. CASE UNCHANGED sent
    BY <2>1 DEF IInv, TypeOK
  <2>2. CASE sent' = sent \o slots'[read]
    <3>1. slots'[read] \in Object
      BY <1>1 DEF IInv, TypeOK
    <3> QED
      BY <2>2, <3>1, ObjectIsStream DEF IInv, TypeOK
  <2> QED
    BY <2>1, <2>2 DEF Enqueue, Handled
<1>4. /\ count' \in 0..LENGTH /\ refusals' \in 0..MaxRefusals
      /\ count' = refusals'
  BY SizeAssumption, BoundAssumption
     DEF IInv, TypeOK, LagIsRefusals, Enqueue, Handled
<1> QED
  BY <1>1, <1>2, <1>3, <1>4 DEF Enqueue

LEMMA NextIInv == IInv /\ [Next]_vars => IInv'
<1> SUFFICES ASSUME IInv, [Next]_vars PROVE IInv'
  OBVIOUS
<1> USE DEF IInv
<1>1. CASE PutcEnter
  <2>1. lock' = 1 /\ pc' = "store"
    BY <1>1 DEF PutcEnter, Enter, TypeOK
  <2>2. TypeOK'
    BY <1>1, <2>1 DEF PutcEnter, TypeOK, queue
  <2>3. LockHeld'
    BY <1>1, <2>1 DEF PutcEnter, LockHeld
  <2> QED
    BY <1>1, <2>2, <2>3 DEF PutcEnter, LagIsRefusals, ByteAtHand, queue
<1>2. CASE PutcStore
  <2>1. lock = 1 /\ Len(tmp) < DLC /\ tmp \in Seq(Bytes)
    BY <1>2 DEF PutcStore, LockHeld, TypeOK, Object
  <2>2. tmp' = Append(tmp, accepted + 1) /\ accepted' = accepted + 1
    BY <1>2 DEF PutcStore
  <2>3. accepted + 1 \in Bytes /\ accepted' \in 0..MaxBytes
    BY <1>2, <2>2, BoundAssumption DEF PutcStore, TypeOK, ByteAtHand, Bytes
  <2>4. tmp' \in Seq(Bytes) /\ Len(tmp') = Len(tmp) + 1 /\ Len(tmp) \in Nat
    BY <2>1, <2>2, <2>3
  <2>5. tmp' \in Object
    BY <2>1, <2>4, SizeAssumption DEF Object
  <2>6. \/ Len(tmp') = DLC /\ pc' = "wait" /\ lock' = 1
        \/ Len(tmp') < DLC /\ pc' = "idle" /\ lock' = 0
    BY <1>2, <2>1, <2>4, SizeAssumption DEF PutcStore, Leave
  <2>7. UNCHANGED <<tunnel, queue, up, sent, refusals>>
    BY <1>2 DEF PutcStore
  <2>8. TypeOK'
    <3>1. lock' \in 0..1 /\ pc' \in {"idle", "store", "wait", "flush"}
      BY <2>6
    <3> QED
      BY <2>3, <2>5, <2>7, <3>1 DEF TypeOK, queue
  <2>9. LockHeld'
    BY <2>6 DEF LockHeld
  <2> QED
    BY <2>6, <2>7, <2>8, <2>9 DEF LagIsRefusals, ByteAtHand, queue
<1>3. CASE PutcSend
  <2>1. lock = 1
    BY <1>3 DEF PutcSend, LockHeld
  <2>2. lock' = 0 /\ pc' = "idle"
    BY <1>3, <2>1 DEF PutcSend, Leave
  <2>3. TypeOK'
    BY <1>3, <2>2, EnqueueTypes, EmptyObject DEF PutcSend, TypeOK
  <2>4. LockHeld'
    BY <2>2, <1>3, EnqueueTypes, SizeAssumption DEF LockHeld, PutcSend
  <2> QED
    BY <2>2, <2>3, <2>4, <1>3, EnqueueTypes
       DEF PutcSend, LagIsRefusals, ByteAtHand
<1>4. CASE ProcessEnter
  <2>1. lock' = 1 /\ pc' = "flush" /\ tmp # <<>>
    BY <1>4 DEF ProcessEnter, Enter, TypeOK, Overdue
  <2>2. TypeOK'
    BY <1>4, <2>1 DEF ProcessEnter, TypeOK, queue
  <2>3. LockHeld'
    BY <1>4, <2>1 DEF ProcessEnter, LockHeld
  <2> QED
    BY <1>4, <2>1, <2>2, <2>3
       DEF ProcessEnter, LagIsRefusals, ByteAtHand, queue
<1>5. CASE ProcessSend
  <2>1. lock = 1 /\ tmp # <<>> /\ pc = "flush"
    BY <1>5 DEF ProcessSend, LockHeld
  <2>2. lock' = 0 /\ pc' = "idle"
    BY <1>5, <2>1 DEF ProcessSend, Leave
  <2>3. CASE Enqueue
    <3>1. TypeOK'
      BY <1>5, <2>2, <2>3, EnqueueTypes, EmptyObject DEF ProcessSend, TypeOK
    <3>2. LockHeld'
      BY <2>2, <2>3, EnqueueTypes, SizeAssumption DEF LockHeld
    <3> QED
      BY <2>2, <2>3, <3>1, <3>2, EnqueueTypes DEF LagIsRefusals, ByteAtHand
  <2>4. CASE QueueFull /\ UNCHANGED <<tmp, queue, sent, refusals>>
    <3>1. TypeOK'
      BY <1>5, <2>2, <2>4 DEF ProcessSend, TypeOK, queue
    <3>2. LockHeld'
      BY <2>2, <2>4, <2>1 DEF LockHeld
    <3> QED
      BY <2>2, <2>4, <3>1, <3>2 DEF LagIsRefusals, ByteAtHand, queue
  <2> QED
    BY <1>5, <2>3, <2>4 DEF ProcessSend
<1>6. CASE Shutdown \/ Message \/ TimePasses
  <2>1. UNCHANGED <<tmp, lock, queue, pc, accepted, sent, refusals>>
    BY <1>6 DEF Shutdown, Message, TimePasses
  <2>2. tunnel' \in [state : {FREE, ACTIVE, SHUTDOWN}, own : Numbers, prim : Numbers]
    BY <1>6 DEF TypeOK, Shutdown, Message, TimePasses, Open, Close, CloseAck,
                CloseDeny, Closed, Numbers
  <2>3. up' \in BOOLEAN
    BY <1>6 DEF TypeOK, Shutdown, Message, TimePasses
  <2>4. TypeOK'
    BY <2>1, <2>2, <2>3 DEF TypeOK, queue
  <2> QED
    BY <2>1, <2>4 DEF LockHeld, LagIsRefusals, ByteAtHand, queue
<1>7. CASE InterruptProcess
  <2>1. lock = 0 /\ UNCHANGED <<tunnel, lock, pc, up, accepted>> /\ Enqueue
    BY <1>7 DEF InterruptProcess
  <2>2. TypeOK'
    BY <2>1, EnqueueTypes, EmptyObject DEF TypeOK
  <2>3. LockHeld'
    BY <2>1, EnqueueTypes, SizeAssumption DEF LockHeld
  <2> QED
    BY <2>1, <2>2, <2>3, EnqueueTypes DEF LagIsRefusals, ByteAtHand
<1>8. CASE UNCHANGED vars
  BY <1>8 DEF TypeOK, LockHeld, LagIsRefusals, ByteAtHand, vars, queue
<1> QED
  BY <1>1, <1>2, <1>3, <1>4, <1>5, <1>6, <1>7, <1>8 DEF Next, Task

\* For every length of the queue and size of an object the tunnel keeps its
\* types: in particular the object is never written past its end.
THEOREM TypeCorrect == Spec => []TypeOK
<1>1. IInv => TypeOK
  BY DEF IInv
<1> QED
  BY InitIInv, NextIInv, <1>1, PTL DEF Spec

\* The interrupt never touches the object while the task is inside putc or
\* the timed sending, and the lock is given back.
THEOREM LockDiscipline == Spec => []LockHeld
<1>1. IInv => LockHeld
  BY DEF IInv
<1> QED
  BY InitIInv, NextIInv, <1>1, PTL DEF Spec

\* However long the tunnel runs, the queue holds one object for every send
\* that was ever prevented.
THEOREM LagIsForEver == Spec => []LagIsRefusals
<1>1. IInv => LagIsRefusals
  BY DEF IInv
<1> QED
  BY InitIInv, NextIInv, <1>1, PTL DEF Spec

-----------------------------------------------------------------------------
(***************************************************************************)
(* The stream.  Run(a, b) is the bytes a+1 .. b.  The stream is cut into   *)
(* runs: the bytes on the bus, one run for each object in the queue, from  *)
(* the read index on, and the bytes in the object.                         *)
(***************************************************************************)
Run(a, b) == [i \in 1..b - a |-> a + i]

Place(k) == (read + (k - 1)) % LENGTH

Cut(c) ==
  /\ c \in [0..count -> 0..accepted]
  /\ sent = Run(0, c[0])
  /\ \A j, k \in 0..count : j <= k => c[j] <= c[k]
  /\ \A k \in 1..count : slots[Place(k)] = Run(c[k - 1], c[k])
  /\ tmp = Run(c[count], accepted)

StreamInv == (\E c : Cut(c)) /\ write = (read + count) % LENGTH

\* A run is a sequence as long as its ends are apart.
LEMMA RunFacts ==
  ASSUME NEW a \in Nat, NEW b \in Nat, a <= b
  PROVE  /\ Run(a, b) \in Seq(Nat) /\ Len(Run(a, b)) = b - a
         /\ \A i \in 1..b - a : Run(a, b)[i] = a + i
<1>1. b - a \in Nat /\ \A i \in 1..b - a : a + i \in Nat
  OBVIOUS
<1>2. Run(a, b) \in [1..b - a -> Nat]
  BY <1>1 DEF Run
<1>3. \A i \in 1..b - a : Run(a, b)[i] = a + i
  BY DEF Run
<1> QED
  BY <1>1, <1>2, <1>3, SMT

\* Two runs of which one begins where the other ends are a run.
LEMMA RunsJoin ==
  ASSUME NEW a \in Nat, NEW b \in Nat, NEW d \in Nat, a <= b, b <= d
  PROVE  Run(a, b) \o Run(b, d) = Run(a, d)
<1> DEFINE s == Run(a, b)
           t == Run(b, d)
           u == Run(a, d)
<1>1. /\ s \in Seq(Nat) /\ Len(s) = b - a /\ \A i \in 1..b - a : s[i] = a + i
      /\ t \in Seq(Nat) /\ Len(t) = d - b /\ \A i \in 1..d - b : t[i] = b + i
      /\ u \in Seq(Nat) /\ Len(u) = d - a /\ \A i \in 1..d - a : u[i] = a + i
  <2>1. a <= d
    OBVIOUS
  <2>2. s \in Seq(Nat) /\ Len(s) = b - a /\ \A i \in 1..b - a : s[i] = a + i
    BY RunFacts, Zenon
  <2>3. t \in Seq(Nat) /\ Len(t) = d - b /\ \A i \in 1..d - b : t[i] = b + i
    BY RunFacts, Zenon
  <2>4. u \in Seq(Nat) /\ Len(u) = d - a /\ \A i \in 1..d - a : u[i] = a + i
    BY <2>1, RunFacts, Zenon
  <2> QED
    BY <2>2, <2>3, <2>4, Zenon
<1> HIDE DEF s, t, u
<1>2. /\ s \o t \in Seq(Nat) /\ Len(s \o t) = Len(s) + Len(t)
      /\ \A i \in 1..Len(s) + Len(t) :
           (s \o t)[i] = IF i <= Len(s) THEN s[i] ELSE t[i - Len(s)]
  BY <1>1, ConcatProperties
<1>3. Len(s \o t) = Len(u)
  BY <1>1, <1>2
<1>4. \A i \in 1..Len(u) : (s \o t)[i] = u[i]
  <2> SUFFICES ASSUME NEW i \in 1..d - a
               PROVE  (s \o t)[i] = a + i
    BY <1>1
  <2>1. i \in 1..Len(s) + Len(t)
    BY <1>1
  <2>2. CASE i <= b - a
    BY <1>1, <1>2, <2>1, <2>2
  <2>3. CASE i > b - a
    <3>1. (s \o t)[i] = t[i - (b - a)]
      BY <1>1, <1>2, <2>1, <2>3
    <3>2. i - (b - a) \in 1..d - b
      BY <2>3
    <3> QED
      BY <1>1, <3>1, <3>2
  <2>4. i <= b - a \/ i > b - a
    OBVIOUS
  <2> QED
    BY <2>2, <2>3, <2>4, Zenon
<1>5. s \o t = u
  BY <1>1, <1>2, <1>3, <1>4, SeqEqual
<1> QED
  BY <1>5 DEF s, t, u

\* The run of an object that was just put into the queue.
LEMMA EmptyRun == ASSUME NEW a \in Nat PROVE Run(a, a) = <<>>
<1>1. Run(a, a) \in Seq(Nat) /\ Len(Run(a, a)) = 0
  BY RunFacts
<1> QED
  BY <1>1

\* Storing the next byte makes the last run longer.
LEMMA LongerRun ==
  ASSUME NEW a \in Nat, NEW b \in Nat, a <= b
  PROVE  Append(Run(a, b), b + 1) = Run(a, b + 1)
<1>1. Run(b, b + 1) = <<b + 1>>
  <2> DEFINE r == Run(b, b + 1)
  <2>1. b + 1 \in Nat /\ b <= b + 1 /\ (b + 1) - b = 1
    OBVIOUS
  <2>2. /\ r \in Seq(Nat) /\ Len(r) = (b + 1) - b
        /\ \A i \in 1..(b + 1) - b : r[i] = b + i
    BY <2>1, RunFacts, Zenon
  <2> HIDE DEF r
  <2>3. /\ r \in Seq(Nat) /\ Len(r) = 1 /\ r[1] = b + 1
    BY <2>1, <2>2
  <2>4. r = <<b + 1>>
    BY <2>3
  <2> QED
    BY <2>4 DEF r
<1>2. Run(a, b) \in Seq(Nat)
  BY RunFacts
<1>3. Append(Run(a, b), b + 1) = Run(a, b) \o <<b + 1>>
  <2> HIDE DEF Run
  <2> QED
    BY <1>2, AppendIsConcat
<1>4. b + 1 \in Nat /\ b <= b + 1
  OBVIOUS
<1>5. Run(a, b) \o Run(b, b + 1) = Run(a, b + 1)
  BY <1>4, RunsJoin, Zenon
<1> QED
  BY <1>1, <1>3, <1>5, Zenon

\* A place at most one round behind an index of the ring.
LEMMA Wrap ==
  ASSUME NEW i \in 0..LENGTH - 1, NEW k \in 0..LENGTH
  PROVE  /\ (i + k) % LENGTH = IF i + k < LENGTH THEN i + k ELSE i + k - LENGTH
         /\ (i + k) % LENGTH \in 0..LENGTH - 1
BY SizeAssumption

\* The place of the k-th object of the queue.
LEMMA PlaceFacts ==
  ASSUME read \in 0..LENGTH - 1, NEW k \in 1..LENGTH
  PROVE  /\ Place(k) \in 0..LENGTH - 1
         /\ Place(k) = IF read + (k - 1) < LENGTH THEN read + (k - 1)
                       ELSE read + (k - 1) - LENGTH
<1>1. k - 1 \in 0..LENGTH
  BY SizeAssumption
<1> QED
  BY <1>1, Wrap DEF Place

\* The objects keep their runs when one is put behind them, and that one is
\* the run that had been collected.
LEMMA EnqueueRuns ==
  ASSUME IInv, StreamInv, Enqueue, NEW c, Cut(c),
         NEW d, d = [k \in 0..count + 1 |-> IF k = count + 1 THEN accepted ELSE c[k]]
  PROVE  /\ d \in [0..count + 1 -> 0..accepted]
         /\ sent = Run(0, d[0]) /\ d[count + 1] = accepted
         /\ \A j, k \in 0..count + 1 : j <= k => d[j] <= d[k]
         /\ \A k \in 1..count + 1 : slots'[Place(k)] = Run(d[k - 1], d[k])
<1>1. /\ count \in Nat /\ count < LENGTH /\ accepted \in Nat /\ LENGTH \in Nat
      /\ read \in 0..LENGTH - 1
  BY SizeAssumption DEF IInv, TypeOK, Enqueue
<1>2. /\ c \in [0..count -> 0..accepted] /\ sent = Run(0, c[0])
      /\ tmp = Run(c[count], accepted)
      /\ \A j, k \in 0..count : j <= k => c[j] <= c[k]
      /\ \A k \in 1..count : slots[Place(k)] = Run(c[k - 1], c[k])
  BY Zenon DEF Cut
<1>3. \A k \in 0..count : d[k] = c[k] /\ c[k] \in 0..accepted
  BY <1>1, <1>2
<1>4. d[count + 1] = accepted
  BY <1>1
<1>5. d \in [0..count + 1 -> 0..accepted]
  BY <1>1, <1>2
<1>6. sent = Run(0, d[0])
  <2>1. 0 \in 0..count
    BY <1>1
  <2> QED
    BY <1>2, <1>3, <2>1
<1>7. \A j, k \in 0..count + 1 : j <= k => d[j] <= d[k]
  <2> SUFFICES ASSUME NEW j \in 0..count + 1, NEW k \in 0..count + 1, j <= k
               PROVE  d[j] <= d[k]
    OBVIOUS
  <2>1. CASE k = count + 1
    BY <1>1, <1>4, <1>5, <2>1
  <2>2. CASE k # count + 1
    <3>1. j \in 0..count /\ k \in 0..count
      BY <1>1, <2>2
    <3> QED
      BY <1>2, <1>3, <3>1
  <2> QED
    BY <2>1, <2>2
<1>8. ASSUME NEW k \in 1..count + 1
      PROVE  slots'[Place(k)] = Run(d[k - 1], d[k])
  <2>1. k \in 1..LENGTH /\ count + 1 \in 1..LENGTH /\ (count + 1) - 1 = count
    BY <1>1
  <2>2. Place(count + 1) = write
    BY <2>1 DEF Place, StreamInv
  <2>3. /\ Place(k) \in 0..LENGTH - 1
        /\ Place(k) = IF read + (k - 1) < LENGTH THEN read + (k - 1)
                      ELSE read + (k - 1) - LENGTH
    BY <1>1, <2>1, PlaceFacts
  <2>4. slots' = [slots EXCEPT ![write] = tmp] /\ slots \in [0..LENGTH - 1 -> Object]
    BY DEF Enqueue, IInv, TypeOK
  <2>5. CASE k = count + 1
    <3>1. slots'[Place(k)] = tmp
      BY <2>2, <2>3, <2>4, <2>5
    <3>2. k - 1 = count /\ count \in 0..count
      BY <1>1, <2>5
    <3>3. d[k - 1] = c[count] /\ d[k] = accepted
      BY <1>3, <1>4, <2>5, <3>2
    <3> QED
      BY <1>2, <3>1, <3>3
  <2>6. CASE k # count + 1
    <3>1. k \in 1..count /\ k \in 0..count /\ k - 1 \in 0..count
      BY <1>1, <2>6
    <3>2. write = IF read + count < LENGTH THEN read + count
                  ELSE read + count - LENGTH
      <4>1. count \in 0..LENGTH
        BY <1>1
      <4> QED
        BY <1>1, <4>1, Wrap DEF StreamInv
    <3>3. Place(k) # write
      BY <1>1, <2>3, <3>1, <3>2
    <3>4. slots'[Place(k)] = slots[Place(k)]
      BY <2>3, <2>4, <3>3
    <3> QED
      BY <1>2, <1>3, <3>1, <3>4
  <2> QED
    BY <2>5, <2>6
<1> QED
  BY <1>4, <1>5, <1>6, <1>7, <1>8

\* The cut after an object was put into the queue: the new one is the last
\* run, and when one was sent the bus takes the first run.
LEMMA EnqueueStream ==
  ASSUME IInv, StreamInv, Enqueue, UNCHANGED accepted
  PROVE  StreamInv'
<1>1. PICK c : Cut(c)
  BY DEF StreamInv
<1>2. PICK d : /\ d \in [0..count + 1 -> 0..accepted]
               /\ sent = Run(0, d[0]) /\ d[count + 1] = accepted
               /\ \A j, k \in 0..count + 1 : j <= k => d[j] <= d[k]
               /\ \A k \in 1..count + 1 : slots'[Place(k)] = Run(d[k - 1], d[k])
  BY <1>1, EnqueueRuns, Zenon
<1>3. /\ count \in Nat /\ count < LENGTH /\ accepted \in Nat /\ LENGTH \in Nat \ {0}
      /\ read \in 0..LENGTH - 1
  BY SizeAssumption DEF IInv, TypeOK, Enqueue
<1>4. tmp' = Run(accepted, accepted)
  BY <1>3, EmptyRun DEF Enqueue
<1>5. write = (read + count) % LENGTH /\ write' = Advanced(write)
  BY DEF StreamInv, Enqueue
<1>6. /\ write = IF read + count < LENGTH THEN read + count
                 ELSE read + count - LENGTH
      /\ write \in 0..LENGTH - 1
  BY <1>3, <1>5, Wrap, count \in 0..LENGTH
<1>7. CASE UNCHANGED read /\ UNCHANGED sent /\ count' = count + 1
  <2>1. Cut(d)'
    <3>1. \A k \in 1..count + 1 : Place(k)' = Place(k)
      BY <1>7 DEF Place
    <3>2. /\ d \in [0..count' -> 0..accepted'] /\ sent' = Run(0, d[0])
          /\ tmp' = Run(d[count'], accepted')
          /\ \A j, k \in 0..count' : j <= k => d[j] <= d[k]
      BY <1>2, <1>4, <1>7
    <3>3. \A k \in 1..count' : slots'[Place(k)'] = Run(d[k - 1], d[k])
      BY <1>2, <1>7, <3>1
    <3> QED
      BY <3>2, <3>3, Zenon DEF Cut, Place
  <2>2. write' = (read' + count') % LENGTH
    <3>1. write' = IF read + (count + 1) < LENGTH THEN read + (count + 1)
                   ELSE read + (count + 1) - LENGTH
      BY <1>3, <1>5, <1>6 DEF Advanced
    <3>2. count + 1 \in 0..LENGTH
      BY <1>3
    <3>3. (read + (count + 1)) % LENGTH
             = IF read + (count + 1) < LENGTH THEN read + (count + 1)
               ELSE read + (count + 1) - LENGTH
      BY <1>3, <3>2, Wrap
    <3> QED
      BY <1>7, <3>1, <3>3
  <2> QED
    BY <2>1, <2>2 DEF StreamInv
<1>8. CASE /\ sent' = sent \o slots'[read] /\ read' = Advanced(read)
           /\ count' = count
  <2>1. PICK e : e = [k \in 0..count |-> d[k + 1]]
    OBVIOUS
  <2>2. e \in [0..count -> 0..accepted] /\ \A k \in 0..count : e[k] = d[k + 1]
    BY <1>2, <1>3, <2>1
  <2>3. sent' = Run(0, e[0])
    <3>1. 1 \in 1..count + 1 /\ 1 - 1 = 0 /\ 0 \in 0..count
      BY <1>3
    <3>2. Place(1) = read
      <4>1. 1 \in 1..LENGTH
        BY <1>3
      <4> QED
        BY <1>3, <4>1, PlaceFacts
    <3>3. slots'[read] = Run(d[0], d[1])
      BY <1>2, <3>1, <3>2
    <3>4. /\ 0 \in Nat /\ d[0] \in Nat /\ d[1] \in Nat
          /\ 0 <= d[0] /\ d[0] <= d[1]
      BY <1>2, <1>3
    <3>5. Run(0, d[0]) \o Run(d[0], d[1]) = Run(0, d[1])
      BY <3>4, RunsJoin, Zenon
    <3>6. e[0] = d[1]
      BY <2>2, <3>1
    <3> QED
      BY <1>2, <1>8, <3>3, <3>5, <3>6
  <2>4. \A j, k \in 0..count : j <= k => e[j] <= e[k]
    <3> SUFFICES ASSUME NEW j \in 0..count, NEW k \in 0..count, j <= k
                 PROVE  e[j] <= e[k]
      OBVIOUS
    <3>1. j + 1 \in 0..count + 1 /\ k + 1 \in 0..count + 1 /\ j + 1 <= k + 1
      BY <1>3
    <3> QED
      BY <1>2, <2>2, <3>1
  <2>5. ASSUME NEW k \in 1..count
        PROVE  slots'[Place(k)'] = Run(e[k - 1], e[k])
    <3>1. /\ k + 1 \in 1..count + 1 /\ k + 1 <= LENGTH /\ (k + 1) - 1 = k
          /\ k \in 0..count /\ k - 1 \in 0..count /\ (k - 1) + 1 = k
      BY <1>3
    <3>2. slots'[Place(k + 1)] = Run(d[k], d[k + 1])
      BY <1>2, <3>1
    <3>3. Place(k)' = Place(k + 1)
      <4>1. Place(k + 1) = IF read + k < LENGTH THEN read + k
                           ELSE read + k - LENGTH
        BY <1>3, <3>1, PlaceFacts, k + 1 \in 1..LENGTH
      <4>2. /\ read' = IF read < LENGTH - 1 THEN read + 1 ELSE 0
            /\ read' \in 0..LENGTH - 1
        BY <1>3, <1>8 DEF Advanced
      <4>3. k - 1 \in 0..LENGTH
        BY <1>3, <3>1
      <4>4. Place(k)' = IF read' + (k - 1) < LENGTH THEN read' + (k - 1)
                        ELSE read' + (k - 1) - LENGTH
        BY <4>2, <4>3, Wrap DEF Place
      <4> QED
        BY <1>3, <3>1, <4>1, <4>2, <4>4
    <3>4. e[k - 1] = d[k] /\ e[k] = d[k + 1]
      BY <2>2, <3>1
    <3> QED
      BY <3>2, <3>3, <3>4
  <2>6. e[count] = accepted
    BY <1>2, <1>3, <2>2
  <2>7. Cut(e)'
    <3>1. /\ e \in [0..count' -> 0..accepted'] /\ tmp' = Run(e[count'], accepted')
          /\ \A j, k \in 0..count' : j <= k => e[j] <= e[k]
          /\ \A k \in 1..count' : slots'[Place(k)'] = Run(e[k - 1], e[k])
      BY <1>4, <1>8, <2>2, <2>4, <2>5, <2>6
    <3> QED
      BY <2>3, <3>1, Zenon DEF Cut, Place
  <2>8. write' = (read' + count') % LENGTH
    <3>1. read' \in 0..LENGTH - 1 /\ count \in 0..LENGTH
      BY <1>3, <1>8 DEF Advanced
    <3>2. (read' + count) % LENGTH
             = IF read' + count < LENGTH THEN read' + count
               ELSE read' + count - LENGTH
      BY <3>1, Wrap
    <3> QED
      BY <1>3, <1>5, <1>6, <1>8, <3>2 DEF Advanced
  <2> QED
    BY <2>7, <2>8 DEF StreamInv
<1> QED
  BY <1>7, <1>8 DEF Enqueue, Handled

\* At the start every run is empty.
LEMMA InitStream == Init => StreamInv
<1> SUFFICES ASSUME Init PROVE StreamInv
  OBVIOUS
<1> DEFINE c == [k \in 0..0 |-> 0]
<1>1. c \in [0..0 -> 0..0] /\ \A k \in 0..0 : c[k] = 0
  OBVIOUS
<1> HIDE DEF c
<1>2. Run(0, 0) = <<>>
  BY EmptyRun
<1>3. /\ count = 0 /\ accepted = 0 /\ sent = <<>> /\ tmp = <<>>
      /\ read = 0 /\ write = 0
  BY DEF Init
<1>4. Cut(c)
  <2>1. c[0] = 0 /\ 1..0 = {}
    BY <1>1
  <2> QED
    BY <1>1, <1>2, <1>3, <2>1 DEF Cut
<1>5. (0 + 0) % LENGTH = 0
  <2>1. 0 \in 0..LENGTH - 1 /\ 0 \in 0..LENGTH
    BY SizeAssumption
  <2> QED
    BY <2>1, Wrap, SizeAssumption
<1> QED
  BY <1>3, <1>4, <1>5 DEF StreamInv

\* Only storing a byte and putting the object into the queue touch the
\* stream.
LEMMA NextStream == IInv /\ StreamInv /\ [Next]_vars => StreamInv'
<1> SUFFICES ASSUME IInv, StreamInv, [Next]_vars PROVE StreamInv'
  OBVIOUS
<1>1. CASE PutcStore
  <2>1. PICK c : Cut(c)
    BY DEF StreamInv
  <2>2. /\ count \in Nat /\ accepted \in Nat
        /\ accepted' = accepted + 1 /\ UNCHANGED <<slots, read, write, count, sent>>
        /\ tmp' = Append(tmp, accepted + 1)
    BY <1>1 DEF PutcStore, IInv, TypeOK, queue
  <2>3. c \in [0..count -> 0..accepted] /\ tmp = Run(c[count], accepted)
    BY <2>1 DEF Cut
  <2>4. c[count] \in Nat /\ c[count] <= accepted
    BY <2>2, <2>3
  <2>5. tmp' = Run(c[count], accepted')
    <3>1. Append(Run(c[count], accepted), accepted + 1)
            = Run(c[count], accepted + 1)
      BY <2>2, <2>4, LongerRun, Zenon
    <3> QED
      BY <2>2, <2>3, <3>1, Zenon
  <2>6. c \in [0..count -> 0..accepted']
    BY <2>2, <2>3
  <2>7. Cut(c)'
    BY <2>1, <2>2, <2>5, <2>6 DEF Cut, Place
  <2> QED
    BY <2>2, <2>7 DEF StreamInv
<1>2. CASE Enqueue /\ UNCHANGED accepted
  BY <1>2, EnqueueStream
<1>3. CASE UNCHANGED <<tmp, queue, accepted, sent>>
  BY <1>3 DEF StreamInv, Cut, Place, queue
<1> QED
  <2>1. CASE Task \/ PutcEnter
    BY <1>1, <1>2, <1>3, <2>1
       DEF Task, PutcEnter, PutcSend, ProcessEnter, ProcessSend, queue
  <2>2. CASE Shutdown \/ Message \/ TimePasses \/ InterruptProcess
    BY <1>2, <1>3, <2>2 DEF Shutdown, Message, TimePasses, InterruptProcess, queue
  <2>3. CASE UNCHANGED vars
    BY <1>3, <2>3 DEF vars
  <2> QED
    BY <2>1, <2>2, <2>3 DEF Next

\* The queue read from its read index on is one run: the function that reads
\* it can only be the one that gives the runs of the cut joined.
LEMMA ContentsAreRun ==
  ASSUME IInv, NEW c, Cut(c)
  PROVE  Contents = Run(c[0], c[count])
<1>1. count \in Nat /\ accepted \in Nat
  BY DEF IInv, TypeOK
<1>2. /\ c \in [0..count -> 0..accepted]
      /\ \A j, k \in 0..count : j <= k => c[j] <= c[k]
      /\ \A k \in 1..count : slots[Place(k)] = Run(c[k - 1], c[k])
  BY DEF Cut
<1> DEFINE Body(f) == [n \in 0..count |->
                         IF n = 0 THEN <<>>
                         ELSE f[n - 1] \o slots[(read + n - 1) % LENGTH]]
           F == [n \in 0..count |-> Run(c[0], c[n])]
<1>3. \A k \in 0..count : c[k] \in Nat /\ c[0] <= c[k]
  BY <1>1, <1>2
<1>4. ASSUME NEW k \in 1..count
      PROVE  Run(c[0], c[k - 1]) \o slots[(read + k - 1) % LENGTH]
               = Run(c[0], c[k])
  <2>1. k - 1 \in 0..count /\ k \in 0..count /\ 0 \in 0..count /\ k - 1 <= k
    BY <1>1
  <2>2. (read + k - 1) % LENGTH = Place(k)
    <3>1. read + k - 1 = read + (k - 1)
      BY DEF IInv, TypeOK
    <3> QED
      BY <3>1 DEF Place
  <2>3. slots[Place(k)] = Run(c[k - 1], c[k])
    BY <1>2
  <2>4. /\ c[0] \in Nat /\ c[k - 1] \in Nat /\ c[k] \in Nat
        /\ c[0] <= c[k - 1] /\ c[k - 1] <= c[k]
    BY <1>2, <1>3, <2>1
  <2>5. Run(c[0], c[k - 1]) \o Run(c[k - 1], c[k]) = Run(c[0], c[k])
    BY <2>4, RunsJoin, Zenon
  <2> QED
    BY <2>2, <2>3, <2>5
<1>5. Run(c[0], c[0]) = <<>>
  <2>1. c[0] \in Nat
    BY <1>1, <1>3
  <2> QED
    BY <2>1, EmptyRun, Zenon
<1>6. F = Body(F)
  <2>1. ASSUME NEW n \in 0..count
        PROVE  Run(c[0], c[n]) = IF n = 0 THEN <<>>
                                 ELSE F[n - 1] \o slots[(read + n - 1) % LENGTH]
    <3>1. CASE n = 0
      BY <1>5, <3>1
    <3>2. CASE n # 0
      <4>1. n \in 1..count /\ n - 1 \in 0..count
        BY <1>1, <3>2
      <4>2. F[n - 1] = Run(c[0], c[n - 1])
        BY <4>1, Zenon
      <4> HIDE DEF F
      <4> QED
        BY <1>4, <3>2, <4>1, <4>2
    <3> QED
      BY <3>1, <3>2
  <2> QED
    BY <2>1, Zenon
<1>7. ASSUME NEW g, g = Body(g)
      PROVE  g = F
  <2> DEFINE wrong == {n \in 0..count : g[n] # F[n]}
  <2>1. wrong = {}
    <3> SUFFICES ASSUME wrong # {} PROVE FALSE
      OBVIOUS
    <3>1. PICK n \in wrong : \A m \in wrong : ~ (m < n)
      <4> DEFINE less == OpToRel(<, Nat)
      <4>1. IsWellFoundedOn(less, Nat)
        BY NatLessThanWellFounded, Zenon
      <4>2. \A m, n \in Nat : m < n => <<m, n>> \in less
        BY DEF OpToRel
      <4>3. wrong \subseteq Nat
        BY <1>1
      <4> HIDE DEF less, wrong
      <4>4. PICK n \in wrong : \A m \in wrong : ~ (<<m, n>> \in less)
        BY <4>1, <4>3, WFMin, Zenon
      <4> QED
        BY <4>2, <4>3, <4>4
    <3>2. n \in 0..count /\ g[n] # F[n]
      OBVIOUS
    <3>3. /\ F[n] = Run(c[0], c[n])
          /\ g[n] = IF n = 0 THEN <<>>
                    ELSE g[n - 1] \o slots[(read + n - 1) % LENGTH]
      BY <1>7, <3>2, Zenon
    <3>4. n # 0
      <4> HIDE DEF F
      <4> QED
        BY <1>5, <3>2, <3>3
    <3>5. n \in 1..count /\ n - 1 \in 0..count /\ n - 1 < n
      BY <1>1, <3>2, <3>4
    <3>6. g[n - 1] = F[n - 1]
      BY <3>1, <3>5
    <3>7. F[n - 1] = Run(c[0], c[n - 1])
      BY <3>5, Zenon
    <3> HIDE DEF F
    <3> QED
      BY <1>4, <3>2, <3>3, <3>4, <3>5, <3>6, <3>7
  <2>2. \A n \in 0..count : g[n] = F[n]
    BY <2>1, Zenon
  <2>3. g = [n \in 0..count |-> g[n]]
    BY <1>7, Zenon
  <2> QED
    BY <2>2, <2>3, Zenon
<1>8. Contents = (CHOOSE f : f = Body(f))[count]
  BY Zenon DEF Contents
<1>9. (CHOOSE f : f = Body(f)) = F
  <2> HIDE DEF F, Body
  <2> QED
    BY <1>6, <1>7, Zenon
<1>10. count \in 0..count
  BY <1>1
<1> QED
  BY <1>8, <1>9, <1>10, Zenon

\* For every length of the queue, every size of an object and every number
\* of refused sends: whoever interrupts whom between the test of the tunnel
\* and the sending, no byte is lost, doubled or overtaken by a later one.
THEOREM StreamIsKept == Spec => []StreamKept
<1>1. IInv /\ StreamInv => StreamKept
  <2> SUFFICES ASSUME IInv, StreamInv PROVE StreamKept
    OBVIOUS
  <2>1. PICK c : Cut(c)
    BY DEF StreamInv
  <2>2. Contents = Run(c[0], c[count])
    BY <2>1, ContentsAreRun
  <2>3. sent = Run(0, c[0]) /\ tmp = Run(c[count], accepted)
    BY <2>1 DEF Cut
  <2>4. /\ c[0] \in Nat /\ c[count] \in Nat /\ accepted \in Nat /\ 0 \in Nat
        /\ 0 <= c[0] /\ c[0] <= c[count] /\ c[count] <= accepted
    BY <2>1 DEF Cut, IInv, TypeOK
  <2>5. Run(0, c[0]) \o Run(c[0], c[count]) = Run(0, c[count])
    BY <2>4, RunsJoin, Zenon
  <2>6. Run(0, c[count]) \o Run(c[count], accepted) = Run(0, accepted)
    BY <2>4, RunsJoin, 0 <= c[count], Zenon
  <2>7. Run(0, accepted) = [i \in 1..accepted |-> i]
    BY <2>4 DEF Run
  <2> QED
    BY <2>2, <2>3, <2>5, <2>6, <2>7, Zenon DEF StreamKept
<1> QED
  BY InitIInv, NextIInv, InitStream, NextStream, <1>1, PTL DEF Spec
=============================================================================
