--------------------------- MODULE ErrorQueueProofs ---------------------------
(***************************************************************************)
(* The error queue for every SIZE and every set of errors: its types, that *)
(* no error is refused without QUEUE_FULL as the newest entry, that it     *)
(* does what ErrorLog promises, and what is left of this when interrupt    *)
(* handlers send and get in the middle of a task's send.                   *)
(***************************************************************************)
EXTENDS ErrorQueueIrq, Sequences, TLAPS

\* The step of an index, without the modulo.
LEMMA NextSlotValue ==
  ASSUME NEW i \in Slots
  PROVE  /\ NextSlot(i) \in Slots
         /\ NextSlot(i) = IF i = SIZE - 1 THEN 0 ELSE i + 1
BY SizeAssumption DEF Slots, NextSlot

\* Reducing a position at most SIZE entries behind a slot.
LEMMA WrappedSlot ==
  ASSUME NEW i \in Slots, NEW k \in 0 .. SIZE
  PROVE  (i + k) % SIZE = IF i + k < SIZE THEN i + k ELSE i + k - SIZE
BY SizeAssumption DEF Slots

\* Going on from the entry k places behind slot i is going k+1 places.
LEMMA RingAdvance ==
  ASSUME NEW i \in Slots, NEW k \in 0 .. SIZE - 1
  PROVE  /\ (i + k) % SIZE \in Slots
         /\ NextSlot((i + k) % SIZE) = (i + (k + 1)) % SIZE
<1> DEFINE j == (i + k) % SIZE
<1>1. j = IF i + k < SIZE THEN i + k ELSE i + k - SIZE
  BY WrappedSlot, SizeAssumption
<1>2. (i + (k + 1)) % SIZE
        = IF i + (k + 1) < SIZE THEN i + (k + 1) ELSE i + (k + 1) - SIZE
  <2>1. k + 1 \in 0 .. SIZE
    BY SizeAssumption
  <2> QED
    BY <2>1, WrappedSlot
<1>3. j \in Slots
  BY <1>1, SizeAssumption DEF Slots
<1>4. NextSlot(j) = IF j = SIZE - 1 THEN 0 ELSE j + 1
  BY <1>3, NextSlotValue
<1> QED
  BY <1>1, <1>2, <1>3, <1>4, SizeAssumption DEF Slots

\* Counting one place less from the next slot leads to the same place.
LEMMA RingShift ==
  ASSUME NEW i \in Slots, NEW k \in 1 .. SIZE
  PROVE  (NextSlot(i) + (k - 1)) % SIZE = (i + k) % SIZE
<1>1. NextSlot(i) \in Slots /\ k - 1 \in 0 .. SIZE /\ k \in 0 .. SIZE
  BY NextSlotValue, SizeAssumption
<1>2. NextSlot(i) = IF i = SIZE - 1 THEN 0 ELSE i + 1
  BY NextSlotValue
<1>3. (NextSlot(i) + (k - 1)) % SIZE
        = IF NextSlot(i) + (k - 1) < SIZE THEN NextSlot(i) + (k - 1)
                                          ELSE NextSlot(i) + (k - 1) - SIZE
  BY <1>1, WrappedSlot
<1>4. (i + k) % SIZE = IF i + k < SIZE THEN i + k ELSE i + k - SIZE
  BY <1>1, WrappedSlot
<1> QED
  BY <1>1, <1>2, <1>3, <1>4, SizeAssumption DEF Slots

\* Every reachable state of the error queue has the types TypeOK names, the
\* write index running at most one slot behind the array.
THEOREM TypeCorrect == Spec => []TypeOK
<1>1. Init => TypeOK
  <2> SUFFICES ASSUME Init PROVE TypeOK
    OBVIOUS
  <2> QED
    BY SizeAssumption DEF Init, TypeOK, Slots, Entries
<1>2. TypeOK /\ [Next]_vars => TypeOK'
  <2> SUFFICES ASSUME TypeOK, [Next]_vars PROVE TypeOK'
    OBVIOUS
  <2> USE SizeAssumption DEF TypeOK
  <2>1. CASE SendRefused
    BY <2>1 DEF SendRefused
  <2>2. ASSUME NEW e \in Errors, SendQueued(e) PROVE TypeOK'
    BY <2>2, NextSlotValue DEF SendQueued, Slots, Free, Entries
  <2>3. ASSUME NEW e \in Errors, SendQueuedLast(e) PROVE TypeOK'
    <3>1. inNext \in Slots /\ count + 2 \in 0 .. SIZE
      BY <2>3 DEF SendQueuedLast, Free
    <3>2. NextSlot(inNext) \in Slots /\ NextSlot(inNext) + 1 \in 0 .. SIZE
      BY <3>1, NextSlotValue DEF Slots
    <3>3. queue' \in [Slots -> Entries]
      BY <2>3, <3>1, <3>2 DEF SendQueuedLast, Entries
    <3> QED
      BY <2>3, <3>1, <3>2, <3>3 DEF SendQueuedLast
  <2>4. CASE SendBehindArray
    BY <2>4 DEF SendBehindArray
  <2>5. CASE SendFatal
    BY <2>5 DEF SendFatal
  <2>6. CASE Get
    BY <2>6, NextSlotValue DEF Get
  <2>7. CASE UNCHANGED vars
    BY <2>7 DEF vars
  <2> QED
    BY <2>1, <2>2, <2>3, <2>4, <2>5, <2>6, <2>7 DEF Next, Send, Overrun
<1> QED
  BY <1>1, <1>2, PTL DEF Spec

(***************************************************************************)
(* LossAnnounced is not inductive alone: the slot QUEUE_FULL is written to *)
(* is the newest entry only because the indices agree with the count.      *)
(***************************************************************************)
AnnouncedInv == TypeOK /\ IndicesAgree /\ LossAnnounced

\* The write index stays where the reader and the count say it is.
LEMMA IndicesStep ==
  ASSUME AnnouncedInv, [Next]_vars
  PROVE  IndicesAgree'
<1> USE SizeAssumption DEF AnnouncedInv, TypeOK, IndicesAgree, Intact
<1>1. CASE SendRefused \/ SendFatal \/ UNCHANGED vars
  BY <1>1 DEF SendRefused, SendFatal, vars
<1>2. ASSUME NEW e \in Errors, SendQueued(e) PROVE IndicesAgree'
  <2>1. inNext = (outNext + count) % SIZE /\ count \in 0 .. SIZE - 1
    BY <1>2 DEF SendQueued, Slots, Free
  <2>2. NextSlot(inNext) = (outNext + (count + 1)) % SIZE
    BY <2>1, RingAdvance
  <2>3. NextSlot(inNext) \in Slots
    BY <1>2, NextSlotValue DEF SendQueued
  <2> QED
    BY <1>2, <2>2, <2>3 DEF SendQueued, Slots
<1>3. ASSUME NEW e \in Errors, SendQueuedLast(e) PROVE IndicesAgree'
  <2>1. inNext = (outNext + count) % SIZE /\ count = SIZE - 2
    BY <1>3 DEF SendQueuedLast, Slots, Free
  <2>2. NextSlot(inNext) = (outNext + (count + 1)) % SIZE
    BY <2>1, RingAdvance
  <2>3. NextSlot(NextSlot(inNext)) = (outNext + (count + 1 + 1)) % SIZE
    BY <2>1, <2>2, count + 1 \in 0 .. SIZE - 1, RingAdvance
  <2>4. count + 1 + 1 = count + 2
    OBVIOUS
  <2> QED
    BY <1>3, <2>3, <2>4 DEF SendQueuedLast, NextSlot
<1>4. CASE SendBehindArray
  BY <1>4 DEF SendBehindArray
<1>5. CASE Get
  BY <1>5, RingShift DEF Get
<1> QED
  BY <1>1, <1>2, <1>3, <1>4, <1>5 DEF Next, Send, Overrun

\* The newest entry stays the newest one until a place is free for both a
\* further error and QUEUE_FULL.
LEMMA AnnouncedStep ==
  ASSUME AnnouncedInv, [Next]_vars
  PROVE  LossAnnounced'
<1> USE SizeAssumption DEF AnnouncedInv, TypeOK, LossAnnounced, Free, Intact
<1>1. CASE SendRefused \/ SendFatal \/ UNCHANGED vars
  BY <1>1 DEF SendRefused, SendFatal, vars, LastSlot
<1>2. ASSUME NEW e \in Errors, SendQueued(e) PROVE LossAnnounced'
  BY <1>2 DEF SendQueued
<1>3. ASSUME NEW e \in Errors, SendQueuedLast(e) PROVE LossAnnounced'
  <2>1. inNext = (outNext + count) % SIZE /\ count = SIZE - 2
    BY <1>3 DEF SendQueuedLast, IndicesAgree, Slots
  <2>2. NextSlot(inNext) = (outNext + (count + 1)) % SIZE
    BY <2>1, RingAdvance
  <2>3. outNext + count' - 1 = outNext + (count + 1) /\ outNext' = outNext
    BY <2>1, <1>3 DEF SendQueuedLast
  <2>4. LastSlot' = NextSlot(inNext)
    BY <2>2, <2>3 DEF LastSlot
  <2>5. queue'[NextSlot(inNext)] = QUEUE_FULL
    BY <1>3, NextSlotValue DEF SendQueuedLast
  <2> QED
    BY <2>4, <2>5
<1>4. CASE SendBehindArray
  BY <1>4 DEF SendBehindArray
<1>5. CASE Get
  <2> SUFFICES ASSUME Free' < 0 PROVE queue'[LastSlot'] = QUEUE_FULL
    OBVIOUS
  <2>1. count = SIZE /\ count' = SIZE - 1
    BY <1>5 DEF Get
  <2>2. (NextSlot(outNext) + (SIZE - 1 - 1)) % SIZE = (outNext + (SIZE - 1)) % SIZE
    BY SIZE - 1 \in 1 .. SIZE, RingShift
  <2>3. LastSlot' = (NextSlot(outNext) + (SIZE - 1 - 1)) % SIZE
    <3>1. outNext' + count' - 1 = NextSlot(outNext) + (SIZE - 1 - 1)
      BY <2>1, <1>5, NextSlotValue DEF Get, Slots
    <3> QED
      BY <3>1 DEF LastSlot
  <2>4. LastSlot = (outNext + (SIZE - 1)) % SIZE
    <3>1. outNext + count - 1 = outNext + (SIZE - 1)
      BY <2>1 DEF Slots
    <3> QED
      BY <3>1 DEF LastSlot
  <2>5. queue[LastSlot] = QUEUE_FULL
    BY <2>1, <1>5 DEF Get
  <2> QED
    BY <2>2, <2>3, <2>4, <2>5, <1>5 DEF Get
<1> QED
  BY <1>1, <1>2, <1>3, <1>4, <1>5 DEF Next, Send, Overrun

LEMMA Announced == Spec => []AnnouncedInv
<1>1. Init => AnnouncedInv
  <2> SUFFICES ASSUME Init PROVE AnnouncedInv
    OBVIOUS
  <2>1. TypeOK
    BY SizeAssumption DEF Init, TypeOK, Slots, Entries
  <2>2. IndicesAgree /\ LossAnnounced
    BY SizeAssumption DEF Init, IndicesAgree, LossAnnounced, Free, Intact
  <2> QED
    BY <2>1, <2>2 DEF AnnouncedInv
<1>2. AnnouncedInv /\ TypeOK' /\ [Next]_vars => AnnouncedInv'
  BY IndicesStep, AnnouncedStep DEF AnnouncedInv
<1> QED
  BY <1>1, <1>2, TypeCorrect, PTL DEF Spec

\* No error is refused unannounced: whenever the next send would be refused,
\* the newest entry the readers will get is QUEUE_FULL.
THEOREM LossIsAnnounced == Spec => []LossAnnounced
<1>1. AnnouncedInv => LossAnnounced
  BY DEF AnnouncedInv
<1> QED
  BY <1>1, Announced, PTL

\* The next error is written where the readers will look for it: the write
\* index is as far from the read index as the queue holds entries.
THEOREM IndicesStayTogether == Spec => []IndicesAgree
<1>1. AnnouncedInv => IndicesAgree
  BY DEF AnnouncedInv
<1> QED
  BY <1>1, Announced, PTL

-----------------------------------------------------------------------------
(***************************************************************************)
(* The refinement: the entries from the read index on are the log.         *)
(***************************************************************************)

\* Different distances of less than SIZE lead to different slots.
LEMMA DistinctPlaces ==
  ASSUME NEW i \in Slots, NEW k \in 0 .. SIZE - 1, NEW l \in 0 .. SIZE - 1, k # l
  PROVE  (i + k) % SIZE # (i + l) % SIZE
<1>1. k \in 0 .. SIZE /\ l \in 0 .. SIZE
  BY SizeAssumption
<1>2. (i + k) % SIZE = IF i + k < SIZE THEN i + k ELSE i + k - SIZE
  BY <1>1, WrappedSlot
<1>3. (i + l) % SIZE = IF i + l < SIZE THEN i + l ELSE i + l - SIZE
  BY <1>1, WrappedSlot
<1> QED
  BY <1>2, <1>3, SizeAssumption DEF Slots

\* c entries read from slot o on, as Pending reads them.
Ring(q, o, c) == [i \in 1 .. c |-> q[(o + i - 1) % SIZE]]

\* The k-th entry of the ring is k-1 slots behind its first one.
LEMMA RingEntries ==
  ASSUME NEW q \in [Slots -> Entries], NEW o \in Slots, NEW c \in 0 .. SIZE
  PROVE  /\ Ring(q, o, c) \in Seq(Entries)
         /\ Len(Ring(q, o, c)) = c
         /\ \A k \in 1 .. c : /\ (o + (k - 1)) % SIZE \in Slots
                              /\ Ring(q, o, c)[k] = q[(o + (k - 1)) % SIZE]
<1> USE SizeAssumption
<1>1. ASSUME NEW k \in 1 .. c
      PROVE  /\ (o + (k - 1)) % SIZE \in Slots
             /\ Ring(q, o, c)[k] = q[(o + (k - 1)) % SIZE]
  <2>1. k - 1 \in 0 .. SIZE - 1
    OBVIOUS
  <2>2. (o + (k - 1)) % SIZE \in Slots
    BY <2>1, RingAdvance
  <2>3. o + k - 1 = o + (k - 1)
    BY DEF Slots
  <2> QED
    BY <2>2, <2>3 DEF Ring
<1>2. Ring(q, o, c) \in [1 .. c -> Entries]
  <2>1. \A k \in 1 .. c : Ring(q, o, c)[k] \in Entries
    BY <1>1
  <2> QED
    BY <2>1 DEF Ring
<1>3. Ring(q, o, c) \in Seq(Entries) /\ Len(Ring(q, o, c)) = c
  BY <1>2
<1> QED
  BY <1>1, <1>3

\* Writing the slot behind the last entry appends to the ring.
LEMMA RingAppend ==
  ASSUME NEW q \in [Slots -> Entries], NEW w \in [Slots -> Entries],
         NEW o \in Slots, NEW c \in 0 .. SIZE - 1, NEW e \in Entries,
         w[(o + c) % SIZE] = e,
         \A s \in Slots : s # (o + c) % SIZE => w[s] = q[s]
  PROVE  Ring(w, o, c + 1) = Append(Ring(q, o, c), e)
<1> USE SizeAssumption
<1>1. c + 1 \in 0 .. SIZE /\ c \in 0 .. SIZE
  OBVIOUS
<1>2. /\ Ring(w, o, c + 1) \in Seq(Entries) /\ Len(Ring(w, o, c + 1)) = c + 1
      /\ \A k \in 1 .. c + 1 : Ring(w, o, c + 1)[k] = w[(o + (k - 1)) % SIZE]
  BY <1>1, RingEntries, Zenon
<1>3. /\ Ring(q, o, c) \in Seq(Entries) /\ Len(Ring(q, o, c)) = c
      /\ \A k \in 1 .. c : /\ (o + (k - 1)) % SIZE \in Slots
                           /\ Ring(q, o, c)[k] = q[(o + (k - 1)) % SIZE]
  BY <1>1, RingEntries, Zenon
<1>4. ASSUME NEW k \in 1 .. c
      PROVE  Ring(w, o, c + 1)[k] = Ring(q, o, c)[k]
  <2>1. k - 1 \in 0 .. SIZE - 1 /\ k - 1 # c /\ k \in 1 .. c + 1
    OBVIOUS
  <2>2. (o + (k - 1)) % SIZE # (o + c) % SIZE
    BY <2>1, DistinctPlaces
  <2> QED
    BY <2>1, <2>2, <1>2, <1>3
<1>5. Ring(w, o, c + 1)[c + 1] = e
  <2>1. c + 1 - 1 = c /\ c + 1 \in 1 .. c + 1
    OBVIOUS
  <2> QED
    BY <2>1, <1>2
<1> QED
  BY <1>2, <1>3, <1>4, <1>5

\* Reading the first entry and going on from the next slot takes the head.
LEMMA RingTake ==
  ASSUME NEW q \in [Slots -> Entries], NEW o \in Slots, NEW c \in 1 .. SIZE
  PROVE  /\ Ring(q, o, c) # << >>
         /\ Head(Ring(q, o, c)) = q[o]
         /\ Ring(q, NextSlot(o), c - 1) = Tail(Ring(q, o, c))
<1> USE SizeAssumption
<1>1. NextSlot(o) \in Slots
  BY NextSlotValue
<1>2. /\ Ring(q, o, c) \in Seq(Entries) /\ Len(Ring(q, o, c)) = c
      /\ \A k \in 1 .. c : Ring(q, o, c)[k] = q[(o + (k - 1)) % SIZE]
  BY c \in 0 .. SIZE, RingEntries
<1>3. /\ Ring(q, NextSlot(o), c - 1) \in Seq(Entries)
      /\ Len(Ring(q, NextSlot(o), c - 1)) = c - 1
      /\ \A k \in 1 .. c - 1 :
           Ring(q, NextSlot(o), c - 1)[k] = q[(NextSlot(o) + (k - 1)) % SIZE]
  BY <1>1, c - 1 \in 0 .. SIZE, RingEntries
<1>4. (o + (1 - 1)) % SIZE = o
  BY DEF Slots
<1>5. ASSUME NEW k \in 1 .. c - 1
      PROVE  Ring(q, NextSlot(o), c - 1)[k] = Ring(q, o, c)[k + 1]
  <2>1. (NextSlot(o) + (k - 1)) % SIZE = (o + k) % SIZE
    BY k \in 1 .. SIZE, RingShift
  <2>2. Ring(q, o, c)[k + 1] = q[(o + k) % SIZE]
    <3> DEFINE j == k + 1
    <3>1. j \in 1 .. c /\ j - 1 = k
      OBVIOUS
    <3> HIDE DEF j
    <3>2. Ring(q, o, c)[j] = q[(o + (j - 1)) % SIZE]
      BY <3>1, <1>2, Zenon
    <3>3. Ring(q, o, c)[j] = q[(o + k) % SIZE]
      BY <3>1, <3>2, Zenon
    <3> QED
      BY <3>3 DEF j
  <2>3. Ring(q, NextSlot(o), c - 1)[k] = q[(NextSlot(o) + (k - 1)) % SIZE]
    BY <1>3, Zenon
  <2> QED
    BY <2>1, <2>2, <2>3, Zenon
<1>6. Head(Ring(q, o, c)) = q[o] /\ Ring(q, o, c) # << >>
  BY <1>2, <1>4
<1>7. Ring(q, NextSlot(o), c - 1) = Tail(Ring(q, o, c))
  BY <1>2, <1>3, <1>5
<1> QED
  BY <1>6, <1>7

\* A send with room left appends the error to the log.
LEMMA QueuedIsAccepted ==
  ASSUME AnnouncedInv, TypeOK', NEW e \in Errors, SendQueued(e)
  PROVE  ErrorLog!Accept(e)
<1> USE SizeAssumption DEF AnnouncedInv
<1>1. /\ queue \in [Slots -> Entries] /\ queue' \in [Slots -> Entries]
      /\ outNext \in Slots /\ outNext' = outNext
      /\ count \in 0 .. SIZE - 1 /\ count \in 0 .. SIZE /\ count < SIZE - 2 /\ count' = count + 1
      /\ returned' = returned
      /\ e \in Entries
  BY DEF SendQueued, TypeOK, Free, Entries
<1>2. inNext = (outNext + count) % SIZE /\ inNext \in Slots
  BY DEF SendQueued, IndicesAgree, Slots
<1>3. queue' = [queue EXCEPT ![inNext] = e]
  BY DEF SendQueued
<1>4. /\ queue'[(outNext + count) % SIZE] = e
      /\ \A s \in Slots : s # (outNext + count) % SIZE => queue'[s] = queue[s]
  BY <1>1, <1>2, <1>3
<1>5. Ring(queue', outNext, count + 1) = Append(Ring(queue, outNext, count), e)
  BY <1>1, <1>4, RingAppend
<1>6. Len(Ring(queue, outNext, count)) = count
  BY <1>1, RingEntries, Zenon
<1>7. Pending = Ring(queue, outNext, count)
      /\ Pending' = Ring(queue', outNext, count + 1)
  BY <1>1 DEF Pending, Ring
<1> QED
  BY <1>1, <1>5, <1>6, <1>7 DEF ErrorLog!Accept

\* The last send appends the error and QUEUE_FULL.
LEMMA QueuedLastIsAccepted ==
  ASSUME AnnouncedInv, TypeOK', NEW e \in Errors, SendQueuedLast(e)
  PROVE  ErrorLog!AcceptLast(e)
<1> USE SizeAssumption DEF AnnouncedInv
<1> DEFINE q1 == [queue EXCEPT ![inNext] = e]
           n2 == NextSlot(inNext)
<1>1. /\ queue \in [Slots -> Entries] /\ queue' \in [Slots -> Entries]
      /\ outNext \in Slots /\ outNext' = outNext
      /\ count \in 0 .. SIZE - 1 /\ count \in 0 .. SIZE /\ count = SIZE - 2
      /\ count' = count + 1 + 1
      /\ returned' = returned
      /\ e \in Entries /\ QUEUE_FULL \in Entries
  BY DEF SendQueuedLast, TypeOK, Free, Entries
<1>2. inNext = (outNext + count) % SIZE /\ inNext \in Slots
  BY DEF SendQueuedLast, IndicesAgree, Slots
<1>3. n2 \in Slots /\ n2 = (outNext + (count + 1)) % SIZE
  <2>1. NextSlot((outNext + count) % SIZE) = (outNext + (count + 1)) % SIZE
    BY <1>1, RingAdvance, Zenon
  <2> QED
    BY <2>1, <1>2, NextSlotValue, Zenon
<1>4. queue' = [q1 EXCEPT ![n2] = QUEUE_FULL]
  BY DEF SendQueuedLast
<1>5. /\ q1 \in [Slots -> Entries] /\ q1[(outNext + count) % SIZE] = e
      /\ \A s \in Slots : s # (outNext + count) % SIZE => q1[s] = queue[s]
  BY <1>1, <1>2
<1>6. Ring(q1, outNext, count + 1) = Append(Ring(queue, outNext, count), e)
  <2> HIDE DEF q1
  <2> QED
    BY <1>1, <1>5, RingAppend
<1>7. /\ queue'[(outNext + (count + 1)) % SIZE] = QUEUE_FULL
      /\ \A s \in Slots : s # (outNext + (count + 1)) % SIZE => queue'[s] = q1[s]
  <2> HIDE DEF q1, n2
  <2> QED
    BY <1>3, <1>4, <1>5
<1>8. Ring(queue', outNext, count + 1 + 1)
        = Append(Ring(q1, outNext, count + 1), QUEUE_FULL)
  <2>1. count + 1 \in 0 .. SIZE - 1
    BY <1>1
  <2> HIDE DEF q1
  <2> QED
    BY <2>1, <1>1, <1>5, <1>7, RingAppend
<1>9. Ring(queue, outNext, count) \in Seq(Entries)
      /\ Len(Ring(queue, outNext, count)) = count
  BY <1>1, RingEntries, Zenon
<1>10. Append(Append(Ring(queue, outNext, count), e), QUEUE_FULL)
         = Ring(queue, outNext, count) \o <<e, QUEUE_FULL>>
  <2> DEFINE r == Ring(queue, outNext, count)
  <2>1. r \in Seq(Entries)
    BY <1>9
  <2> HIDE DEF r
  <2>2. Append(Append(r, e), QUEUE_FULL) = r \o <<e, QUEUE_FULL>>
    BY <1>1, <2>1
  <2> QED
    BY <2>2 DEF r
<1>11. Pending = Ring(queue, outNext, count)
       /\ Pending' = Ring(queue', outNext, count + 1 + 1)
  BY <1>1 DEF Pending, Ring
<1> HIDE DEF q1
<1> QED
  BY <1>1, <1>6, <1>8, <1>9, <1>10, <1>11 DEF ErrorLog!AcceptLast

\* A get takes the head of the log.
LEMMA GetIsTaken ==
  ASSUME AnnouncedInv, Get
  PROVE  ErrorLog!Take
<1> USE SizeAssumption DEF AnnouncedInv
<1>1. /\ queue \in [Slots -> Entries] /\ queue' = queue
      /\ outNext \in Slots /\ outNext' = NextSlot(outNext)
      /\ count \in 1 .. SIZE /\ count' = count - 1
      /\ returned' = queue[outNext]
  BY DEF Get, TypeOK
<1>2. Pending = Ring(queue, outNext, count)
      /\ Pending' = Ring(queue, NextSlot(outNext), count - 1)
  BY <1>1 DEF Pending, Ring
<1> QED
  BY <1>1, <1>2, RingTake DEF ErrorLog!Take

\* What every step is for the log.
LEMMA LogStep ==
  ASSUME AnnouncedInv, TypeOK', [Next]_vars
  PROVE  [~Intact' \/ ErrorLog!Next]_<<ErrorLog!vars>>
<1>1. ASSUME UNCHANGED <<queue, outNext, count, returned>>
      PROVE  UNCHANGED <<ErrorLog!vars>>
  BY <1>1 DEF ErrorLog!vars, Pending
<1>2. CASE SendRefused \/ SendFatal \/ UNCHANGED vars \/ Overrun
  BY <1>1, <1>2 DEF SendRefused, SendFatal, Overrun, vars
<1>3. ASSUME NEW e \in Errors, SendQueued(e)
      PROVE  ErrorLog!Next
  BY <1>3, QueuedIsAccepted DEF ErrorLog!Next
<1>4. ASSUME NEW e \in Errors, SendQueuedLast(e)
      PROVE  ErrorLog!Next
  BY <1>4, QueuedLastIsAccepted DEF ErrorLog!Next
<1>5. CASE SendBehindArray
  BY <1>5 DEF SendBehindArray, Intact
<1>6. CASE Get
  BY <1>6, GetIsTaken DEF ErrorLog!Next
<1> QED
  BY <1>2, <1>3, <1>4, <1>5, <1>6 DEF Next, Send

\* The cyclic queue is a bounded FIFO log that keeps its last place for
\* QUEUE_FULL, for every size: until the first write behind the array each
\* send and get does to the pending entries what the log promises.
THEOREM QueueImplementsLog == Spec => ImplementsErrorLog
<1>1. Init => ErrorLog!Init
  BY SizeAssumption DEF Init, ErrorLog!Init, Pending
<1>2. AnnouncedInv /\ AnnouncedInv' /\ [Next]_vars
        => [~Intact' \/ ErrorLog!Next]_<<ErrorLog!vars>>
  BY LogStep DEF AnnouncedInv
<1> QED
  BY <1>1, <1>2, Announced, PTL DEF Spec, ImplementsErrorLog

-----------------------------------------------------------------------------
(***************************************************************************)
(* The interrupted send, its inductive invariant.  The write index leaves  *)
(* the array by line 280 only, and there only from an index the statements *)
(* before have written at or an interrupt handler has left behind the      *)
(* array.  Behind the test of lines 251 and 270 there was room, and the    *)
(* interrupt handlers, which refuse an error when less than two places are *)
(* free, do no more than use it up.                                        *)
(***************************************************************************)
AdvanceBound == Intact => /\ pc \in {"rest", "index"} => inNext <= SIZE
                          /\ pc = "advance" => reg <= SIZE

CountBound == Intact => /\ pc = "load" => count <= SIZE
                        /\ pc = "store" => reg <= SIZE

EntryBound == pc = "entries" => reg \in Slots

IrqInv == IrqTypeOK /\ CountOverByOne /\ AdvanceBound /\ CountBound /\ EntryBound

LEMMA AnyNextSlot == ASSUME NEW i \in 0 .. SIZE + 1 PROVE NextSlot(i) \in Slots
  BY SizeAssumption DEF NextSlot, Slots

LEMMA InitIrq == ASSUME IrqInit PROVE IrqInv
<1>1. full \in BOOLEAN /\ pc = "idle"
  BY Zenon DEF IrqInit
<1>2. queue \in [Slots -> Entries]
  BY DEF IrqInit, Init, Entries
<1> QED
  BY <1>1, <1>2, SizeAssumption DEF IrqInit, Init, IrqInv, IrqTypeOK,
     CountOverByOne, AdvanceBound, CountBound, EntryBound, Slots, Entries,
     Statements

\* The fields behind the array are overwritten: nothing is left to show but
\* the types.
LEMMA OverwriteStep ==
  ASSUME IrqInv, Overwrite, UNCHANGED <<state, returned, full, msg, free, reg>>,
         pc' \in {"rest", "index"}
  PROVE  IrqInv'
  BY SizeAssumption DEF IrqInv, IrqTypeOK, CountOverByOne, AdvanceBound,
     CountBound, EntryBound, Overwrite, Statements, Intact

\* An access of the task's send.
LEMMA TaskStep ==
  ASSUME IrqInv, Task
  PROVE  IrqInv'
<1> USE SizeAssumption DEF IrqInv, IrqTypeOK, CountOverByOne, AdvanceBound,
        CountBound, EntryBound, At
<1>1. ASSUME NEW e \in Errors, TaskCall(e) PROVE IrqInv'
  <2>1. full' \in BOOLEAN
    BY <1>1, Zenon DEF TaskCall
  <2> QED
    BY <1>1, <2>1 DEF TaskCall, queueVars, Entries, Statements, Intact, Slots
<1>2. CASE TaskInitEntry
  <2>1. reg \in Slots /\ (reg + 1) % SIZE \in Slots
    BY <1>2 DEF TaskInitEntry, Slots
  <2>2. queue' \in [Slots -> Entries]
    BY <1>2, <2>1 DEF TaskInitEntry, Entries
  <2> QED
    BY <1>2, <2>1, <2>2 DEF TaskInitEntry, Statements, Intact, Slots
<1>3. CASE TaskInitFields
  BY <1>3 DEF TaskInitFields, Statements, Intact, Slots
<1>4. CASE TaskFree
  BY <1>4 DEF TaskFree, queueVars, Free, Statements, Intact
<1>5. CASE TaskTest
  BY <1>5 DEF TaskTest, queueVars, Room, Statements, Intact
<1>6. CASE TaskCount
  BY <1>6 DEF TaskCount, Statements, Intact
<1>7. CASE TaskWrite
  <2>1. CASE Overwrite
    BY <1>7, <2>1, OverwriteStep DEF TaskWrite
  <2>2. CASE ~Overwrite
    <3>1. queue' \in [Slots -> Entries]
      BY <1>7, <2>2 DEF TaskWrite, Entries
    <3> QED
      BY <1>7, <2>2, <3>1 DEF TaskWrite, Statements, Slots, Intact
  <2> QED
    BY <2>1, <2>2
<1>8. CASE TaskWriteRest
  <2>1. CASE Overwrite
    BY <1>8, <2>1, OverwriteStep DEF TaskWriteRest
  <2>2. CASE ~Overwrite
    BY <1>8, <2>2 DEF TaskWriteRest, Statements, Slots, Intact
  <2> QED
    BY <2>1, <2>2
<1>9. CASE TaskAdvance
  <2>1. NextSlot(reg) \in Slots
    BY AnyNextSlot
  <2>2. CASE pc = "index"
    BY <1>9, <2>2 DEF TaskAdvance, Statements, Slots, Intact
  <2>3. CASE pc = "advance" /\ ~full
    <3>1. full' \in BOOLEAN
      BY <1>9, <2>3, Zenon DEF TaskAdvance
    <3> QED
      BY <1>9, <2>1, <2>3, <3>1 DEF TaskAdvance, Statements, Slots, Intact
  <2>4. CASE pc = "advance" /\ full
    BY <1>9, <2>4 DEF TaskAdvance, Statements, Slots, Intact
  <2> QED
    BY <1>9, <2>2, <2>3, <2>4 DEF TaskAdvance
<1> QED
  BY <1>1, <1>2, <1>3, <1>4, <1>5, <1>6, <1>7, <1>8, <1>9 DEF Task

\* A call of an interrupt handler between two of them.
LEMMA InterruptStep ==
  ASSUME IrqInv, Interrupt
  PROVE  IrqInv'
<1> USE SizeAssumption DEF IrqInv, IrqTypeOK, CountOverByOne, AdvanceBound,
        CountBound, EntryBound
<1>0. UNCHANGED <<pc, full, msg, free, reg>>
  BY DEF Interrupt, taskVars
<1>1. CASE SendRefused \/ SendFatal
  BY <1>0, <1>1 DEF SendRefused, SendFatal, Intact
<1>2. ASSUME NEW e \in Errors, SendQueued(e) PROVE IrqInv'
  <2>1. NextSlot(inNext) \in Slots
    BY AnyNextSlot
  <2>2. queue' \in [Slots -> Entries]
    BY <1>2 DEF SendQueued, Entries
  <2> QED
    BY <1>0, <1>2, <2>1, <2>2 DEF SendQueued, Slots, Free
<1>3. ASSUME NEW e \in Errors, SendQueuedLast(e) PROVE IrqInv'
  <2>1. NextSlot(inNext) \in Slots
    BY AnyNextSlot
  <2>2. queue' \in [Slots -> Entries]
    BY <1>3, <2>1 DEF SendQueuedLast, Entries
  <2> QED
    BY <1>0, <1>3, <2>1, <2>2 DEF SendQueuedLast, Slots, Free
<1>4. CASE SendBehindArray
  BY <1>0, <1>4 DEF SendBehindArray, Intact
<1>5. CASE Get
  <2>1. NextSlot(outNext) \in Slots
    BY AnyNextSlot DEF Slots
  <2> QED
    BY <1>0, <1>5, <2>1 DEF Get, Intact
<1>6. CASE Overrun
  BY <1>0, <1>6 DEF Overrun, vars, Intact
<1> QED
  BY <1>1, <1>2, <1>3, <1>4, <1>5, <1>6 DEF Interrupt, Next, Send

LEMMA IrqInvariant == IrqSpec => []IrqInv
<1>1. IrqInv /\ UNCHANGED irqVars => IrqInv'
  BY DEF IrqInv, IrqTypeOK, CountOverByOne, AdvanceBound, CountBound, EntryBound,
     irqVars, vars, taskVars, Intact
<1>2. IrqInv /\ [IrqNext]_irqVars => IrqInv'
  BY <1>1, TaskStep, InterruptStep DEF IrqNext
<1> QED
  BY <1>2, InitIrq, PTL DEF IrqSpec

\* At every access of an interrupted send the state has the types IrqTypeOK
\* names, the write index running at most two entries behind the array.
THEOREM IrqTypeCorrect == IrqSpec => []IrqTypeOK
<1>1. IrqInv => IrqTypeOK
  BY DEF IrqInv
<1> QED
  BY <1>1, IrqInvariant, PTL

\* However the interrupt handlers fall between the accesses of a send, the
\* count exceeds the number of entries by at most one.
THEOREM CountStaysNear == IrqSpec => []CountOverByOne
<1>1. IrqInv => CountOverByOne
  BY DEF IrqInv
<1> QED
  BY <1>1, IrqInvariant, PTL
=============================================================================
