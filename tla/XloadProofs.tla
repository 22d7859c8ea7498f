----------------------------- MODULE XloadProofs ------------------------------
(***************************************************************************)
(* The block transfer for every size of the ring, of an object, a block, a *)
(* line and a file, and for any number of messages of the other module:    *)
(* its types, that the ring's indices lie as far apart as the ring holds   *)
(* bytes, and, while no message of the other module was handled since A's  *)
(* master began with a slave at rest, that a block fits and that what is   *)
(* acknowledged is programmed.                                             *)
(***************************************************************************)
EXTENDS Xload, SequenceTheorems, TLAPS

\* A ring whose indices agree with the number of its bytes.
Sound(r) == r \in RingType /\ r.write = At(r, r.nr)

\* A position up to SIZE bytes behind one of the ring.
Wrap(k) == IF k < SIZE THEN k ELSE k - SIZE

\* The part of the state that a handler changes.
SlaveInv ==
  /\ xload \in XloadType /\ block \in BlockType /\ ring \in RingType
  /\ app \in AppType /\ info \in InfoType /\ mail \in Seq(Answers)

Agree == ring.write = At(ring, ring.nr)

\* The ring's indices, also in the middle of a reset that nothing disturbs.
RingInv ==
  /\ ~Resetting /\ ~torn => Agree
  /\ start.pc = "write" /\ ~torn => ring.read = 0
  /\ start.pc = "nr" /\ ~torn => ring.read = 0 /\ ring.write = 0

IInv ==
  /\ SlaveInv /\ start \in StartType /\ booting \in BOOLEAN /\ host \in HostType
  /\ torn \in BOOLEAN /\ RingInv

-----------------------------------------------------------------------------
(* The ring.                                                               *)
\* Reducing a position at most SIZE bytes behind a place of the ring.
LEMMA Wrapped ==
  ASSUME NEW i \in 0..SIZE - 1, NEW k \in 0..SIZE
  PROVE  /\ (i + k) % SIZE = Wrap(i + k)
         /\ Wrap(i + k) \in 0..SIZE - 1
BY NumberAssumption DEF Wrap

LEMMA WrapTwice ==
  ASSUME NEW i \in 0..SIZE - 1, NEW k \in 0..SIZE, NEW n \in 0..SIZE - k
  PROVE  Wrap(Wrap(i + k) + n) = Wrap(i + (k + n))
BY NumberAssumption DEF Wrap

\* How far one place of the ring lies behind another.
LEMMA Backwards ==
  ASSUME NEW i \in 0..SIZE - 1, NEW w \in 0..SIZE - 1
  PROVE  (i - w) % SIZE = IF i >= w THEN i - w ELSE i - w + SIZE
BY NumberAssumption

\* A position of a sequence holds an element of its set.
LEMMA ElementIn ==
  ASSUME NEW S, NEW q \in Seq(S), NEW i \in 1..Len(q)
  PROVE  q[i] \in S
OBVIOUS

LEMMA FunctionIsSequence ==
  ASSUME NEW S, NEW n \in Nat, NEW f \in [1..n -> S]
  PROVE  f \in Seq(S)
OBVIOUS

\* Bytes added behind the last one.
LEMMA AddedTyped ==
  ASSUME NEW r \in RingType, NEW bytes \in Seq(0..FILE)
  PROVE  Added(r, bytes) \in RingType
<1> DEFINE n == Least(Len(bytes), SIZE - r.nr)
           s == Added(r, bytes)
<1>1. /\ SIZE \in Nat \ {0} /\ r.nr \in 0..SIZE
      /\ r.read \in 0..SIZE - 1 /\ r.write \in 0..SIZE - 1
  BY NumberAssumption DEF RingType
<1>2. n \in 0..SIZE - r.nr /\ n <= Len(bytes)
  BY <1>1 DEF Least
<1>3. s.data \in [0..SIZE - 1 -> 0..FILE]
  <2>1. s.data = [i \in 0..SIZE - 1 |->
                   IF (i - r.write) % SIZE < n
                   THEN bytes[((i - r.write) % SIZE) + 1] ELSE r.data[i]]
    BY DEF Added, RingType
  <2>2. ASSUME NEW i \in 0..SIZE - 1, (i - r.write) % SIZE < n
        PROVE  bytes[((i - r.write) % SIZE) + 1] \in 0..FILE
    <3>1. ((i - r.write) % SIZE) + 1 \in 1..Len(bytes)
      <4>1. PICK j : j = (i - r.write) % SIZE
        OBVIOUS
      <4>2. j \in 0..SIZE - 1 /\ j < n
        <5>1. j = IF i >= r.write THEN i - r.write ELSE i - r.write + SIZE
          BY <1>1, <4>1, Backwards, Zenon
        <5>2. j \in 0..SIZE - 1
          BY <1>1, <5>1
        <5> QED
          BY <2>2, <4>1, <5>2, Zenon
      <4>3. j + 1 \in 1..Len(bytes)
        BY <1>1, <1>2, <4>2
      <4> QED
        BY <4>1, <4>3
    <3> QED
      BY <3>1, ElementIn, Zenon
  <2> QED
    BY <2>1, <2>2 DEF RingType
<1>4. s.read = r.read /\ s.write = (r.write + n) % SIZE /\ s.nr = r.nr + n
  BY DEF Added, RingType
<1> HIDE DEF n
<1>5. n \in 0..SIZE /\ r.nr + n \in 0..SIZE
  BY <1>1, <1>2
<1>6. s \in RingType
  <2>1. (r.write + n) % SIZE \in 0..SIZE - 1
    BY <1>1, <1>5, Wrapped
  <2> QED
    BY <1>1, <1>3, <1>4, <1>5, <2>1 DEF Added, RingType
<1> QED
  BY <1>6

LEMMA AddedSound ==
  ASSUME NEW r, Sound(r), NEW bytes \in Seq(0..FILE)
  PROVE  Sound(Added(r, bytes))
<1> DEFINE n == Least(Len(bytes), SIZE - r.nr)
           s == Added(r, bytes)
<1>1. /\ SIZE \in Nat \ {0} /\ r.nr \in 0..SIZE
      /\ r.read \in 0..SIZE - 1 /\ r.write \in 0..SIZE - 1
  BY NumberAssumption DEF Sound, RingType
<1>2. n \in 0..SIZE - r.nr /\ n <= Len(bytes)
  BY <1>1 DEF Least
<1>4. s.read = r.read /\ s.write = (r.write + n) % SIZE /\ s.nr = r.nr + n
  BY DEF Added, Sound, RingType
<1> HIDE DEF n
<1>5. n \in 0..SIZE /\ r.nr + n \in 0..SIZE
  BY <1>1, <1>2
<1>6. s \in RingType
  BY AddedTyped DEF Sound
<1>7. s.write = At(s, s.nr)
  <2>1. r.write = Wrap(r.read + r.nr)
    BY <1>1, Wrapped DEF Sound, At
  <2>2. (r.write + n) % SIZE = Wrap(r.write + n)
    BY <1>1, <1>5, Wrapped
  <2>3. (r.read + (r.nr + n)) % SIZE = Wrap(r.read + (r.nr + n))
    BY <1>1, <1>5, Wrapped
  <2>4. Wrap(r.write + n) = Wrap(r.read + (r.nr + n))
    BY <1>1, <1>2, <2>1, WrapTwice
  <2> QED
    BY <1>4, <2>2, <2>3, <2>4 DEF At
<1> QED
  BY <1>6, <1>7 DEF Sound

\* Bytes removed from the end.
LEMMA RemovedSound ==
  ASSUME NEW r \in RingType, NEW n \in Nat
  PROVE  /\ Removed(r, n) \in RingType
         /\ Sound(r) => Sound(Removed(r, n))
<1>1. CASE r.nr < n
  BY <1>1 DEF Removed
<1>2. CASE ~(r.nr < n)
  <2> DEFINE s == Removed(r, n)
             w == IF r.write >= n THEN r.write - n ELSE SIZE - n + r.write
  <2>1. /\ SIZE \in Nat \ {0} /\ r.nr \in 0..SIZE /\ n \in 0..r.nr
        /\ r.read \in 0..SIZE - 1 /\ r.write \in 0..SIZE - 1
    BY <1>2, NumberAssumption DEF RingType
  <2>2. s.read = r.read /\ s.write = w /\ s.nr = r.nr - n /\ s.data = r.data
    BY <1>2 DEF Removed, RingType
  <2>3. w \in 0..SIZE - 1 /\ r.nr - n \in 0..SIZE
    BY <2>1
  <2>4. s \in RingType
    BY <1>2, <2>1, <2>2, <2>3 DEF Removed, RingType
  <2>5. ASSUME Sound(r)
        PROVE  Sound(s)
    <3>1. r.write = Wrap(r.read + r.nr)
      BY <2>1, <2>5, Wrapped DEF Sound, At
    <3>2. (r.read + (r.nr - n)) % SIZE = Wrap(r.read + (r.nr - n))
      BY <2>1, <2>3, Wrapped
    <3>3. w = Wrap(r.read + (r.nr - n))
      BY <2>1, <3>1 DEF Wrap
    <3> QED
      BY <2>2, <2>4, <3>2, <3>3 DEF Sound, At
  <2> QED
    BY <2>4, <2>5
<1> QED
  BY <1>1, <1>2

\* Bytes taken from the front.
LEMMA TakenSound ==
  ASSUME NEW r \in RingType, NEW n \in 0..r.nr
  PROVE  /\ Taken(r, n) \in RingType
         /\ Sound(r) => Sound(Taken(r, n))
<1> DEFINE s == Taken(r, n)
<1>1. /\ SIZE \in Nat \ {0} /\ r.nr \in 0..SIZE /\ n \in 0..SIZE
      /\ r.read \in 0..SIZE - 1 /\ r.write \in 0..SIZE - 1
  BY NumberAssumption DEF RingType
<1>2. s.read = At(r, n) /\ s.write = r.write /\ s.nr = r.nr - n /\ s.data = r.data
  BY DEF Taken, RingType
<1>3. At(r, n) = Wrap(r.read + n) /\ At(r, n) \in 0..SIZE - 1
  BY <1>1, Wrapped DEF At
<1>4. r.nr - n \in 0..SIZE
  BY <1>1
<1>5. s \in RingType
  BY <1>1, <1>3, <1>4 DEF Taken, RingType
<1>6. ASSUME Sound(r)
      PROVE  Sound(s)
  <2>1. r.write = Wrap(r.read + r.nr)
    BY <1>1, <1>6, Wrapped DEF Sound, At
  <2>2. (At(r, n) + (r.nr - n)) % SIZE = Wrap(At(r, n) + (r.nr - n))
    BY <1>3, <1>4, Wrapped
  <2>3. r.write = Wrap(At(r, n) + (r.nr - n))
    BY <1>1, <1>3, <2>1 DEF Wrap
  <2>4. At(s, s.nr) = (At(r, n) + (r.nr - n)) % SIZE
    BY <1>2 DEF At
  <2> QED
    BY <1>2, <1>5, <2>2, <2>3, <2>4 DEF Sound
<1> QED
  BY <1>5, <1>6

LEMMA RemainderBound ==
  ASSUME NEW x \in Nat, NEW d \in Nat \ {0}
  PROVE  x % d \in 0..x
<1>1. CASE x < d
  <2>1. x % d = x
    BY <1>1
  <2> QED
    BY <2>1
<1>2. CASE ~(x < d)
  <2>1. x % d \in 0..d - 1
    OBVIOUS
  <2> QED
    BY <1>2, <2>1
<1> QED
  BY <1>1, <1>2

LEMMA DifferenceBound ==
  ASSUME NEW x \in Nat, NEW rest \in 0..x
  PROVE  x - rest \in 0..x
OBVIOUS

\* The whole lines of a number of bytes are no more than the bytes.
LEMMA WholeLines ==
  ASSUME NEW x \in Nat, NEW d \in Nat \ {0}
  PROVE  x - (x % d) \in 0..x
<1> DEFINE rest == x % d
<1>1. rest \in 0..x
  BY RemainderBound
<1> HIDE DEF rest
<1>2. x - rest \in 0..x
  BY <1>1, DifferenceBound
<1> QED
  BY <1>2 DEF rest

\* What the application's handle does to a ring and the block's last bytes.
LEMMA ProgrammedTyped ==
  ASSUME NEW r \in RingType, app \in AppType, Programmed(r)
  PROVE  /\ ring' \in RingType /\ app' \in AppType
         /\ Sound(r) => Sound(ring')
<1>1. /\ SIZE \in Nat \ {0} /\ LINE \in Nat \ {0} /\ r.nr \in 0..SIZE
      /\ r.read \in 0..SIZE - 1 /\ r.data \in [0..SIZE - 1 -> 0..FILE]
  BY NumberAssumption DEF RingType
<1>a. r.nr \in Nat
  BY <1>1
<1> DEFINE n == r.nr - (r.nr % LINE)
<1>2. n \in 0..r.nr
  BY <1>1, <1>a, WholeLines
<1> DEFINE bytes == [k \in 1..n |-> r.data[At(r, k - 1)]]
<1>3. ring' \in RingType /\ (Sound(r) => Sound(ring'))
  BY <1>2, TakenSound DEF Programmed
<1> HIDE DEF n
<1>4. bytes \in Seq(0..FILE)
  <2>1. ASSUME NEW k \in 1..n
        PROVE  r.data[At(r, k - 1)] \in 0..FILE
    <3>1. k - 1 \in 0..SIZE
      BY <1>1, <1>2
    <3>2. At(r, k - 1) \in 0..SIZE - 1
      BY <1>1, <3>1, Wrapped DEF At
    <3> QED
      BY <1>1, <3>2
  <2>2. n \in Nat
    BY <1>1, <1>2
  <2> QED
    BY <2>1, <2>2, FunctionIsSequence
<1> HIDE DEF bytes
<1>5. app' \in AppType
  <2>1. CASE app.area = NONE
    BY <2>1 DEF Programmed
  <2>2. CASE app.area # NONE
    <3>1. app' = [app EXCEPT !.areas[app.area] = @ \o bytes]
      BY <2>2 DEF Programmed, bytes, n
    <3>2. app.area \in Modules /\ app.areas \in [Modules -> Seq(0..FILE)]
      BY <2>2 DEF AppType, Names
    <3>3. app.areas[app.area] \o bytes \in Seq(0..FILE)
      BY <1>4, <3>2
    <3> QED
      BY <3>1, <3>2, <3>3 DEF AppType
  <2> QED
    BY <2>1, <2>2
<1> QED
  BY <1>3, <1>5

LEMMA TrimmedSound ==
  ASSUME SlaveInv, NEW len \in Nat
  PROVE  Trimmed(len) \in RingType /\ (Sound(ring) => Sound(Trimmed(len)))
<1>1. CASE block.bytes > len
  <2>1. block.bytes - len \in Nat
    BY <1>1 DEF SlaveInv, BlockType
  <2> QED
    BY <1>1, <2>1, RemovedSound DEF Trimmed, SlaveInv
<1>2. CASE ~(block.bytes > len)
  BY <1>2 DEF Trimmed, SlaveInv
<1> QED
  BY <1>1, <1>2
-----------------------------------------------------------------------------
(* The answers.                                                            *)
LEMMA ReplyTyped ==
  ASSUME mail \in Seq(Answers), NEW m, NEW answer \in Answers, Reply(m, answer)
  PROVE  mail' \in Seq(Answers)
BY DEF Reply

LEMMA CancelledTyped ==
  ASSUME NEW x \in XloadType
  PROVE  Cancelled(x) \in XloadType
BY DEF Cancelled, XloadType, NoName, Names

LEMMA TerminationTyped ==
  ASSUME mail \in Seq(Answers), NEW m, NEW x \in XloadType, Termination(m, x)
  PROVE  xload' \in XloadType /\ mail' \in Seq(Answers)
BY CancelledTyped, ReplyTyped DEF Termination, Answers

LEMMA HandleFailsTyped ==
  ASSUME SlaveInv, NEW m, HandleFails(m)
  PROVE  xload' \in XloadType /\ mail' \in Seq(Answers)
BY CancelledTyped DEF HandleFails, SlaveInv, Answers
-----------------------------------------------------------------------------
(* The handlers: types, and indices that agree as they did before.         *)
LEMMA SameRing ==
  ASSUME SlaveInv, ring' = ring
  PROVE  ring' \in RingType /\ (Agree => Agree')
BY DEF SlaveInv, Agree, At

LEMMA SoundRing ==
  ASSUME ring' \in RingType, SlaveInv, Sound(ring) => Sound(ring')
  PROVE  Agree => Agree'
BY DEF SlaveInv, Agree, Sound, At

LEMMA RequestsKept ==
  ASSUME SlaveInv, NEW m \in Modules,
         \/ StartRequest1(m) \/ StartRequest2(m) \/ VersionRequestFails
         \/ InfoRequest \/ UploadStartRequest1 \/ UploadStartRequest2 \/ UploadEnds
  PROVE  SlaveInv' /\ ring' = ring
<1> USE DEF SlaveInv
<1>0. B \in Modules /\ Modules \subseteq Names /\ NoBlock \in BlockType
      /\ NoName \in Names \X Names
  BY DEF Modules, Names, NoBlock, BlockType, NoName
<1>1. CASE StartRequest1(m)
  BY <1>0, <1>1 DEF StartRequest1, XloadType
<1>2. CASE StartRequest2(m)
  <2> DEFINE asked == [progress |-> "IN_PROGRESS", name |-> <<xload.name[1], m>>,
                       module |-> m]
  <2>1. asked \in XloadType
    BY <1>0 DEF XloadType
  <2> HIDE DEF asked
  <2>2. xload' \in XloadType /\ mail' \in Seq(Answers)
    BY <1>2, <2>1, TerminationTyped DEF StartRequest2, asked
  <2>3. app' \in AppType
    BY <1>2 DEF StartRequest2, AppType
  <2> QED
    BY <1>2, <2>2, <2>3 DEF StartRequest2
<1>3. CASE VersionRequestFails
  BY <1>3, TerminationTyped DEF VersionRequestFails
<1>4. CASE InfoRequest
  <2> DEFINE asked == [xload EXCEPT !.name = NoName, !.module = B]
  <2>1. asked \in XloadType
    BY <1>0 DEF XloadType
  <2> HIDE DEF asked
  <2>2. xload' \in XloadType /\ mail' \in Seq(Answers)
    BY <1>4, <2>1, TerminationTyped DEF InfoRequest, asked
  <2> QED
    BY <1>4, <2>2 DEF InfoRequest
<1>5. CASE UploadStartRequest1
  BY <1>0, <1>5 DEF UploadStartRequest1, XloadType
<1>6. CASE UploadStartRequest2
  <2> DEFINE asked == [progress |-> "IN_PROGRESS", name |-> <<xload.name[1], B>>,
                       module |-> B]
  <2>1. asked \in XloadType
    BY <1>0 DEF XloadType
  <2> HIDE DEF asked
  <2>2. xload' \in XloadType /\ mail' \in Seq(Answers)
    BY <1>6, <2>1, TerminationTyped DEF UploadStartRequest2, asked
  <2>3. app' \in AppType
    BY <1>6 DEF UploadStartRequest2, AppType
  <2> QED
    BY <1>6, <2>2, <2>3 DEF UploadStartRequest2
<1>7. CASE UploadEnds
  BY <1>7 DEF UploadEnds, XloadType
<1> QED
  BY <1>1, <1>2, <1>3, <1>4, <1>5, <1>6, <1>7

LEMMA DataKept ==
  ASSUME SlaveInv, NEW m \in Modules, NEW bytes \in Seq(0..FILE), Data(m, bytes)
  PROVE  SlaveInv' /\ (Agree => Agree')
<1>1. ring' \in RingType /\ (Sound(ring) => Sound(ring'))
  BY AddedTyped, AddedSound DEF Data, SlaveInv
<1>2. xload' \in XloadType /\ mail' \in Seq(Answers)
  BY TerminationTyped DEF Data, SlaveInv
<1>3. block' \in BlockType
  <2>1. block' \in {block, [objs |-> block.objs + 1, bytes |-> block.bytes + FRAME]}
    BY DEF Data
  <2>2. FRAME \in Nat
    BY NumberAssumption
  <2> QED
    BY <2>1, <2>2 DEF SlaveInv, BlockType
<1> QED
  BY <1>1, <1>2, <1>3, SoundRing DEF Data, SlaveInv

LEMMA BlockEndKept ==
  ASSUME SlaveInv, NEW m \in Modules, NEW len \in Nat, NEW objs,
         BlockEnd(m, len, objs) \/ BlockEndFails(m, len, objs)
  PROVE  SlaveInv' /\ (Agree => Agree')
<1>1. CASE BlockEnd(m, len, objs) /\ objs = block.objs
  <2>1. ring' \in RingType /\ app' \in AppType /\ (Sound(ring) => Sound(ring'))
    BY <1>1, TrimmedSound, ProgrammedTyped DEF BlockEnd, SlaveInv
  <2>2. mail' \in Seq(Answers)
    BY <1>1, ReplyTyped DEF BlockEnd, SlaveInv, Answers
  <2>3. block' \in BlockType
    BY <1>1 DEF BlockEnd, NoBlock, BlockType
  <2> QED
    BY <1>1, <2>1, <2>2, <2>3, SoundRing DEF BlockEnd, SlaveInv
<1>2. CASE BlockEnd(m, len, objs) /\ objs # block.objs
  <2>1. xload' \in XloadType /\ mail' \in Seq(Answers)
    BY <1>2, TerminationTyped DEF BlockEnd, SlaveInv
  <2> QED
    BY <1>2, <2>1, SameRing DEF BlockEnd, SlaveInv
<1>3. CASE BlockEndFails(m, len, objs)
  <2>1. ring' \in RingType /\ (Sound(ring) => Sound(ring'))
    BY <1>3, TrimmedSound DEF BlockEndFails
  <2>2. xload' \in XloadType /\ mail' \in Seq(Answers)
    BY <1>3, HandleFailsTyped DEF BlockEndFails
  <2> QED
    BY <1>3, <2>1, <2>2, SoundRing DEF BlockEndFails, SlaveInv
<1> QED
  BY <1>1, <1>2, <1>3

LEMMA EmptyRingSound == Sound(EmptyRing)
<1>1. EmptyRing \in RingType
  BY NumberAssumption DEF EmptyRing, RingType
<1>2. (0 + 0) % SIZE = 0
  BY NumberAssumption
<1> QED
  BY <1>1, <1>2 DEF Sound, At, EmptyRing

LEMMA EndKept ==
  ASSUME IInv, NEW m \in Modules, End(m)
  PROVE  /\ SlaveInv' /\ booting' \in BOOLEAN
         /\ \/ UNCHANGED <<ring, start>>
            \/ ring' = EmptyRing /\ start' = NoStart
<1>1. CASE EndAckn(m) /\ UNCHANGED <<info, booting, start, app, block, ring>>
  <2>1. xload' \in XloadType /\ mail' \in Seq(Answers)
    BY <1>1, CancelledTyped, ReplyTyped DEF EndAckn, IInv, SlaveInv, Answers
  <2> QED
    BY <1>1, <2>1 DEF IInv, SlaveInv
<1>2. CASE HandleFails(m) /\ UNCHANGED <<info, booting, start, app, block, ring>>
  BY <1>2, HandleFailsTyped DEF IInv, SlaveInv
<1>3. CASE /\ info' = [mode |-> "ACKN", module |-> xload.module] /\ booting' = TRUE
           /\ xload' = NoXload /\ block' = NoBlock /\ ring' = EmptyRing
           /\ app' = [app EXCEPT !.asked = "no", !.area = NONE, !.uploading = "no"]
           /\ start' = NoStart
           /\ UNCHANGED <<mail, faults>>
  <2>1. ring' \in RingType
    BY <1>3, EmptyRingSound DEF Sound
  <2>2. xload' \in XloadType /\ block' \in BlockType /\ info' \in InfoType
    BY <1>3 DEF NoXload, NoBlock, NoName, XloadType, BlockType, InfoType, Names,
                IInv, SlaveInv
  <2>3. app' \in AppType
    BY <1>3 DEF AppType, Names, IInv, SlaveInv
  <2> QED
    BY <1>3, <2>1, <2>2, <2>3 DEF IInv, SlaveInv
<1> QED
  BY <1>1, <1>2, <1>3 DEF End
-----------------------------------------------------------------------------
(* The ring's indices through a reset.                                     *)
LEMMA RingStill ==
  ASSUME IInv, UNCHANGED <<ring, torn>>,
         start'.pc = start.pc \/ (~Resetting /\ ~Resetting')
  PROVE  torn' \in BOOLEAN /\ RingInv'
BY DEF IInv, RingInv, Resetting, Agree, At

\* A handler leaves them agreeing, or is noted when it meets a reset.
LEMMA RingHandled ==
  ASSUME IInv, Handled, start' = start, Agree => Agree'
  PROVE  torn' \in BOOLEAN /\ RingInv'
<1>1. CASE ~Resetting
  <2>1. torn' = torn
    BY <1>1 DEF Handled, IInv
  <2> QED
    BY <1>1, <2>1 DEF IInv, RingInv, Resetting
<1>2. CASE Resetting /\ ring' = ring
  <2>1. torn' = torn
    BY <1>2 DEF Handled, IInv
  <2> QED
    BY <1>2, <2>1 DEF IInv, RingInv, Resetting
<1>3. CASE Resetting /\ ring' # ring
  BY <1>3 DEF Handled, RingInv
<1> QED
  BY <1>1, <1>2, <1>3

LEMMA RingEmptied ==
  ASSUME IInv, Handled, ring' = EmptyRing, start' = NoStart
  PROVE  torn' \in BOOLEAN /\ RingInv' /\ start' \in StartType
<1>1. Agree'
  BY EmptyRingSound DEF Sound, Agree, At
<1>2. start' \in StartType
  BY DEF NoStart, StartType, Names
<1>3. torn' \in BOOLEAN
  BY DEF Handled, IInv
<1> QED
  BY <1>1, <1>2, <1>3 DEF RingInv, NoStart, Resetting
-----------------------------------------------------------------------------
(* The steps.                                                              *)
LEMMA BeginKept ==
  ASSUME IInv, StartBegin, UNCHANGED info
  PROVE  SlaveInv' /\ start' \in StartType /\ torn' \in BOOLEAN /\ RingInv'
<1>1. app' \in AppType /\ xload' \in XloadType
  BY DEF StartBegin, IInv, SlaveInv, AppType, XloadType
<1>2. start' \in StartType /\ ~Resetting /\ ~Resetting'
  BY DEF StartBegin, Goes, IInv, StartType, Resetting
<1> QED
  BY <1>1, <1>2, RingStill DEF StartBegin, IInv, SlaveInv

LEMMA HandleKept ==
  ASSUME IInv, StartHandle, UNCHANGED info
  PROVE  SlaveInv' /\ start' \in StartType /\ torn' \in BOOLEAN /\ RingInv'
<1>1. app' \in AppType
  <2>1. xload.module \in Modules /\ xload.module \in Names
    BY DEF StartHandle, IInv, SlaveInv, XloadType, Names
  <2>2. <<>> \in Seq(0..FILE)
    OBVIOUS
  <2> QED
    BY <2>1, <2>2 DEF StartHandle, AppType, IInv, SlaveInv
<1>2. start' \in StartType /\ ~Resetting /\ ~Resetting'
  BY DEF StartHandle, Goes, IInv, StartType, Resetting
<1> QED
  BY <1>1, <1>2, RingStill DEF StartHandle, IInv, SlaveInv

LEMMA ReturnsKept ==
  ASSUME IInv, StartReturns, UNCHANGED info
  PROVE  SlaveInv' /\ start' \in StartType /\ torn' \in BOOLEAN /\ RingInv'
<1>1. start' \in StartType /\ ~Resetting /\ ~Resetting'
  BY DEF StartReturns, IInv, SlaveInv, XloadType, StartType, Resetting
<1> QED
  BY <1>1, RingStill DEF StartReturns, IInv, SlaveInv

LEMMA AcknKept ==
  ASSUME IInv, StartAckn, UNCHANGED info
  PROVE  SlaveInv' /\ start' \in StartType /\ torn' \in BOOLEAN /\ RingInv'
<1>0. /\ 0 \in 0..SIZE - 1 /\ 0 \in 0..SIZE /\ 0 \in Nat /\ (0 + 0) % SIZE = 0
      /\ start \in StartType /\ ring \in RingType /\ block \in BlockType
      /\ torn \in BOOLEAN
  BY NumberAssumption DEF IInv, SlaveInv
<1>1. start' \in StartType
  BY <1>0 DEF StartAckn, Goes, StartType
<1>2. mail' \in Seq(Answers)
  BY ReplyTyped DEF StartAckn, IInv, SlaveInv, Answers
<1>3. block' \in BlockType
  BY <1>0 DEF StartAckn, BlockType
<1>4. ring' \in RingType /\ torn' \in BOOLEAN
  BY <1>0 DEF StartAckn, RingType
<1>5. RingInv'
  <2>1. CASE /\ start.pc \in {"objs", "bytes", "ackn"} /\ UNCHANGED <<ring, torn>>
             /\ start'.pc \in {"bytes", "read", "no"}
    BY <2>1, RingStill DEF Resetting
  <2>2. CASE Goes("read", "write") /\ ring' = [ring EXCEPT !.read = 0] /\ torn' = FALSE
    <3>1. start'.pc = "write" /\ ring'.read = 0
      BY <1>0, <2>2 DEF Goes, StartType, RingType
    <3> QED
      BY <3>1 DEF RingInv, Resetting
  <2>3. CASE Goes("write", "nr") /\ ring' = [ring EXCEPT !.write = 0] /\ UNCHANGED torn
    <3>1. /\ start.pc = "write" /\ start'.pc = "nr"
          /\ ring'.write = 0 /\ ring'.read = ring.read
      BY <1>0, <2>3 DEF Goes, StartType, RingType
    <3> QED
      BY <2>3, <3>1 DEF IInv, RingInv, Resetting
  <2>4. CASE Goes("nr", "ackn") /\ ring' = [ring EXCEPT !.nr = 0] /\ UNCHANGED torn
    <3>1. /\ start.pc = "nr" /\ start'.pc = "ackn"
          /\ ring'.nr = 0 /\ ring'.write = ring.write /\ ring'.read = ring.read
      BY <1>0, <2>4 DEF Goes, StartType, RingType
    <3> QED
      BY <1>0, <2>4, <3>1 DEF IInv, RingInv, Agree, At
  <2> QED
    BY <1>0, <2>1, <2>2, <2>3, <2>4 DEF StartAckn, Goes, StartType
<1> QED
  BY <1>1, <1>2, <1>3, <1>4, <1>5 DEF StartAckn, IInv, SlaveInv

LEMMA FailsKept ==
  ASSUME IInv, StartFails, UNCHANGED info
  PROVE  SlaveInv' /\ start' \in StartType /\ torn' \in BOOLEAN /\ RingInv'
<1>1. start' \in StartType /\ ~Resetting /\ ~Resetting'
  BY DEF StartFails, Goes, IInv, StartType, Resetting
<1>2. xload' \in XloadType
  BY DEF StartFails, IInv, SlaveInv, XloadType, NoName, Names
<1>3. mail' \in Seq(Answers)
  BY ReplyTyped DEF StartFails, IInv, SlaveInv, Answers
<1> QED
  BY <1>1, <1>2, <1>3, RingStill DEF StartFails, IInv, SlaveInv

LEMMA UploadKept ==
  ASSUME IInv, Upload
  PROVE  SlaveInv'
<1>1. app' \in AppType
  BY DEF Upload, UploadBegin, UploadFill, UploadSend, UploadBlockEnd, IInv, SlaveInv, AppType
<1>2. block' \in BlockType
  <2>1. UPLOAD \in Nat /\ FRAME \in Nat /\ block \in BlockType
    BY NumberAssumption DEF IInv, SlaveInv
  <2>2. Least(block.bytes + FRAME, UPLOAD) \in Nat
    BY <2>1 DEF Least, BlockType
  <2> QED
    BY <2>1, <2>2 DEF Upload, UploadBegin, UploadFill, UploadSend, UploadBlockEnd, BlockType
<1> QED
  BY <1>1, <1>2 DEF Upload, TaskOnly, IInv, SlaveInv

LEMMA BootKept ==
  ASSUME IInv, Boot
  PROVE  SlaveInv' /\ booting' \in BOOLEAN
<1>0. xload' \in XloadType
  BY CancelledTyped DEF Boot, IInv, SlaveInv, InfoType, XloadType
<1>1. mail' \in Seq(Answers)
  <2>1. "END_ACKN" \in Answers /\ mail \in Seq(Answers)
    BY DEF Answers, IInv, SlaveInv
  <2>2. Reply(info.module, "END_ACKN") \/ mail' = Append(mail, "END_ACKN") \/ mail' = mail
    BY Zenon DEF Boot
  <2> QED
    BY <2>1, <2>2, ReplyTyped
<1>2. info' \in InfoType
  BY DEF Boot, IInv, SlaveInv, InfoType
<1>3. booting' \in BOOLEAN
  BY Zenon DEF Boot, IInv
<1> QED
  BY <1>0, <1>1, <1>2, <1>3 DEF Boot, IInv, SlaveInv

LEMMA TaskKept ==
  ASSUME IInv, Task
  PROVE  IInv'
<1>1. CASE Start
  <2>1. SlaveInv' /\ start' \in StartType /\ torn' \in BOOLEAN /\ RingInv'
    BY <1>1, BeginKept, HandleKept, ReturnsKept, AcknKept, FailsKept
       DEF Start, TaskOnly
  <2> QED
    BY <1>1, <2>1 DEF Start, TaskOnly, IInv
<1>2. CASE Upload
  <2>1. SlaveInv'
    BY <1>2, UploadKept
  <2>2. torn' \in BOOLEAN /\ RingInv'
    BY <1>2, RingStill DEF Upload
  <2> QED
    BY <1>2, <2>1, <2>2 DEF Upload, TaskOnly, IInv
<1>3. CASE Boot
  <2>1. SlaveInv' /\ booting' \in BOOLEAN
    BY <1>3, BootKept
  <2>2. torn' \in BOOLEAN /\ RingInv'
    BY <1>3, RingStill DEF Boot
  <2> QED
    BY <1>3, <2>1, <2>2 DEF Boot, IInv
<1> QED
  BY <1>1, <1>2, <1>3 DEF Task

LEMMA DisturbKept ==
  ASSUME IInv, Disturb
  PROVE  IInv'
<1>0. B \in Modules /\ SlaveInv
  BY DEF Modules, IInv
<1>1. CASE End(B)
  <2>1. /\ SlaveInv' /\ booting' \in BOOLEAN
        /\ \/ UNCHANGED <<ring, start>>
           \/ ring' = EmptyRing /\ start' = NoStart
    BY <1>0, <1>1, EndKept
  <2>2. torn' \in BOOLEAN /\ RingInv' /\ start' \in StartType
    BY <2>1, RingHandled, RingEmptied DEF Disturb, IInv, Agree, At
  <2> QED
    BY <2>1, <2>2 DEF Disturb, IInv
<1>2. CASE ~End(B)
  <2>1. SlaveInv' /\ (Agree => Agree')
    <3>1. CASE BlockOfB
      <4>1. CASE Data(B, [k \in 1..FRAME |-> 0])
        <5>1. FRAME \in Nat /\ 0 \in 0..FILE
          BY NumberAssumption
        <5>2. [k \in 1..FRAME |-> 0] \in Seq(0..FILE)
          BY <5>1, FunctionIsSequence
        <5> QED
          BY <1>0, <4>1, <5>2, DataKept
      <4>2. CASE \E len \in 1..MAX : \/ BlockEnd(B, len, FramesOf(len))
                                     \/ BlockEndFails(B, len, FramesOf(len))
        <5>1. PICK len \in 1..MAX : \/ BlockEnd(B, len, FramesOf(len))
                                    \/ BlockEndFails(B, len, FramesOf(len))
          BY <4>2
        <5>2. len \in Nat
          BY NumberAssumption
        <5> QED
          BY <1>0, <5>1, <5>2, BlockEndKept
      <4> QED
        BY <3>1, <4>1, <4>2 DEF BlockOfB
    <3>2. CASE ~BlockOfB
      <4>1. SlaveInv' /\ ring' = ring
        BY <1>0, <1>2, <3>2, RequestsKept DEF Disturb, FirstOfB, SecondOfB
      <4> QED
        BY <1>0, <4>1, SameRing
    <3> QED
      BY <3>1, <3>2
  <2>2. UNCHANGED <<booting, start, host>> /\ Handled
    BY <1>2 DEF Disturb, FirstOfB, SecondOfB, Running
  <2>3. torn' \in BOOLEAN /\ RingInv'
    BY <2>1, <2>2, RingHandled
  <2> QED
    BY <2>1, <2>2, <2>3 DEF IInv
<1> QED
  BY <1>1, <1>2

\* What the master sends of the file.
LEMMA ObjectTyped ==
  ASSUME host \in HostType
  PROVE  BlockLen \in Nat /\ host.pos + BlockLen \in 0..FILE /\ Object \in Seq(0..FILE)
<1>1. BlockLen \in Nat /\ host.pos + BlockLen \in 0..FILE
  BY NumberAssumption DEF HostType, BlockLen, Least
<1>2. Object \in [1..FRAME -> 0..FILE]
  <2>1. ASSUME NEW k \in 1..FRAME
        PROVE  (LET i == host.sent * FRAME + k
                IN IF i <= BlockLen THEN host.pos + i ELSE 0) \in 0..FILE
    <3> DEFINE i == host.sent * FRAME + k
    <3>1. host.sent * FRAME \in Nat
      BY NumberAssumption DEF HostType
    <3>2. i \in Nat /\ host.pos \in Nat /\ FILE \in Nat
      BY <3>1, NumberAssumption DEF HostType
    <3> HIDE DEF i
    <3>3. (IF i <= BlockLen THEN host.pos + i ELSE 0) \in 0..FILE
      BY <1>1, <3>2
    <3> QED
      BY <3>3 DEF i
  <2> QED
    BY <2>1 DEF Object
<1>3. FRAME \in Nat
  BY NumberAssumption
<1> QED
  BY <1>1, <1>2, <1>3, FunctionIsSequence

LEMMA SendsTyped ==
  ASSUME IInv,
         NEW pc \in {"request1", "request2", "start", "data", "block", "end", "ended", "done"},
         NEW sent \in Nat, Sends(pc, sent)
  PROVE  host' \in HostType
BY DEF Sends, HostType, IInv

LEMMA SendKept ==
  ASSUME IInv, Handled,
         SendRequest1 \/ SendRequest2 \/ SendData \/ SendBlockEnd \/ SendEnd
  PROVE  IInv'
<1>0. A \in Modules /\ SlaveInv
  BY DEF Modules, IInv
<1>1. host.sent \in Nat /\ BlockLen \in Nat /\ Object \in Seq(0..FILE)
  BY ObjectTyped DEF IInv, HostType
<1>2. host' \in HostType
  <2>1. host.sent + 1 \in Nat /\ 0 \in Nat
    BY <1>1
  <2> QED
    BY <1>1, <2>1, SendsTyped DEF SendRequest1, SendRequest2, SendData, SendBlockEnd, SendEnd
<1>3. CASE NotDelivered
  <2>1. SlaveInv' /\ UNCHANGED <<booting, start, ring>>
    BY <1>0, <1>3 DEF NotDelivered, Running, slave, SlaveInv
  <2>2. torn' \in BOOLEAN /\ RingInv'
    BY <1>0, <2>1, SameRing, RingHandled
  <2> QED
    BY <1>2, <2>1, <2>2 DEF IInv
<1>4. CASE SendEnd /\ ~NotDelivered
  <2>1. /\ SlaveInv' /\ booting' \in BOOLEAN
        /\ \/ UNCHANGED <<ring, start>>
           \/ ring' = EmptyRing /\ start' = NoStart
    BY <1>0, <1>4, EndKept DEF SendEnd
  <2>2. torn' \in BOOLEAN /\ RingInv' /\ start' \in StartType
    BY <1>0, <2>1, SameRing, RingHandled, RingEmptied DEF IInv
  <2> QED
    BY <1>2, <2>1, <2>2 DEF IInv
<1>5. CASE ~SendEnd /\ ~NotDelivered
  <2>1. Running
    BY <1>5 DEF SendRequest1, SendRequest2, SendData, SendBlockEnd
  <2>2. SlaveInv' /\ (Agree => Agree')
    <3>1. CASE SendRequest1 \/ SendRequest2
      <4>1. SlaveInv' /\ ring' = ring
        BY <1>0, <1>5, <3>1, RequestsKept DEF SendRequest1, SendRequest2
      <4> QED
        BY <1>0, <4>1, SameRing
    <3>2. CASE SendData
      BY <1>0, <1>1, <1>5, <3>2, DataKept DEF SendData
    <3>3. CASE SendBlockEnd
      BY <1>0, <1>1, <1>5, <3>3, BlockEndKept DEF SendBlockEnd
    <3> QED
      BY <1>5, <3>1, <3>2, <3>3
  <2>3. torn' \in BOOLEAN /\ RingInv'
    BY <2>1, <2>2, RingHandled DEF Running
  <2> QED
    BY <1>2, <2>1, <2>2, <2>3 DEF Running, IInv
<1> QED
  BY <1>3, <1>4, <1>5

LEMMA MasterKept ==
  ASSUME IInv, Master
  PROVE  IInv'
<1>1. CASE ReadAnswer
  <2>1. mail' \in Seq(Answers)
    BY <1>1 DEF ReadAnswer, IInv, SlaveInv
  <2>2. host' \in HostType
    <3>1. host.pos + BlockLen \in 0..FILE /\ 0 \in 0..FILE
      BY ObjectTyped, NumberAssumption DEF IInv
    <3>2. \/ host' = [pc |-> "request1", pos |-> 0, sent |-> 0]
          \/ host' = [pc |-> "data", pos |-> 0, sent |-> 0]
          \/ host' = [pc |-> IF host.pos + BlockLen = FILE THEN "end" ELSE "data",
                      pos |-> host.pos + BlockLen, sent |-> 0]
          \/ host' = [host EXCEPT !.pc = "done"]
          \/ host' = host
      BY <1>1, Zenon DEF ReadAnswer
    <3> QED
      BY <3>1, <3>2 DEF IInv, HostType
  <2>3. SlaveInv'
    BY <1>1, <2>1 DEF ReadAnswer, slave, IInv, SlaveInv
  <2>4. torn' \in BOOLEAN /\ RingInv'
    BY <1>1, RingStill DEF ReadAnswer, slave
  <2> QED
    BY <1>1, <2>2, <2>3, <2>4 DEF ReadAnswer, IInv
<1>2. CASE Timeout
  <2>1. host' \in HostType
    BY <1>2, NumberAssumption DEF Timeout, HostType
  <2>2. SlaveInv'
    BY <1>2 DEF Timeout, slave, IInv, SlaveInv
  <2>3. torn' \in BOOLEAN /\ RingInv'
    BY <1>2, RingStill DEF Timeout, slave
  <2> QED
    BY <1>2, <2>1, <2>2, <2>3 DEF Timeout, IInv
<1> QED
  BY <1>1, <1>2, SendKept DEF Master
-----------------------------------------------------------------------------
LEMMA Initially ==
  ASSUME Init
  PROVE  IInv
<1>1. ring \in RingType /\ Agree
  BY EmptyRingSound DEF Init, Sound, Agree, At
<1>2. xload \in XloadType /\ block \in BlockType
  BY DEF Init, NoXload, NoName, NoBlock, XloadType, BlockType, Names
<1>3. app \in AppType
  BY DEF Init, AppType, Names
<1>4. info \in InfoType /\ mail \in Seq(Answers)
  BY DEF Init, InfoType, Names
<1>5. booting \in BOOLEAN /\ torn \in BOOLEAN /\ start \in StartType /\ start.pc = "no"
  BY DEF Init, NoStart, StartType, Names
<1>6. host \in HostType
  BY NumberAssumption DEF Init, HostType
<1> QED
  BY <1>1, <1>2, <1>3, <1>4, <1>5, <1>6 DEF IInv, SlaveInv, RingInv

LEMMA StepKept ==
  ASSUME IInv, [Next]_vars
  PROVE  IInv'
<1>1. CASE Next
  BY <1>1, TaskKept, DisturbKept, MasterKept DEF Next
<1>2. CASE UNCHANGED vars
  <2>1. torn' \in BOOLEAN /\ RingInv'
    BY <1>2, RingStill DEF vars, slave
  <2> QED
    BY <1>2, <2>1 DEF vars, slave, IInv, SlaveInv
<1> QED
  BY <1>1, <1>2

LEMMA Invariance == Spec => []IInv
<1>1. Init => IInv
  BY Initially
<1>2. IInv /\ [Next]_vars => IInv'
  BY StepKept
<1> QED
  BY <1>1, <1>2, PTL DEF Spec

\* The types of the transfer's state, whatever sizes the ring, an object, a
\* block, a line and the file have.
THEOREM TypeCorrect == Spec => []TypeOK
<1>1. IInv => TypeOK
  BY DEF IInv, SlaveInv, TypeOK
<1> QED
  BY <1>1, Invariance, PTL

\* The ring's indices lie as far apart as the ring holds bytes, whatever the
\* masters send and whatever is lost, refused or aborted, but for a start whose
\* reset of the ring a handler came into.
THEOREM IndicesKept == Spec => []IndicesAgree
<1>1. IInv => IndicesAgree
  BY DEF IInv, RingInv, Agree, IndicesAgree
<1> QED
  BY <1>1, Invariance, PTL
-----------------------------------------------------------------------------
(***************************************************************************)
(* Positions of the file.  Of p bytes Lines(p) fill whole lines and Rest(p) *)
(* are left in the ring.                                                   *)
(***************************************************************************)
Rest(p)  == p % LINE
Lines(p) == p - Rest(p)

\* The first bytes of the ring are the file's behind a position of it; from
\* the n-th on they only fill.
Follows(r, from, n) ==
  \A k \in 0..r.nr - 1 : k < n => r.data[At(r, k)] = from + k + 1

LEMMA Division ==
  ASSUME NEW x \in Nat, NEW d \in Nat \ {0},
         NEW q, q = x \div d, NEW r, r = x % d
  PROVE  x = d * q + r
OBVIOUS

LEMMA Quotient ==
  ASSUME NEW x \in Nat, NEW d \in Nat \ {0}, NEW r, r = x % d
  PROVE  \E q \in Nat : x = d * q + r
<1>1. PICK q \in Nat : q = x \div d
  OBVIOUS
<1>2. x = d * q + r
  BY <1>1, Division
<1> QED
  BY <1>2, Zenon

LEMMA Remainder ==
  ASSUME NEW d \in Nat \ {0}, NEW q \in Nat, NEW r \in 0..d - 1
  PROVE  (d * q + r) % d = r
OBVIOUS

LEMMA RestFacts ==
  ASSUME NEW p \in Nat
  PROVE  /\ Rest(p) \in 0..LINE - 1 /\ Rest(p) <= p
         /\ Lines(p) \in 0..p /\ p = Lines(p) + Rest(p)
         /\ Rest(p) \in Nat /\ Lines(p) \in Nat
<1>1. p % LINE \in 0..p
  BY NumberAssumption, RemainderBound
<1>2. p % LINE \in 0..LINE - 1
  BY NumberAssumption
<1> DEFINE r == p % LINE
<1>3. r \in 0..p /\ r \in 0..LINE - 1
  BY <1>1, <1>2
<1> HIDE DEF r
<1>4. p - r \in 0..p /\ p = (p - r) + r /\ r <= p
  BY <1>3
<1> QED
  BY <1>3, <1>4 DEF r, Rest, Lines

LEMMA LinesOf ==
  ASSUME NEW p \in Nat
  PROVE  \E q \in Nat : p = LINE * q + Rest(p)
<1>1. LINE \in Nat \ {0}
  BY NumberAssumption
<1>2. PICK r : r = p % LINE
  OBVIOUS
<1>3. PICK q \in Nat : p = LINE * q + r
  BY <1>1, <1>2, Quotient, Zenon
<1>4. r = Rest(p)
  BY <1>2, Zenon DEF Rest
<1> QED
  BY <1>3, <1>4, Zenon

\* The bytes left of the ones before and new ones are left of them all.
LEMMA RestAdds ==
  ASSUME NEW p \in Nat, NEW n \in Nat
  PROVE  /\ Rest(Rest(p) + n) = Rest(p + n)
         /\ Lines(p) + Lines(Rest(p) + n) = Lines(p + n)
<1>1. LINE \in Nat \ {0}
  BY NumberAssumption
<1>2. PICK q \in Nat : p = LINE * q + Rest(p)
  BY LinesOf, Zenon
<1>3. Rest(p) \in Nat /\ p = Lines(p) + Rest(p) /\ Lines(p) \in Nat
  BY RestFacts
<1>4. PICK y \in Nat : y = Rest(p) + n
  BY <1>3
<1>5. Rest(y) \in 0..LINE - 1 /\ y = Lines(y) + Rest(y) /\ Lines(y) \in Nat
  BY RestFacts
<1>6. PICK t \in Nat : y = LINE * t + Rest(y)
  BY LinesOf, Zenon
<1>7. p + n = LINE * (q + t) + Rest(y)
  <2>1. LINE * (q + t) = LINE * q + LINE * t
    BY <1>1
  <2>2. PICK a \in Nat, b \in Nat, c \in Nat :
          a = LINE * q /\ b = LINE * t /\ c = LINE * (q + t)
    BY <1>1
  <2>3. p = a + Rest(p) /\ y = b + Rest(y) /\ c = a + b
    BY <1>2, <1>6, <2>1, <2>2, Zenon
  <2>4. p + n = c + Rest(y)
    BY <1>3, <1>4, <1>5, <2>3
  <2> QED
    BY <2>2, <2>4, Zenon
<1>8. (LINE * (q + t) + Rest(y)) % LINE = Rest(y)
  <2>1. q + t \in Nat
    OBVIOUS
  <2> QED
    BY <1>1, <1>5, <2>1, Remainder
<1>9. Rest(p + n) = Rest(y)
  BY <1>7, <1>8 DEF Rest
<1>10. p + n \in Nat /\ p + n = Lines(p + n) + Rest(p + n) /\ Lines(p + n) \in Nat
  BY RestFacts, p + n \in Nat
<1>11. Lines(p) + Lines(y) = Lines(p + n)
  BY <1>3, <1>4, <1>5, <1>9, <1>10
<1> QED
  BY <1>4, <1>9, <1>11

LEMMA RestEnds == Rest(0) = 0 /\ Lines(0) = 0 /\ Rest(FILE) = 0 /\ Lines(FILE) = FILE
<1>1. 0 % LINE = 0
  BY NumberAssumption
<1>2. FILE \in Nat
  BY NumberAssumption
<1> QED
  BY <1>1, <1>2, FileAssumption DEF Rest, Lines

\* A block's objects hold its bytes, and a shorter one has no more objects.
LEMMA ObjectsSuffice ==
  ASSUME NEW n \in Nat
  PROVE  FramesOf(n) \in Nat /\ n <= FramesOf(n) * FRAME
BY NumberAssumption DEF FramesOf

LEMMA FewerObjects ==
  ASSUME NEW n \in Nat, NEW m \in Nat, m <= n
  PROVE  FramesOf(m) <= FramesOf(n)
BY NumberAssumption DEF FramesOf
-----------------------------------------------------------------------------
(* The bytes of the ring.                                                  *)
\* How far the place of a byte lies behind the one that is written next.
LEMMA BackToRead ==
  ASSUME NEW read \in 0..SIZE - 1, NEW nr \in 0..SIZE, NEW w, w = Wrap(read + nr),
         NEW k \in 0..nr - 1
  PROVE  (IF Wrap(read + k) >= w THEN Wrap(read + k) - w ELSE Wrap(read + k) - w + SIZE)
         = SIZE - (nr - k)
BY NumberAssumption DEF Wrap

LEMMA BackToWrite ==
  ASSUME NEW read \in 0..SIZE - 1, NEW nr \in 0..SIZE, NEW w, w = Wrap(read + nr),
         NEW j \in 0..SIZE - nr - 1
  PROVE  (IF Wrap(read + (nr + j)) >= w THEN Wrap(read + (nr + j)) - w
          ELSE Wrap(read + (nr + j)) - w + SIZE) = j
BY NumberAssumption DEF Wrap

\* An object that fits stands behind the bytes that were there.
LEMMA AddedBytes ==
  ASSUME NEW r, Sound(r), NEW bytes \in Seq(0..FILE), r.nr + Len(bytes) <= SIZE
  PROVE  /\ Added(r, bytes).nr = r.nr + Len(bytes)
         /\ \A k \in 0..r.nr - 1 :
              Added(r, bytes).data[At(Added(r, bytes), k)] = r.data[At(r, k)]
         /\ \A j \in 0..Len(bytes) - 1 :
              Added(r, bytes).data[At(Added(r, bytes), r.nr + j)] = bytes[j + 1]
<1> DEFINE s == Added(r, bytes)
           n == Len(bytes)
<1>1. /\ SIZE \in Nat \ {0} /\ r.nr \in 0..SIZE /\ n \in Nat
      /\ r.read \in 0..SIZE - 1 /\ r.write \in 0..SIZE - 1
  BY NumberAssumption DEF Sound, RingType
<1>a. r.nr + n <= SIZE
  OBVIOUS
<1>2. Least(n, SIZE - r.nr) = n
  BY <1>1 DEF Least
<1>3. s.read = r.read /\ s.nr = r.nr + n
  BY <1>2 DEF Added
<1>4. ASSUME NEW i \in 0..SIZE - 1
      PROVE  s.data[i] = IF (i - r.write) % SIZE < n
                         THEN bytes[((i - r.write) % SIZE) + 1] ELSE r.data[i]
  BY <1>2 DEF Added
<1> HIDE DEF s, n
<1>5. r.write = Wrap(r.read + r.nr)
  BY <1>1, Wrapped DEF Sound, At
<1>6. ASSUME NEW k \in 0..SIZE
      PROVE  At(s, k) = Wrap(r.read + k) /\ At(r, k) = Wrap(r.read + k)
             /\ Wrap(r.read + k) \in 0..SIZE - 1
  BY <1>1, <1>3, Wrapped DEF At
<1>7. ASSUME NEW k \in 0..r.nr - 1
      PROVE  s.data[At(s, k)] = r.data[At(r, k)]
  <2> DEFINE i == Wrap(r.read + k)
  <2>1. k \in 0..SIZE
    BY <1>1
  <2>2. i \in 0..SIZE - 1 /\ At(s, k) = i /\ At(r, k) = i
    BY <1>6, <2>1
  <2>3. (i - r.write) % SIZE = IF i >= r.write THEN i - r.write ELSE i - r.write + SIZE
    BY <1>1, <2>2, Backwards
  <2>4. (IF i >= r.write THEN i - r.write ELSE i - r.write + SIZE) = SIZE - (r.nr - k)
    BY <1>1, <1>5, BackToRead, SMTT(30)
  <2>5. ~ (SIZE - (r.nr - k) < n)
    BY <1>1, <1>a
  <2> HIDE DEF i
  <2> QED
    BY <1>4, <2>2, <2>3, <2>4, <2>5
<1>8. ASSUME NEW j \in 0..n - 1
      PROVE  s.data[At(s, r.nr + j)] = bytes[j + 1]
  <2> DEFINE i == Wrap(r.read + (r.nr + j))
  <2>0. j \in 0..SIZE - r.nr - 1 /\ r.nr \in Nat /\ SIZE \in Nat
    BY <1>1, <1>a
  <2>1. r.nr + j \in 0..SIZE /\ r.nr + j < SIZE
    BY <2>0
  <2>2. i \in 0..SIZE - 1 /\ At(s, r.nr + j) = i
    BY <1>6, <2>1
  <2>3. (i - r.write) % SIZE = IF i >= r.write THEN i - r.write ELSE i - r.write + SIZE
    BY <1>1, <2>2, Backwards
  <2>4. (IF i >= r.write THEN i - r.write ELSE i - r.write + SIZE) = j
    BY <1>1, <1>5, <2>0, <2>1, BackToWrite, SMTT(30)
  <2> HIDE DEF i
  <2>5. s.data[i] = IF j < n THEN bytes[j + 1] ELSE r.data[i]
    BY <1>4, <2>2, <2>3, <2>4
  <2> QED
    BY <1>1, <2>2, <2>5
<1> QED
  BY <1>3, <1>7, <1>8 DEF s, n

LEMMA TakenBytes ==
  ASSUME NEW r, Sound(r), NEW n \in 0..r.nr, NEW k \in 0..(r.nr - n) - 1
  PROVE  Taken(r, n).data[At(Taken(r, n), k)] = r.data[At(r, n + k)]
<1>1. /\ SIZE \in Nat \ {0} /\ r.nr \in 0..SIZE /\ n \in 0..SIZE
      /\ r.read \in 0..SIZE - 1
  BY NumberAssumption DEF Sound, RingType
<1>2. k \in 0..SIZE /\ n + k \in 0..SIZE /\ n + k < SIZE
  BY <1>1
<1>3. At(r, n) = Wrap(r.read + n) /\ At(r, n) \in 0..SIZE - 1
  BY <1>1, Wrapped DEF At
<1>4. At(r, n + k) = Wrap(r.read + (n + k))
  BY <1>1, <1>2, Wrapped DEF At
<1>5. (At(r, n) + k) % SIZE = Wrap(At(r, n) + k)
  BY <1>2, <1>3, Wrapped
<1>6. Wrap(At(r, n) + k) = Wrap(r.read + (n + k))
  BY <1>1, <1>2, <1>3 DEF Wrap
<1>7. Taken(r, n).read = At(r, n) /\ Taken(r, n).data = r.data
  BY DEF Taken
<1>8. At(Taken(r, n), k) = At(r, n + k)
  <2>1. At(Taken(r, n), k) = (At(r, n) + k) % SIZE
    BY <1>7 DEF At
  <2> QED
    BY <1>4, <1>5, <1>6, <2>1
<1> QED
  BY <1>7, <1>8
-----------------------------------------------------------------------------
(* The first m bytes of the file.                                          *)
FirstBytes(m) == [i \in 1..m |-> i]

LEMMA FirstOfFile ==
  ASSUME NEW m \in 0..FILE
  PROVE  FirstBytes(m) = SubSeq(File, 1, m)
<1>1. FILE \in Nat /\ m \in Nat
  BY NumberAssumption
<1> DEFINE f == [i \in 1..m |-> i]
           s == SubSeq(File, 1, m)
<1>2. File \in Seq(Nat) /\ Len(File) = FILE
  BY <1>1 DEF File
<1>3. s \in Seq(Nat) /\ Len(s) = m /\ \A i \in 1..m : s[i] = File[i]
  BY <1>1, <1>2
<1>4. f \in Seq(Nat) /\ Len(f) = m
  BY <1>1
<1>5. ASSUME NEW i \in 1..m
      PROVE  f[i] = s[i]
  BY <1>1, <1>3 DEF File
<1> HIDE DEF f, s
<1>6. f = s
  <2>1. Len(f) = Len(s) /\ \A i \in 1..Len(f) : f[i] = s[i]
    BY <1>3, <1>4, <1>5
  <2> QED
    BY <1>3, <1>4, <2>1, SeqEqual, Zenon
<1> QED
  BY <1>6 DEF f, s, FirstBytes

\* Lines are programmed behind the ones before them.
LEMMA LinesJoin ==
  ASSUME NEW m \in Nat, NEW n \in Nat
  PROVE  FirstBytes(m) \o [k \in 1..n |-> m + k] = FirstBytes(m + n)
<1> DEFINE f == FirstBytes(m)
           g == [k \in 1..n |-> m + k]
           h == FirstBytes(m + n)
<1>1. f \in Seq(Nat) /\ Len(f) = m /\ \A i \in 1..m : f[i] = i
  BY DEF FirstBytes
<1>2. g \in Seq(Nat) /\ Len(g) = n /\ \A i \in 1..n : g[i] = m + i
  OBVIOUS
<1>3. h \in Seq(Nat) /\ Len(h) = m + n /\ \A i \in 1..m + n : h[i] = i
  BY DEF FirstBytes
<1> HIDE DEF f, g, h
<1>4. f \o g \in Seq(Nat) /\ Len(f \o g) = m + n
  BY <1>1, <1>2
<1>5. ASSUME NEW i \in 1..m + n
      PROVE  (f \o g)[i] = h[i]
  <2>1. CASE i \in 1..m
    BY <1>1, <1>2, <1>3, <2>1
  <2>2. CASE i \notin 1..m
    <3>1. i - m \in 1..n /\ m + (i - m) = i
      BY <2>2
    <3> QED
      BY <1>1, <1>2, <1>3, <2>2, <3>1
  <2> QED
    BY <2>1, <2>2
<1>6. f \o g = h
  <2>1. Len(f \o g) = Len(h) /\ \A i \in 1..Len(f \o g) : (f \o g)[i] = h[i]
    BY <1>3, <1>4, <1>5
  <2> QED
    BY <1>3, <1>4, <2>1, SeqEqual, Zenon
<1> QED
  BY <1>6 DEF f, g, h
-----------------------------------------------------------------------------
(***************************************************************************)
(* The inductive invariant: which answers may be on their way to A's       *)
(* master at each of its places, and what the slave holds then, as long as *)
(* no message of B was handled since the master began with a slave at      *)
(* rest.  It needs the statements of a start one by one: what of the block *)
(* and of the ring each has reset, and that no handler came in between.    *)
(***************************************************************************)
Asked == app.asked = "download"

\* The task has nothing to do, but perhaps to leave a start that failed.
Free ==
  app.asked = "no" /\ app.uploading = "no" /\ start.pc \in {"no", "idle"}

\* No start is under way, and the last reset of the ring was undisturbed.
Quiet ==
  app.asked = "no" /\ app.uploading = "no" /\ start.pc = "no" /\ ~torn

\* The slave waits for the block behind the first p bytes.
Stocked(p) ==
  /\ Quiet /\ app.area = A /\ block = NoBlock
  /\ app.areas[A] = FirstBytes(Lines(p))
  /\ ring.nr = Rest(p) /\ Follows(ring, Lines(p), ring.nr)

\* The slave got some of the block's objects: when it is all that were sent,
\* the ring holds what they carried.
InStep ==
  /\ Quiet /\ app.area = A
  /\ app.areas[A] = FirstBytes(Lines(host.pos))
  /\ block.objs <= host.sent
  /\ block.objs = host.sent =>
       /\ block.bytes = host.sent * FRAME
       /\ ring.nr = Rest(host.pos) + host.sent * FRAME
       /\ Follows(ring, Lines(host.pos), Rest(host.pos) + BlockLen)

\* The ring holds no more than what the last block left and the objects sent.
Roomy ==
  /\ host.sent <= FramesOf(BlockLen)
  /\ ring.nr <= Rest(host.pos) + host.sent * FRAME

\* What the statements of a start have done by now.
Prepared ==
  /\ start.pc = "handle" => xload.module = A
  /\ start.pc \in {"returned", "objs", "bytes", "read", "write", "nr", "ackn"} =>
       app.area = A /\ app.areas[A] = <<>>
  /\ start.pc \in {"bytes", "read", "write", "nr", "ackn"} => block.objs = 0
  /\ start.pc \in {"read", "write", "nr", "ackn"} => block.bytes = 0
  /\ start.pc \in {"write", "nr", "ackn"} => ~torn
  /\ start.pc = "ackn" => ring.nr = 0

\* The slave has got the request or not, and its task is somewhere on the way
\* to the answer.
Waiting ==
  /\ app.uploading = "no" /\ app.asked \in {"no", "download"}
  /\ Asked => xload.module = A /\ start.pc \in {"no", "idle"}
  /\ Prepared

Requesting == mail = <<>> /\ Free

Starting ==
  \/ mail = <<>> /\ Waiting
  \/ mail = <<"START_ACKN">> /\ Stocked(0)
  \/ mail = <<"TERMINATION">> /\ Free

Sending == mail = <<>> /\ InStep

Ending ==
  \/ mail \in {<<>>, <<"TERMINATION">>} /\ Free
  \/ mail = <<"BLOCK_ACKN">> /\ Stocked(host.pos + BlockLen)

OnlyEnds == \A i \in 1..Len(mail) : mail[i] = "END_ACKN"

Complete == host.pos = FILE /\ app.areas[A] = FirstBytes(FILE) /\ Free

MailInv ==
  /\ host.pc \in {"request1", "request2"} => Requesting
  /\ host.pc = "start" => Starting
  /\ host.pc = "data" => Roomy /\ Sending
  /\ host.pc = "block" => Ending
  /\ host.pc = "end" => Complete /\ mail = <<>>
  /\ host.pc = "ended" => Complete /\ (OnlyEnds \/ (mail = <<"TERMINATION">> /\ ~booting))
  /\ host.pc = "done" => Complete /\ OnlyEnds

BootInv == booting => host.pc \in {"ended", "done"}

AckInv == IInv /\ (alone => MailInv /\ BootInv)
-----------------------------------------------------------------------------
(* What the operators of the block transfer do to the bytes.               *)
LEMMA RingSound ==
  ASSUME IInv, Quiet
  PROVE  Sound(ring)
BY DEF IInv, SlaveInv, RingInv, Resetting, Quiet, Agree, Sound, At

LEMMA MorePlaces ==
  ASSUME NEW r, r.nr \in Nat, NEW from, NEW n, Follows(r, from, r.nr)
  PROVE  Follows(r, from, n)
BY DEF Follows

LEMMA BlockNumbers ==
  ASSUME IInv
  PROVE  /\ host.pos \in 0..FILE /\ host.sent \in Nat /\ BlockLen \in Nat
         /\ host.pos + BlockLen \in 0..FILE /\ BlockLen <= MAX
         /\ FRAME \in Nat \ {0} /\ LINE \in Nat \ {0} /\ SIZE \in Nat \ {0}
         /\ FILE \in Nat \ {0} /\ MAX \in Nat \ {0}
BY NumberAssumption DEF IInv, HostType, BlockLen, Least

\* Taking off the bytes that only fill leaves those of the block.
LEMMA TrimmedBytes ==
  ASSUME IInv, InStep, block.objs = host.sent, host.sent = FramesOf(BlockLen)
  PROVE  /\ Sound(Trimmed(BlockLen))
         /\ Trimmed(BlockLen).nr = Rest(host.pos) + BlockLen
         /\ Follows(Trimmed(BlockLen), Lines(host.pos), Trimmed(BlockLen).nr)
<1>1. /\ BlockLen \in Nat /\ host.pos \in Nat /\ Rest(host.pos) \in Nat
      /\ block.bytes \in Nat /\ ring.nr \in Nat
  <2>1. host.pos \in Nat /\ BlockLen \in Nat /\ SIZE \in Nat
    BY BlockNumbers
  <2>2. Rest(host.pos) \in Nat
    BY <2>1, RestFacts
  <2> QED
    BY <2>1, <2>2 DEF IInv, SlaveInv, BlockType, Sound, RingType
<1>2. BlockLen <= block.bytes /\ ring.nr = Rest(host.pos) + block.bytes
  BY <1>1, ObjectsSuffice DEF InStep
<1>3. Sound(Trimmed(BlockLen))
  BY <1>1, RingSound, TrimmedSound DEF IInv, InStep, Sound
<1>4. Follows(ring, Lines(host.pos), Rest(host.pos) + BlockLen)
  BY DEF InStep
<1>5. CASE block.bytes > BlockLen
  <2>1. Trimmed(BlockLen) = Removed(ring, block.bytes - BlockLen)
    BY <1>5 DEF Trimmed
  <2>2. /\ Trimmed(BlockLen).nr = ring.nr - (block.bytes - BlockLen)
        /\ Trimmed(BlockLen).data = ring.data /\ Trimmed(BlockLen).read = ring.read
    BY <1>1, <1>2, <1>5, <2>1 DEF Removed
  <2>3. Trimmed(BlockLen).nr = Rest(host.pos) + BlockLen /\ Trimmed(BlockLen).nr <= ring.nr
    BY <1>1, <1>2, <1>5, <2>2
  <2>4. Follows(Trimmed(BlockLen), Lines(host.pos), Trimmed(BlockLen).nr)
    BY <1>1, <1>4, <2>2, <2>3 DEF Follows, At
  <2> QED
    BY <1>3, <2>3, <2>4
<1>6. CASE ~(block.bytes > BlockLen)
  <2>1. Trimmed(BlockLen) = ring /\ block.bytes = BlockLen
    BY <1>1, <1>2, <1>6 DEF Trimmed
  <2> QED
    BY <1>2, <1>3, <1>4, <2>1
<1> QED
  BY <1>5, <1>6

\* What a whole block adds to the area, and leaves in the ring.
LEMMA BlockProgrammed ==
  ASSUME IInv, InStep, block.objs = host.sent, host.sent = FramesOf(BlockLen),
         Programmed(Trimmed(BlockLen)), block' = NoBlock,
         UNCHANGED <<start, torn>>,
         NEW p, p = host.pos + BlockLen
  PROVE  Stocked(p)'
<1>1. PICK r : r = Trimmed(BlockLen)
  OBVIOUS
<1>2. PICK from : from = Lines(host.pos)
  OBVIOUS
<1>3. PICK n : n = Lines(Rest(host.pos) + BlockLen)
  OBVIOUS
<1>4. /\ Sound(r) /\ r.nr = Rest(host.pos) + BlockLen /\ Follows(r, from, r.nr)
  BY <1>1, <1>2, TrimmedBytes
<1>5. /\ host.pos \in Nat /\ BlockLen \in Nat /\ p \in Nat
      /\ from \in Nat /\ r.nr \in 0..SIZE /\ r.nr \in Nat
  <2>1. host.pos \in Nat /\ BlockLen \in Nat /\ SIZE \in Nat
    BY BlockNumbers
  <2>2. Lines(host.pos) \in Nat
    BY <2>1, RestFacts
  <2> QED
    BY <1>2, <1>4, <2>1, <2>2 DEF Sound, RingType
<1>6. /\ n = Lines(r.nr) /\ n \in 0..r.nr /\ r.nr - n = Rest(r.nr)
      /\ Rest(r.nr) = Rest(p) /\ from + n = Lines(p)
  <2>1. n = Lines(r.nr)
    BY <1>3, <1>4
  <2>2. n \in 0..r.nr /\ r.nr = n + Rest(r.nr) /\ Rest(r.nr) \in Nat
    <3>1. PICK x \in Nat : x = r.nr
      BY <1>5
    <3>2. Lines(x) \in 0..x /\ x = Lines(x) + Rest(x) /\ Rest(x) \in Nat
      BY RestFacts
    <3> QED
      BY <2>1, <3>1, <3>2
  <2>3. Rest(r.nr) = Rest(p) /\ from + n = Lines(p)
    <3>1. PICK x \in Nat, y \in Nat : x = host.pos /\ y = BlockLen
      BY <1>5
    <3>2. Rest(Rest(x) + y) = Rest(x + y) /\ Lines(x) + Lines(Rest(x) + y) = Lines(x + y)
      BY RestAdds
    <3> QED
      BY <1>2, <1>4, <2>1, <3>1, <3>2
  <2> QED
    BY <1>5, <2>1, <2>2, <2>3
<1>7. n = r.nr - (r.nr % LINE)
  BY <1>6 DEF Lines, Rest
<1>8. Programmed(r)
  BY <1>1
<1>9. ring' = Taken(r, n)
  BY <1>7, <1>8 DEF Programmed
<1>10. ring'.nr = Rest(p)
  BY <1>6, <1>9 DEF Taken
<1>11. Follows(ring', Lines(p), ring'.nr)
  <2>1. ASSUME NEW k \in 0..(r.nr - n) - 1
        PROVE  ring'.data[At(ring', k)] = Lines(p) + k + 1
    <3>1. ring'.data[At(ring', k)] = r.data[At(r, n + k)]
      BY <1>4, <1>6, <1>9, TakenBytes
    <3>2. n + k \in 0..r.nr - 1 /\ n + k < r.nr
      BY <1>5, <1>6
    <3>3. r.data[At(r, n + k)] = from + (n + k) + 1
      BY <1>4, <3>2 DEF Follows
    <3>4. from + (n + k) + 1 = Lines(p) + k + 1
      BY <1>5, <1>6
    <3> QED
      BY <3>1, <3>3, <3>4
  <2>2. ring'.nr = r.nr - n
    BY <1>9 DEF Taken
  <2> QED
    BY <2>1, <2>2 DEF Follows
<1>12. app' = [app EXCEPT !.areas[A] = FirstBytes(from) \o [k \in 1..n |-> r.data[At(r, k - 1)]]]
  <2>1. app.area = A /\ app.areas[A] = FirstBytes(from) /\ A # NONE
    BY <1>2, ModuleAssumption DEF InStep, Modules
  <2> QED
    BY <1>7, <1>8, <2>1 DEF Programmed
<1>13. [k \in 1..n |-> r.data[At(r, k - 1)]] = [k \in 1..n |-> from + k]
  <2>1. ASSUME NEW k \in 1..n
        PROVE  r.data[At(r, k - 1)] = from + k
    <3>1. k - 1 \in 0..r.nr - 1 /\ k - 1 < r.nr /\ from + (k - 1) + 1 = from + k
      BY <1>5, <1>6
    <3> QED
      BY <1>4, <3>1 DEF Follows
  <2> QED
    BY <2>1
<1>14. FirstBytes(from) \o [k \in 1..n |-> from + k] = FirstBytes(Lines(p))
  <2>1. n \in Nat
    BY <1>5, <1>6
  <2>2. FirstBytes(from) \o [k \in 1..n |-> from + k] = FirstBytes(from + n)
    BY <1>5, <2>1, LinesJoin, Zenon
  <2> QED
    BY <1>6, <2>2
<1>15. app' = [app EXCEPT !.areas[A] = FirstBytes(Lines(p))]
  BY <1>12, <1>13, <1>14
<1>16. app \in AppType /\ A \in Modules
  BY DEF IInv, SlaveInv, Modules
<1>17. /\ app'.areas[A] = FirstBytes(Lines(p)) /\ app'.area = app.area
       /\ app'.asked = app.asked /\ app'.uploading = app.uploading
  BY <1>15, <1>16 DEF AppType
<1>18. Quiet' /\ app'.area = A
  BY <1>17 DEF InStep, Quiet
<1> QED
  BY <1>10, <1>11, <1>17, <1>18 DEF Stocked
-----------------------------------------------------------------------------
(* An object.                                                              *)
LEMMA Products ==
  ASSUME NEW s \in Nat, NEW f \in Nat, NEW g \in Nat, s <= f, f <= g, NEW d \in Nat
  PROVE  /\ (f - s) * d + s * d <= d * g
         /\ s < f => d <= (f - s) * d
         /\ s * d \in Nat /\ (f - s) * d \in Nat
<1>1. (f - s) * d + s * d = f * d
  OBVIOUS
<1>2. f * d <= d * g
  OBVIOUS
<1>3. s < f => d <= (f - s) * d
  OBVIOUS
<1>4. s * d \in Nat /\ (f - s) * d \in Nat
  OBVIOUS
<1> QED
  BY <1>1, <1>2, <1>3, <1>4

LEMMA OneMore ==
  ASSUME NEW s \in Nat, NEW d \in Nat
  PROVE  s * d \in Nat /\ (s + 1) * d = s * d + d
OBVIOUS

\* The objects of the block that were not sent yet fit into the ring.
LEMMA Room ==
  ASSUME IInv, Roomy
  PROVE  ring.nr + (FramesOf(BlockLen) - host.sent) * FRAME <= SIZE
<1>1. PICK s \in Nat, f \in Nat, g \in Nat :
        /\ s = host.sent /\ f = FramesOf(BlockLen) /\ g = FramesOf(MAX)
        /\ s <= f /\ f <= g
  BY BlockNumbers, ObjectsSuffice, FewerObjects DEF Roomy
<1>2. PICK x \in Nat, y \in Nat, z \in Nat :
        x = (f - s) * FRAME /\ y = s * FRAME /\ z = FRAME * g
  BY <1>1, BlockNumbers, Products
<1>3. x + y <= z
  BY <1>1, <1>2, BlockNumbers, Products
<1>4. PICK h \in Nat : h = Rest(host.pos) /\ h <= LINE - 1
  BY BlockNumbers, RestFacts
<1>5. ring.nr <= h + y
  BY <1>1, <1>2, <1>4 DEF Roomy
<1>6. LINE - 1 + z <= SIZE
  BY <1>1, <1>2, BufferAssumption
<1>7. ring.nr \in Nat /\ LINE \in Nat /\ SIZE \in Nat
  BY BlockNumbers DEF IInv, SlaveInv, Sound, RingType
<1>8. ring.nr + x <= SIZE
  BY <1>2, <1>3, <1>4, <1>5, <1>6, <1>7
<1> QED
  BY <1>1, <1>2, <1>8

LEMMA ObjectFits ==
  ASSUME IInv, Roomy, host.sent < FramesOf(BlockLen)
  PROVE  Len(Object) = FRAME /\ ring.nr + FRAME <= SIZE
<1>1. Len(Object) = FRAME
  BY BlockNumbers DEF Object
<1>2. PICK s \in Nat, f \in Nat : s = host.sent /\ f = FramesOf(BlockLen) /\ s < f
  BY BlockNumbers, ObjectsSuffice
<1>3. PICK x \in Nat : x = (f - s) * FRAME /\ FRAME <= x
  BY <1>2, BlockNumbers, Products
<1>4. ring.nr + x <= SIZE
  BY <1>2, <1>3, Room
<1>5. ring.nr \in Nat /\ FRAME \in Nat /\ SIZE \in Nat
  BY BlockNumbers DEF IInv, SlaveInv, Sound, RingType
<1> QED
  BY <1>1, <1>3, <1>4, <1>5

\* An object of A's master is taken, and goes behind the ones before it.
LEMMA ObjectTaken ==
  ASSUME IInv, InStep, Roomy, host.sent < FramesOf(BlockLen), Data(A, Object)
  PROVE  /\ UNCHANGED <<xload, app, mail>>
         /\ block' = [objs |-> block.objs + 1, bytes |-> block.bytes + FRAME]
         /\ ring' = Added(ring, Object) /\ ring'.nr = ring.nr + FRAME
<1>1. Len(Object) = FRAME /\ ring.nr + FRAME <= SIZE
  BY ObjectFits
<1>2. Sound(ring) /\ Object \in Seq(0..FILE)
  BY RingSound, ObjectTyped DEF InStep, IInv
<1>3. Added(ring, Object).nr = ring.nr + FRAME
  BY <1>1, <1>2, AddedBytes
<1> QED
  BY <1>1, <1>3 DEF Data

LEMMA RoomyKept ==
  ASSUME IInv, Roomy, host.sent < FramesOf(BlockLen),
         host' = [host EXCEPT !.sent = host.sent + 1],
         ring'.nr \in {ring.nr, ring.nr + FRAME}
  PROVE  Roomy'
<1>1. PICK s \in Nat, f \in Nat : s = host.sent /\ f = FramesOf(BlockLen) /\ s < f
  BY BlockNumbers, ObjectsSuffice
<1>2. PICK y \in Nat : y = s * FRAME /\ (s + 1) * FRAME = y + FRAME
  BY <1>1, BlockNumbers, OneMore
<1>3. host'.pos = host.pos /\ host'.sent = s + 1
  BY <1>1 DEF IInv, HostType
<1>4. BlockLen' = BlockLen
  BY <1>3 DEF BlockLen
<1>5. PICK h \in Nat : h = Rest(host.pos)
  BY BlockNumbers, RestFacts
<1>6. ring.nr \in Nat /\ FRAME \in Nat
  BY BlockNumbers DEF IInv, SlaveInv, Sound, RingType
<1>7. ring.nr <= h + y
  BY <1>1, <1>2, <1>5 DEF Roomy
<1>8. ring'.nr <= h + (y + FRAME)
  BY <1>2, <1>5, <1>6, <1>7
<1>9. ring'.nr <= Rest(host'.pos) + host'.sent * FRAME
  BY <1>2, <1>3, <1>5, <1>8
<1>10. host'.sent <= FramesOf(BlockLen')
  BY <1>1, <1>3, <1>4
<1> QED
  BY <1>9, <1>10 DEF Roomy

LEMMA ObjectLost ==
  ASSUME IInv, InStep, host' = [host EXCEPT !.sent = host.sent + 1],
         UNCHANGED <<app, block, ring, start, torn>>
  PROVE  InStep'
<1>1. host'.pos = host.pos /\ host'.sent = host.sent + 1 /\ host.sent \in Nat
  BY DEF IInv, HostType
<1>2. block.objs \in Nat /\ block.objs <= host.sent
  BY DEF InStep, IInv, SlaveInv, BlockType
<1>3. block'.objs <= host'.sent /\ block'.objs # host'.sent
  BY <1>1, <1>2
<1> QED
  BY <1>1, <1>3 DEF InStep, Quiet

\* The bytes of the block's next object follow those of the ones before it.
LEMMA ObjectFollows ==
  ASSUME IInv, InStep, Roomy, host.sent < FramesOf(BlockLen), ring' = Added(ring, Object),
         ring.nr = Rest(host.pos) + host.sent * FRAME,
         Follows(ring, Lines(host.pos), Rest(host.pos) + BlockLen)
  PROVE  Follows(ring', Lines(host.pos), Rest(host.pos) + BlockLen)
<1>1. PICK s \in Nat, len \in Nat, x \in Nat :
        s = host.sent /\ len = BlockLen /\ x = s * FRAME
  BY BlockNumbers, OneMore
<1>2. PICK h \in Nat, from \in Nat :
        h = Rest(host.pos) /\ from = Lines(host.pos) /\ host.pos = from + h
  <2>1. PICK p \in Nat : p = host.pos
    BY BlockNumbers
  <2>2. Rest(p) \in Nat /\ Lines(p) \in Nat /\ p = Lines(p) + Rest(p)
    BY RestFacts
  <2> QED
    BY <2>1, <2>2
<1>3. ring.nr = h + x /\ ring.nr \in Nat /\ FRAME \in Nat \ {0}
  BY <1>1, <1>2, BlockNumbers
<1>4. Len(Object) = FRAME /\ ring.nr + Len(Object) <= SIZE
  BY ObjectFits
<1>5. Sound(ring) /\ Object \in Seq(0..FILE)
  BY RingSound, ObjectTyped DEF InStep, IInv
<1>6. /\ ring'.nr = ring.nr + FRAME
      /\ \A k \in 0..ring.nr - 1 : ring'.data[At(ring', k)] = ring.data[At(ring, k)]
      /\ \A j \in 0..FRAME - 1 : ring'.data[At(ring', ring.nr + j)] = Object[j + 1]
  BY <1>4, <1>5, AddedBytes
<1>7. ASSUME NEW k \in 0..ring'.nr - 1, k < h + len
      PROVE  ring'.data[At(ring', k)] = from + k + 1
  <2>1. CASE k < ring.nr
    <3>1. k \in 0..ring.nr - 1
      BY <1>3, <1>6, <2>1
    <3>2. ring.data[At(ring, k)] = from + k + 1
      BY <1>1, <1>2, <1>7, <3>1 DEF Follows
    <3> QED
      BY <1>6, <3>1, <3>2
  <2>2. CASE ~(k < ring.nr)
    <3>1. PICK j \in 0..FRAME - 1 : k = ring.nr + j
      <4>1. k - ring.nr \in 0..FRAME - 1 /\ k = ring.nr + (k - ring.nr)
        BY <1>3, <1>6, <2>2
      <4> QED
        BY <4>1
    <3>2. ring'.data[At(ring', k)] = Object[j + 1]
      BY <1>6, <3>1
    <3>3. j + 1 \in 1..FRAME
      BY <1>3
    <3>4. PICK i \in Nat : i = x + (j + 1)
      BY <3>3
    <3>5. Object[j + 1] = IF i <= len THEN host.pos + i ELSE 0
      BY <1>1, <3>3, <3>4 DEF Object
    <3>6. i <= len /\ host.pos + i = from + k + 1
      <4>1. k = h + x + j
        BY <1>3, <3>1
      <4>2. i <= len
        BY <1>7, <3>4, <4>1
      <4>3. host.pos + i = from + k + 1
        <5>1. from + h + i = from + k + 1
          BY <1>3, <3>4, <4>1
        <5> QED
          BY <1>2, <5>1
      <4> QED
        BY <4>2, <4>3
    <3> QED
      BY <3>2, <3>5, <3>6
  <2> QED
    BY <2>1, <2>2
<1> QED
  BY <1>1, <1>2, <1>7 DEF Follows

LEMMA ObjectStocked ==
  ASSUME IInv, InStep, Roomy, host.sent < FramesOf(BlockLen), Data(A, Object),
         host' = [host EXCEPT !.sent = host.sent + 1], UNCHANGED <<start, torn>>
  PROVE  InStep'
<1>1. /\ UNCHANGED <<xload, app, mail>>
      /\ block' = [objs |-> block.objs + 1, bytes |-> block.bytes + FRAME]
      /\ ring' = Added(ring, Object) /\ ring'.nr = ring.nr + FRAME
  BY ObjectTaken
<1>2. PICK s \in Nat, x \in Nat : s = host.sent /\ x = s * FRAME /\ (s + 1) * FRAME = x + FRAME
  BY BlockNumbers, OneMore
<1>3. host'.pos = host.pos /\ host'.sent = s + 1
  BY <1>2 DEF IInv, HostType
<1>4. BlockLen' = BlockLen
  BY <1>3 DEF BlockLen
<1>5. block.objs \in Nat /\ block.objs <= s /\ block'.objs = block.objs + 1
  BY <1>1, <1>2 DEF InStep, IInv, SlaveInv, BlockType
<1>6. block'.objs <= host'.sent /\ (block'.objs = host'.sent => block.objs = s)
  BY <1>3, <1>5
<1>7. ASSUME block.objs = s
      PROVE  /\ block'.bytes = host'.sent * FRAME
             /\ ring'.nr = Rest(host'.pos) + host'.sent * FRAME
             /\ Follows(ring', Lines(host'.pos), Rest(host'.pos) + BlockLen')
  <2>1. /\ block.bytes = x /\ ring.nr = Rest(host.pos) + x
        /\ Follows(ring, Lines(host.pos), Rest(host.pos) + BlockLen)
    BY <1>2, <1>7 DEF InStep
  <2>2. Follows(ring', Lines(host.pos), Rest(host.pos) + BlockLen)
    BY <1>1, <1>2, <2>1, ObjectFollows
  <2>3. block'.bytes = x + FRAME
    BY <1>1, <2>1
  <2>4. PICK h \in Nat : h = Rest(host.pos)
    BY BlockNumbers, RestFacts
  <2>5. ring'.nr = h + (x + FRAME)
    BY <1>1, <2>1, <2>4, BlockNumbers
  <2> QED
    BY <1>2, <1>3, <1>4, <2>2, <2>3, <2>4, <2>5
<1>8. Quiet' /\ app'.area = A /\ app'.areas[A] = FirstBytes(Lines(host'.pos))
  BY <1>1, <1>3 DEF InStep, Quiet
<1> QED
  BY <1>6, <1>7, <1>8 DEF InStep

\* A master that reads that the slave waits for the block behind p sends it.
LEMMA NextBlock ==
  ASSUME IInv, NEW p, Stocked(p), host'.pos = p, host'.sent = 0, p \in 0..FILE,
         UNCHANGED <<app, block, ring, start, torn>>
  PROVE  InStep' /\ Roomy'
<1>1. FRAME \in Nat /\ ring.nr \in Nat /\ Rest(p) \in Nat /\ 0 * FRAME = 0
  <2>1. p \in Nat /\ SIZE \in Nat /\ FRAME \in Nat
    BY BlockNumbers
  <2>2. Rest(p) \in Nat
    BY <2>1, RestFacts
  <2>3. ring.nr \in Nat
    BY <2>1 DEF IInv, SlaveInv, Sound, RingType
  <2> QED
    BY <2>1, <2>2, <2>3
<1>2. ring.nr = Rest(p) + 0 * FRAME /\ block.objs = 0 /\ block.bytes = 0 * FRAME
  BY <1>1 DEF Stocked, NoBlock
<1>3. Follows(ring, Lines(p), Rest(p) + BlockLen')
  BY <1>1, MorePlaces DEF Stocked
<1>4. InStep'
  <2>1. Quiet' /\ app'.area = A /\ app'.areas[A] = FirstBytes(Lines(host'.pos))
    BY DEF Stocked, Quiet
  <2>2. block'.objs <= host'.sent
    BY <1>2
  <2> QED
    BY <1>2, <1>3, <2>1, <2>2 DEF InStep
<1>5. FramesOf(BlockLen') \in Nat
  <2>1. BlockLen' \in Nat
    BY BlockNumbers DEF BlockLen, Least
  <2> QED
    BY <2>1, ObjectsSuffice
<1>6. Roomy'
  BY <1>1, <1>2, <1>5 DEF Roomy
<1> QED
  BY <1>4, <1>6
-----------------------------------------------------------------------------
(* The answers that are on their way.                                      *)
LEMMA Appends ==
  ASSUME NEW y
  PROVE  Append(<<>>, y) = <<y>>
OBVIOUS

LEMMA Reads ==
  ASSUME NEW x
  PROVE  <<x>> # <<>> /\ Head(<<x>>) = x /\ Tail(<<x>>) = <<>>
OBVIOUS

\* An answer to A comes through or not.
LEMMA Replied ==
  ASSUME NEW m, NEW answer, Reply(m, answer), mail = <<>>
  PROVE  mail' \in {<<>>, <<answer>>}
BY Appends DEF Reply

LEMMA OneMoreEnd ==
  ASSUME mail \in Seq(Answers), OnlyEnds,
         mail' \in {mail, Append(mail, "END_ACKN")}
  PROVE  OnlyEnds'
BY DEF OnlyEnds
-----------------------------------------------------------------------------
(* The task.                                                               *)
LEMMA NoBytes == FirstBytes(0) = <<>>
BY DEF FirstBytes

\* The last statement of a start that failed changes nothing of A's transfer.
LEMMA IdleAck ==
  ASSUME AckInv, Goes("idle", "no"),
         xload' = [xload EXCEPT !.progress = "IDLE"],
         UNCHANGED <<block, ring, app, mail, torn, booting, host, alone>>, alone
  PROVE  MailInv'
<1>1. xload \in XloadType /\ start \in StartType
  BY DEF AckInv, IInv, SlaveInv
<1>2. /\ start.pc = "idle" /\ start'.pc = "no" /\ xload'.module = xload.module
      /\ BlockLen' = BlockLen
  BY <1>1 DEF Goes, XloadType, StartType, BlockLen
<1>3. (Free => Free') /\ ~Quiet
  BY <1>2 DEF Free, Quiet
<1>4. Waiting => Waiting'
  BY <1>2 DEF Waiting, Prepared, Asked
<1>5. MailInv
  BY DEF AckInv
<1> QED
  BY <1>2, <1>3, <1>4, <1>5 DEF MailInv, Requesting, Starting, Sending, Ending, Complete,
       OnlyEnds, Stocked, InStep

\* The other statements of a start come while A's master waits for its answer.
LEMMA StartsWaiting ==
  ASSUME AckInv, alone, start.pc # "idle", start.pc # "no" \/ Asked
  PROVE  host.pc = "start" /\ mail = <<>> /\ Waiting
<1>1. ~Free /\ ~Quiet
  BY DEF Free, Quiet, Asked
<1>2. host.pc = "start" /\ Starting
  BY <1>1 DEF AckInv, IInv, HostType, MailInv, Requesting, Sending, InStep, Ending,
       Stocked, Complete
<1> QED
  BY <1>1, <1>2 DEF Starting, Stocked

LEMMA StartStarts ==
  ASSUME Start, start \in StartType
  PROVE  \/ start.pc # "no"
         \/ Asked /\ StartBegin
BY DEF Start, StartBegin, StartHandle, StartReturns, StartAckn, StartFails, Goes, Asked

LEMMA BeginWaits ==
  ASSUME IInv, Waiting, StartBegin, mail = <<>>
  PROVE  mail' = <<>> /\ Waiting'
<1>1. app \in AppType /\ xload \in XloadType /\ start \in StartType
  BY DEF IInv, SlaveInv
<1>2. /\ start'.pc = "handle" /\ xload'.module = xload.module /\ Asked
      /\ app'.asked = "no" /\ app'.uploading = "no"
  BY <1>1 DEF StartBegin, Goes, Asked, AppType, XloadType, StartType
<1> QED
  BY <1>2 DEF StartBegin, Waiting, Prepared, Asked

LEMMA HandleWaits ==
  ASSUME IInv, Waiting, StartHandle, mail = <<>>
  PROVE  mail' = <<>> /\ Waiting'
<1>1. app \in AppType /\ xload \in XloadType /\ start \in StartType
  BY DEF IInv, SlaveInv
<1>2. start.pc = "handle" /\ start'.pc = "returned"
  BY <1>1 DEF StartHandle, Goes, StartType
<1>3. xload.module = A /\ ~Asked
  BY <1>2 DEF Waiting, Prepared
<1>4. A \in Modules /\ A \in Names
  BY DEF Modules, Names
<1>5. /\ app'.asked = app.asked /\ app'.uploading = app.uploading
      /\ app'.area = A /\ app'.areas[A] = <<>>
  BY <1>1, <1>3, <1>4 DEF StartHandle, AppType
<1> QED
  BY <1>2, <1>3, <1>5 DEF StartHandle, Waiting, Prepared, Asked

LEMMA ReturnsWaits ==
  ASSUME IInv, Waiting, StartReturns, mail = <<>>
  PROVE  mail' = <<>> /\ Waiting'
<1>1. start.pc = "returned" /\ start'.pc \in {"objs", "name"}
  BY DEF StartReturns
<1> QED
  BY <1>1 DEF StartReturns, Waiting, Prepared, Asked

LEMMA AcknWaits ==
  ASSUME IInv, Waiting, StartAckn, mail = <<>>
  PROVE  Starting'
<1>1. /\ app \in AppType /\ start \in StartType /\ block \in BlockType
      /\ ring \in RingType
  BY DEF IInv, SlaveInv
<1>2. ~Asked /\ UNCHANGED <<xload, app>> /\ ~Asked'
  BY DEF StartAckn, Goes, Waiting, Asked
<1>3. CASE Goes("objs", "bytes") /\ block' = [block EXCEPT !.objs = 0]
           /\ UNCHANGED <<ring, mail, faults, torn>>
  <2>1. start.pc = "objs" /\ start'.pc = "bytes" /\ block'.objs = 0
    BY <1>1, <1>3 DEF Goes, StartType, BlockType
  <2> QED
    BY <1>2, <1>3, <2>1 DEF Waiting, Prepared, Starting
<1>4. CASE Goes("bytes", "read") /\ block' = [block EXCEPT !.bytes = 0]
           /\ UNCHANGED <<ring, mail, faults, torn>>
  <2>1. /\ start.pc = "bytes" /\ start'.pc = "read"
        /\ block'.bytes = 0 /\ block'.objs = block.objs
    BY <1>1, <1>4 DEF Goes, StartType, BlockType
  <2> QED
    BY <1>2, <1>4, <2>1 DEF Waiting, Prepared, Starting
<1>5. CASE Goes("read", "write") /\ torn' = FALSE /\ UNCHANGED <<block, mail, faults>>
  <2>1. start.pc = "read" /\ start'.pc = "write"
    BY <1>1, <1>5 DEF Goes, StartType
  <2> QED
    BY <1>2, <1>5, <2>1 DEF Waiting, Prepared, Starting
<1>6. CASE Goes("write", "nr") /\ UNCHANGED <<block, mail, faults, torn>>
  <2>1. start.pc = "write" /\ start'.pc = "nr"
    BY <1>1, <1>6 DEF Goes, StartType
  <2> QED
    BY <1>2, <1>6, <2>1 DEF Waiting, Prepared, Starting
<1>7. CASE Goes("nr", "ackn") /\ ring' = [ring EXCEPT !.nr = 0]
           /\ UNCHANGED <<block, mail, faults, torn>>
  <2>1. start.pc = "nr" /\ start'.pc = "ackn" /\ ring'.nr = 0
    BY <1>1, <1>7 DEF Goes, StartType, RingType
  <2> QED
    BY <1>2, <1>7, <2>1 DEF Waiting, Prepared, Starting
<1>8. CASE Goes("ackn", "no") /\ Reply(start.to, "START_ACKN")
           /\ UNCHANGED <<block, ring, torn>>
  <2>1. start.pc = "ackn" /\ start'.pc = "no"
    BY <1>1, <1>8 DEF Goes, StartType
  <2>2. /\ app.area = A /\ app.areas[A] = <<>> /\ ~torn /\ ring.nr = 0
        /\ block.objs = 0 /\ block.bytes = 0 /\ app.uploading = "no" /\ app.asked = "no"
    BY <1>2, <2>1 DEF Waiting, Prepared, Asked
  <2>3. block = NoBlock
    BY <1>1, <2>2 DEF BlockType, NoBlock
  <2>4. Follows(ring, Lines(0), ring.nr)
    BY <2>2 DEF Follows
  <2>5. Stocked(0)'
    BY <1>2, <1>8, <2>1, <2>2, <2>3, <2>4, RestEnds, NoBytes DEF Stocked, Quiet, Follows, At
  <2>6. mail' = <<>> \/ mail' = <<"START_ACKN">>
    BY <1>8, Replied
  <2>7. Waiting'
    BY <1>2, <2>1, <2>2 DEF Waiting, Prepared
  <2> QED
    BY <2>5, <2>6, <2>7 DEF Starting
<1> QED
  BY <1>3, <1>4, <1>5, <1>6, <1>7, <1>8 DEF StartAckn

LEMMA FailsWaits ==
  ASSUME IInv, Waiting, StartFails, mail = <<>>, start.pc # "idle"
  PROVE  Starting'
<1>1. /\ start \in StartType /\ xload \in XloadType
  BY DEF IInv, SlaveInv
<1>2. start.pc \in {"name", "terminate"} /\ UNCHANGED <<block, ring, app, torn>>
  BY DEF StartFails, Goes
<1>3. ~Asked /\ ~Asked' /\ app.asked = "no" /\ app.uploading = "no"
  BY <1>2 DEF Waiting, Asked
<1>4. CASE Goes("name", "terminate") /\ UNCHANGED <<mail, faults>>
  <2>1. start'.pc = "terminate"
    BY <1>1, <1>4 DEF Goes, StartType
  <2> QED
    BY <1>2, <1>3, <1>4, <2>1 DEF Waiting, Prepared, Starting
<1>5. CASE Goes("terminate", "idle") /\ Reply(start.to, "TERMINATION")
  <2>1. start'.pc = "idle"
    BY <1>1, <1>5 DEF Goes, StartType
  <2>2. mail' = <<>> \/ mail' = <<"TERMINATION">>
    BY <1>5, Replied
  <2> QED
    BY <1>2, <1>3, <2>1, <2>2 DEF Waiting, Prepared, Free, Starting
<1> QED
  BY <1>2, <1>4, <1>5 DEF StartFails, Goes

LEMMA StartAck ==
  ASSUME AckInv, Start
  PROVE  AckInv'
<1>1. IInv /\ IInv' /\ start \in StartType
  BY TaskKept DEF AckInv, Task, IInv
<1>2. UNCHANGED <<booting, host, alone>>
  BY DEF Start, TaskOnly
<1>3. ASSUME alone
      PROVE  MailInv' /\ BootInv'
  <2>1. BootInv'
    BY <1>2, <1>3 DEF AckInv, BootInv
  <2>2. CASE start.pc = "idle"
    <3>1. /\ Goes("idle", "no") /\ xload' = [xload EXCEPT !.progress = "IDLE"]
          /\ UNCHANGED <<block, ring, app, mail, torn>>
      BY <2>2 DEF Start, StartBegin, StartHandle, StartReturns, StartAckn, StartFails, Goes
    <3> QED
      BY <1>2, <1>3, <2>1, <3>1, IdleAck
  <2>3. CASE start.pc # "idle"
    <3>1. host.pc = "start" /\ mail = <<>> /\ Waiting
      BY <1>1, <1>3, <2>3, StartStarts, StartsWaiting
    <3>2. Starting'
      BY <1>1, <2>3, <3>1, BeginWaits, HandleWaits, ReturnsWaits, AcknWaits, FailsWaits
         DEF Start, Starting
    <3> QED
      BY <1>2, <2>1, <3>1, <3>2 DEF MailInv
  <2> QED
    BY <2>2, <2>3
<1> QED
  BY <1>1, <1>2, <1>3 DEF AckInv

\* While the other module is silent the task has no upload.
LEMMA UploadAck ==
  ASSUME AckInv, Upload
  PROVE  AckInv'
<1>1. IInv' /\ UNCHANGED alone
  BY TaskKept DEF AckInv, Task, Upload, TaskOnly
<1>2. app.asked = "upload" \/ app.uploading # "no"
  BY DEF Upload, UploadBegin, UploadFill, UploadSend, UploadBlockEnd
<1>3. ~Free /\ ~Quiet /\ ~Waiting
  BY <1>2 DEF Free, Quiet, Waiting
<1>4. ~alone
  BY <1>3 DEF AckInv, IInv, HostType, MailInv, Requesting, Starting, Sending, InStep, Ending,
       Stocked, Complete
<1> QED
  BY <1>1, <1>4 DEF AckInv

LEMMA BootAck ==
  ASSUME AckInv, Boot
  PROVE  AckInv'
<1>1. IInv /\ IInv'
  BY TaskKept DEF AckInv, Task
<1>2. /\ booting /\ UNCHANGED <<block, ring, app, start, host, torn, alone>>
      /\ mail' \in {mail, Append(mail, "END_ACKN")}
  BY DEF Boot, Reply
<1>3. ASSUME alone
      PROVE  MailInv' /\ BootInv'
  <2>1. host.pc \in {"ended", "done"}
    BY <1>2, <1>3 DEF AckInv, BootInv
  <2>2. Complete /\ OnlyEnds
    BY <1>2, <1>3, <2>1 DEF AckInv, MailInv
  <2>3. mail \in Seq(Answers)
    BY <1>1 DEF IInv, SlaveInv
  <2>4. OnlyEnds'
    BY <1>2, <2>2, <2>3, OneMoreEnd
  <2>5. Complete'
    BY <1>2, <2>2 DEF Complete, Free
  <2> QED
    BY <1>2, <2>1, <2>4, <2>5 DEF MailInv, BootInv
<1> QED
  BY <1>1, <1>2, <1>3 DEF AckInv
-----------------------------------------------------------------------------
(* What A's master sends.                                                  *)
LEMMA Sent ==
  ASSUME IInv, NEW pc, NEW sent, Sends(pc, sent)
  PROVE  /\ host'.pc = pc /\ host'.sent = sent /\ host'.pos = host.pos
         /\ BlockLen' = BlockLen
BY DEF Sends, IInv, HostType, BlockLen

LEMMA Untouched ==
  ASSUME NotDelivered
  PROVE  UNCHANGED <<xload, block, ring, app, booting, start, mail>>
BY DEF NotDelivered, slave, Running

\* No handler comes into a reset that is not there.
LEMMA NotTorn ==
  ASSUME IInv, Handled, ~Resetting \/ ring' = ring
  PROVE  torn' = torn
BY DEF Handled, IInv

LEMMA FreeKept ==
  ASSUME Free, UNCHANGED <<app, start>>
  PROVE  Free'
BY DEF Free

LEMMA FreeWaits ==
  ASSUME Free
  PROVE  Waiting
BY DEF Free, Waiting, Prepared, Asked

LEMMA Request1Ack ==
  ASSUME AckInv, SendRequest1, Handled
  PROVE  AckInv'
<1>1. IInv /\ IInv'
  BY MasterKept DEF AckInv, Master
<1>2. host'.pc = "request2"
  BY <1>1, Sent DEF SendRequest1
<1>3. UNCHANGED <<app, start, mail, booting>>
  BY Untouched DEF SendRequest1, StartRequest1, Running
<1>4. ASSUME alone'
      PROVE  mail = <<>> /\ Free /\ ~booting
  <2>1. CASE alone
    BY <2>1 DEF SendRequest1, AckInv, MailInv, BootInv, Requesting
  <2>2. CASE Resting
    BY <2>2 DEF Resting, Free
  <2> QED
    BY <1>4, <2>1, <2>2 DEF SendRequest1
<1> QED
  BY <1>1, <1>2, <1>3, <1>4, FreeKept DEF AckInv, MailInv, BootInv, Requesting

LEMMA Request2Ack ==
  ASSUME AckInv, SendRequest2, Handled
  PROVE  AckInv'
<1>1. IInv /\ IInv' /\ app \in AppType
  BY MasterKept DEF AckInv, Master, IInv, SlaveInv
<1>2. host.pc = "request2" /\ host'.pc = "start" /\ UNCHANGED alone
  BY <1>1, Sent DEF SendRequest2
<1>3. ASSUME alone
      PROVE  Starting' /\ ~booting'
  <2>1. mail = <<>> /\ Free /\ ~booting
    BY <1>2, <1>3 DEF AckInv, MailInv, BootInv, Requesting
  <2>2. UNCHANGED <<start, booting>>
    BY Untouched DEF SendRequest2, Running
  <2>3. CASE app' = app /\ mail' \in {<<>>, <<"TERMINATION">>}
    BY <2>1, <2>2, <2>3, FreeKept, FreeWaits DEF Starting, Free, Waiting, Prepared, Asked
  <2>4. CASE /\ xload'.module = A /\ app' = [app EXCEPT !.asked = "download"]
             /\ mail' = mail
    <3>1. app'.asked = "download" /\ app'.uploading = "no"
      BY <1>1, <2>1, <2>4 DEF AppType, Free
    <3> QED
      BY <2>1, <2>2, <2>4, <3>1 DEF Starting, Free, Waiting, Prepared, Asked
  <2>5. CASE NotDelivered
    BY <2>1, <2>3, <2>5, Untouched
  <2>6. CASE StartRequest2(A)
    <3>1. ASSUME NEW x, Termination(A, x)
          PROVE  mail' \in {<<>>, <<"TERMINATION">>}
      BY <2>1, <3>1, Replied DEF Termination
    <3> QED
      BY <2>3, <2>4, <2>6, <3>1 DEF StartRequest2
  <2> QED
    BY <2>1, <2>2, <2>5, <2>6 DEF SendRequest2
<1> QED
  BY <1>1, <1>2, <1>3 DEF AckInv, MailInv, BootInv

LEMMA DataAck ==
  ASSUME AckInv, SendData, Handled
  PROVE  AckInv'
<1>1. IInv /\ IInv'
  BY MasterKept DEF AckInv, Master
<1>2. host.pc = "data" /\ host.sent < FramesOf(BlockLen) /\ UNCHANGED <<alone, booting, start>>
  BY Untouched DEF SendData, Running
<1>3. host'.pc = "data" /\ host' = [host EXCEPT !.sent = host.sent + 1]
  BY <1>1, <1>2, Sent DEF SendData, Sends, IInv, HostType
<1>4. ASSUME alone
      PROVE  Roomy' /\ Sending' /\ ~booting
  <2>1. Roomy /\ mail = <<>> /\ InStep /\ ~booting
    BY <1>2, <1>4 DEF AckInv, MailInv, BootInv, Sending
  <2>2. torn' = torn
    BY <1>1, <2>1, NotTorn DEF InStep, Quiet, Resetting
  <2>3. CASE NotDelivered
    <3>1. UNCHANGED <<xload, app, mail, block, ring>>
      BY <2>3, Untouched
    <3>2. Roomy'
      BY <1>1, <1>2, <1>3, <2>1, <3>1, RoomyKept
    <3>3. InStep'
      BY <1>1, <1>2, <1>3, <2>1, <2>2, <3>1, ObjectLost
    <3> QED
      BY <2>1, <3>1, <3>2, <3>3 DEF Sending
  <2>4. CASE Data(A, Object)
    <3>1. UNCHANGED <<xload, app, mail>> /\ ring'.nr = ring.nr + FRAME
      BY <1>1, <1>2, <2>1, <2>4, ObjectTaken
    <3>2. Roomy'
      BY <1>1, <1>2, <1>3, <2>1, <3>1, RoomyKept
    <3>3. InStep'
      BY <1>1, <1>2, <1>3, <2>1, <2>2, <2>4, ObjectStocked
    <3> QED
      BY <2>1, <3>1, <3>2, <3>3 DEF Sending
  <2> QED
    BY <2>1, <2>3, <2>4 DEF SendData
<1> QED
  BY <1>1, <1>2, <1>3, <1>4 DEF AckInv, MailInv, BootInv

LEMMA HandleKeeps ==
  ASSUME app \in AppType, NEW r, Programmed(r)
  PROVE  app'.asked = app.asked /\ app'.uploading = app.uploading
BY DEF Programmed, AppType

LEMMA BlockEndAck ==
  ASSUME AckInv, SendBlockEnd, Handled
  PROVE  AckInv'
<1>1. IInv /\ IInv' /\ app \in AppType
  BY MasterKept DEF AckInv, Master, IInv, SlaveInv
<1>2. /\ host.pc = "data" /\ host.sent = FramesOf(BlockLen)
      /\ UNCHANGED <<alone, booting, start>>
  BY Untouched DEF SendBlockEnd, Running
<1>3. host'.pc = "block" /\ host'.pos = host.pos /\ BlockLen' = BlockLen
  BY <1>1, Sent DEF SendBlockEnd
<1>4. ASSUME alone
      PROVE  Ending' /\ ~booting
  <2>1. mail = <<>> /\ InStep /\ ~booting
    BY <1>2, <1>4 DEF AckInv, MailInv, BootInv, Sending
  <2>2. torn' = torn
    BY <1>1, <2>1, NotTorn DEF InStep, Quiet, Resetting
  <2>3. \/ /\ mail' \in {<<>>, <<"BLOCK_ACKN">>}
           /\ host.sent = block.objs /\ Programmed(Trimmed(BlockLen)) /\ block' = NoBlock
        \/ mail' \in {<<>>, <<"TERMINATION">>} /\ app' = app
    <3>1. CASE NotDelivered
      BY <2>1, <3>1, Untouched
    <3>2. CASE BlockEnd(A, BlockLen, host.sent)
      BY <2>1, <3>2, Replied DEF BlockEnd, Termination
    <3>3. CASE BlockEndFails(A, BlockLen, host.sent)
      BY <2>1, <3>3, Appends DEF BlockEndFails, HandleFails
    <3> QED
      BY <2>1, <3>1, <3>2, <3>3 DEF SendBlockEnd
  <2>4. Free'
    BY <1>1, <1>2, <2>1, <2>3, HandleKeeps DEF InStep, Quiet, Free
  <2>5. CASE mail' \in {<<>>, <<"TERMINATION">>}
    BY <2>1, <2>4, <2>5 DEF Ending
  <2>6. CASE /\ mail' = <<"BLOCK_ACKN">>
             /\ host.sent = block.objs /\ Programmed(Trimmed(BlockLen)) /\ block' = NoBlock
    <3>1. PICK p : p = host.pos + BlockLen
      OBVIOUS
    <3>2. Stocked(p)'
      BY <1>1, <1>2, <2>1, <2>2, <2>6, <3>1, BlockProgrammed
    <3>3. Stocked(host.pos + BlockLen)'
      BY <1>3, <3>1, <3>2 DEF Stocked
    <3> QED
      BY <2>1, <2>6, <3>3 DEF Ending
  <2> QED
    BY <2>3, <2>5, <2>6
<1> QED
  BY <1>1, <1>2, <1>3, <1>4 DEF AckInv, MailInv, BootInv

LEMMA EndAck ==
  ASSUME AckInv, SendEnd, Handled
  PROVE  AckInv'
<1>1. host.pc = "end" /\ UNCHANGED alone
  BY DEF SendEnd
<1>2. IInv /\ IInv' /\ app \in AppType
  BY MasterKept DEF AckInv, Master, IInv, SlaveInv
<1>3. host'.pc = "ended" /\ host'.pos = host.pos
  BY <1>2, Sent DEF SendEnd
<1>4. ASSUME alone
      PROVE  Complete' /\ (OnlyEnds' \/ (mail' = <<"TERMINATION">> /\ ~booting'))
  <2>1. Complete /\ mail = <<>> /\ ~booting
    BY <1>1, <1>4 DEF AckInv, MailInv, BootInv
  <2>2. /\ app'.areas = app.areas /\ Free'
        /\ \/ mail' \in {<<>>, <<"END_ACKN">>}
           \/ mail' = <<"TERMINATION">> /\ ~booting'
    <3>1. CASE NotDelivered
      BY <2>1, <3>1, Untouched, FreeKept DEF Complete
    <3>2. CASE EndAckn(A) /\ UNCHANGED <<info, booting, start, app, block, ring>>
      BY <2>1, <3>2, Replied, FreeKept DEF EndAckn, Complete
    <3>3. CASE HandleFails(A) /\ UNCHANGED <<info, booting, start, app, block, ring>>
      BY <2>1, <3>3, Appends, FreeKept DEF HandleFails, Complete
    <3>4. CASE /\ app' = [app EXCEPT !.asked = "no", !.area = NONE, !.uploading = "no"]
               /\ start' = NoStart /\ UNCHANGED mail
      BY <1>2, <2>1, <3>4 DEF AppType, Free, NoStart
    <3> QED
      BY <2>1, <3>1, <3>2, <3>3, <3>4 DEF SendEnd, End
  <2>3. Complete'
    BY <1>3, <2>1, <2>2 DEF Complete
  <2>4. OnlyEnds' \/ (mail' = <<"TERMINATION">> /\ ~booting')
    <3>1. CASE mail' = <<>>
      BY <3>1 DEF OnlyEnds
    <3>2. CASE mail' = <<"END_ACKN">>
      BY <3>2 DEF OnlyEnds
    <3> QED
      BY <2>2, <3>1, <3>2
  <2> QED
    BY <2>3, <2>4
<1> QED
  BY <1>1, <1>2, <1>3, <1>4 DEF AckInv, MailInv, BootInv
-----------------------------------------------------------------------------
(* What A's master reads.                                                  *)
Again == [pc |-> "request1", pos |-> 0, sent |-> 0]

\* A master that begins again.
LEMMA BeginsAgain ==
  ASSUME host' = Again, Requesting'
  PROVE  MailInv'
BY DEF MailInv, Again

LEMMA ReadEffect ==
  ASSUME ReadAnswer
  PROVE  /\ mail # <<>> /\ mail' = Tail(mail)
         /\ UNCHANGED <<xload, block, ring, app, start, booting, alone, torn>>
         /\ Head(mail) = "TERMINATION" /\ host.pc # "done" => host' = Again
         /\ Head(mail) = "START_ACKN" /\ host.pc = "start" =>
              host' = [pc |-> "data", pos |-> 0, sent |-> 0]
         /\ Head(mail) = "BLOCK_ACKN" /\ host.pc = "block" =>
              host' = [pc |-> IF host.pos + BlockLen = FILE THEN "end" ELSE "data",
                       pos |-> host.pos + BlockLen, sent |-> 0]
         /\ Head(mail) = "END_ACKN" /\ host.pc = "ended" =>
              host' = [host EXCEPT !.pc = "done"]
         /\ Head(mail) = "END_ACKN" /\ host.pc # "ended" => host' = host
BY DEF ReadAnswer, slave, Again

\* A termination that A's master reads finds the slave with nothing to do.
LEMMA ReadTermination ==
  ASSUME ReadAnswer, mail = <<"TERMINATION">>, Free, host.pc # "done"
  PROVE  MailInv' /\ host'.pc = "request1"
<1>1. mail' = <<>> /\ host' = Again
  BY ReadEffect, Reads
<1>2. Free'
  BY ReadEffect, FreeKept
<1> QED
  BY <1>1, <1>2, BeginsAgain DEF Requesting, Again

LEMMA ReadStarting ==
  ASSUME IInv, Starting, host.pc = "start", ReadAnswer
  PROVE  MailInv'
<1>1. CASE mail = <<"START_ACKN">> /\ Stocked(0)
  <2>1. mail' = <<>> /\ host' = [pc |-> "data", pos |-> 0, sent |-> 0]
    BY <1>1, ReadEffect, Reads
  <2>2. 0 \in 0..FILE
    BY NumberAssumption
  <2>3. InStep' /\ Roomy'
    BY <1>1, <2>1, <2>2, ReadEffect, NextBlock
  <2> QED
    BY <2>1, <2>3 DEF MailInv, Sending
<1>2. CASE mail = <<"TERMINATION">> /\ Free
  BY <1>2, ReadTermination
<1>3. mail # <<>>
  BY ReadEffect
<1> QED
  BY <1>1, <1>2, <1>3 DEF Starting

\* All bytes of the file stand in the area when the last block is acknowledged.
LEMMA LastBlock ==
  ASSUME Stocked(FILE), host'.pos = FILE, UNCHANGED <<app, start>>
  PROVE  Complete'
<1>1. app.areas[A] = FirstBytes(FILE)
  BY RestEnds DEF Stocked
<1> QED
  BY <1>1 DEF Complete, Free, Stocked, Quiet

LEMMA ReadEnding ==
  ASSUME IInv, Ending, host.pc = "block", ReadAnswer
  PROVE  MailInv'
<1>1. CASE mail = <<"TERMINATION">> /\ Free
  BY <1>1, ReadTermination
<1>2. CASE mail = <<"BLOCK_ACKN">> /\ Stocked(host.pos + BlockLen)
  <2>1. PICK p : p = host.pos + BlockLen
    OBVIOUS
  <2>2. /\ mail' = <<>>
        /\ host' = [pc |-> IF p = FILE THEN "end" ELSE "data", pos |-> p, sent |-> 0]
    BY <1>2, <2>1, ReadEffect, Reads
  <2>3. Stocked(p) /\ p \in 0..FILE
    BY <1>2, <2>1, BlockNumbers
  <2>4. host'.pos = p /\ host'.sent = 0
    BY <2>2
  <2>5. CASE p = FILE
    <3>1. Complete'
      BY <2>3, <2>4, <2>5, ReadEffect, LastBlock
    <3> QED
      BY <2>2, <2>5, <3>1 DEF MailInv
  <2>6. CASE p # FILE
    <3>1. InStep' /\ Roomy'
      BY <2>3, <2>4, ReadEffect, NextBlock
    <3> QED
      BY <2>2, <2>6, <3>1 DEF MailInv, Sending
  <2> QED
    BY <2>5, <2>6
<1>3. mail # <<>>
  BY ReadEffect
<1> QED
  BY <1>1, <1>2, <1>3 DEF Ending

LEMMA EndsRead ==
  ASSUME mail \in Seq(Answers), mail # <<>>, OnlyEnds, mail' = Tail(mail)
  PROVE  Head(mail) = "END_ACKN" /\ OnlyEnds'
<1>1. Len(mail) \in Nat \ {0} /\ Head(mail) = mail[1]
  OBVIOUS
<1>2. Len(mail') = Len(mail) - 1 /\ \A i \in 1..Len(mail') : mail'[i] = mail[i + 1]
  OBVIOUS
<1>3. \A i \in 1..Len(mail') : i + 1 \in 1..Len(mail)
  BY <1>1, <1>2
<1> QED
  BY <1>1, <1>2, <1>3 DEF OnlyEnds

LEMMA ReadEnded ==
  ASSUME IInv, Complete, host.pc \in {"ended", "done"}, ReadAnswer, OnlyEnds
  PROVE  MailInv' /\ host'.pc = "done"
<1>1. mail \in Seq(Answers) /\ host \in HostType
  BY DEF IInv, SlaveInv
<1>2. Head(mail) = "END_ACKN" /\ OnlyEnds'
  BY <1>1, ReadEffect, EndsRead
<1>3. host'.pc = "done" /\ host'.pos = host.pos
  BY <1>1, <1>2, ReadEffect DEF HostType
<1>4. Complete'
  BY <1>3, ReadEffect DEF Complete, Free
<1> QED
  BY <1>2, <1>3, <1>4 DEF MailInv

LEMMA ReadAck ==
  ASSUME AckInv, ReadAnswer
  PROVE  AckInv'
<1>1. IInv /\ IInv' /\ host \in HostType
  BY MasterKept DEF AckInv, Master, IInv
<1>2. mail # <<>> /\ UNCHANGED <<booting, alone>>
  BY ReadEffect
<1>3. ASSUME alone
      PROVE  MailInv' /\ BootInv'
  <2>1. MailInv /\ BootInv
    BY <1>3 DEF AckInv
  <2>2. CASE host.pc \in {"request1", "request2", "data", "end"}
    BY <1>2, <2>1, <2>2 DEF MailInv, Requesting, Sending
  <2>3. CASE host.pc = "start"
    BY <1>1, <1>2, <2>1, <2>3, ReadStarting DEF MailInv, BootInv
  <2>4. CASE host.pc = "block"
    BY <1>1, <1>2, <2>1, <2>4, ReadEnding DEF MailInv, BootInv
  <2>5. CASE host.pc \in {"ended", "done"} /\ OnlyEnds
    BY <1>1, <1>2, <2>1, <2>5, ReadEnded DEF MailInv, BootInv
  <2>6. CASE host.pc \in {"ended", "done"} /\ ~OnlyEnds
    BY <1>2, <2>1, <2>6, ReadTermination DEF MailInv, BootInv, Complete
  <2> QED
    BY <1>1, <2>2, <2>3, <2>4, <2>5, <2>6 DEF HostType
<1> QED
  BY <1>1, <1>2, <1>3 DEF AckInv

LEMMA TimeoutAck ==
  ASSUME AckInv, Timeout
  PROVE  AckInv'
<1>1. IInv /\ IInv'
  BY MasterKept DEF AckInv, Master
<1>2. /\ mail' = <<>> /\ host' = Again /\ ~booting' /\ mail = <<>>
      /\ host.pc \in {"start", "block", "ended"} /\ ~Asked /\ start.pc = "no"
      /\ UNCHANGED <<app, start, alone>>
  BY DEF Timeout, slave, Again, Asked
<1>3. ASSUME alone
      PROVE  Free
  BY <1>2, <1>3 DEF AckInv, MailInv, Starting, Waiting, Ending, Complete, Free, Asked
<1> QED
  BY <1>1, <1>2, <1>3, BeginsAgain, FreeKept DEF AckInv, Requesting, BootInv
-----------------------------------------------------------------------------
LEMMA InitAck ==
  ASSUME Init
  PROVE  AckInv
<1>1. host.pc = "request1" /\ mail = <<>> /\ Free /\ ~booting
  BY DEF Init, Free, NoStart
<1> QED
  BY <1>1, Initially DEF AckInv, MailInv, BootInv, Requesting

\* A message of B leaves nothing to say until A's master has begun again.
LEMMA DisturbAck ==
  ASSUME AckInv, Disturb
  PROVE  AckInv'
BY DisturbKept DEF AckInv, Disturb

LEMMA StillAck ==
  ASSUME AckInv, UNCHANGED vars
  PROVE  AckInv'
<1>1. UNCHANGED <<xload, block, ring, app, start, booting, host, mail, alone, torn>>
  BY DEF vars, slave
<1>2. IInv'
  BY StepKept DEF AckInv
<1>3. BlockLen' = BlockLen
  BY <1>1 DEF BlockLen
<1>4. \A p : Stocked(p) => Stocked(p)'
  BY <1>1 DEF Stocked, Quiet
<1>5. MailInv => MailInv'
  BY <1>1, <1>3 DEF MailInv, Requesting, Starting, Sending, Ending, Complete,
       OnlyEnds, Roomy, InStep, Stocked, Quiet, Asked, Free, Waiting, Prepared
<1>6. BootInv => BootInv'
  BY <1>1 DEF BootInv
<1> QED
  BY <1>1, <1>2, <1>5, <1>6 DEF AckInv

LEMMA AckStep ==
  ASSUME AckInv, [Next]_vars
  PROVE  AckInv'
BY StartAck, UploadAck, BootAck, DisturbAck, Request1Ack, Request2Ack, DataAck,
   BlockEndAck, EndAck, ReadAck, TimeoutAck, StillAck DEF Next, Task, Master

LEMMA AckInvariance == Spec => []AckInv
<1>1. Init => AckInv
  BY InitAck
<1>2. AckInv /\ [Next]_vars => AckInv'
  BY AckStep
<1> QED
  BY <1>1, <1>2, PTL DEF Spec

\* A block that A's master was told it may send fits into the ring, whatever
\* is lost, fails or ends too early and whatever another module did before the
\* master began, unless another module's messages come in between.
THEOREM RoomKept == Spec => []RoomForBlock
<1>1. AckInv => RoomForBlock
  BY Room DEF AckInv, MailInv, RoomForBlock
<1> QED
  BY <1>1, AckInvariance, PTL

\* What A's master holds acknowledged is programmed, each byte once and in
\* order, in spite of lost messages and answers, failing handles and resets,
\* whatever another module did before the master began, unless another module's
\* messages come in between.
THEOREM AckedKept == Spec => []AckedIsProgrammed
<1>1. ASSUME AckInv
      PROVE  AckedIsProgrammed
  <2> SUFFICES ASSUME alone, host.pc \in {"data", "end", "ended", "done"}
               PROVE  app.areas[A] = SubSeq(File, 1, host.pos - (host.pos % LINE))
    BY DEF AckedIsProgrammed
  <2>1. host.pos \in 0..FILE /\ host.pos \in Nat
    BY <1>1, BlockNumbers DEF AckInv
  <2>2. Lines(host.pos) \in 0..FILE /\ Lines(host.pos) = host.pos - (host.pos % LINE)
    <3>1. Lines(host.pos) \in 0..host.pos
      BY <2>1, RestFacts
    <3> QED
      BY <2>1, <3>1, NumberAssumption DEF Lines, Rest
  <2>3. FirstBytes(Lines(host.pos)) = SubSeq(File, 1, host.pos - (host.pos % LINE))
    BY <2>2, FirstOfFile
  <2>4. CASE host.pc = "data"
    BY <1>1, <2>3, <2>4 DEF AckInv, MailInv, Sending, InStep
  <2>5. CASE host.pc \in {"end", "ended", "done"}
    <3>1. host.pos = FILE /\ app.areas[A] = FirstBytes(FILE)
      BY <1>1, <2>5 DEF AckInv, MailInv, Complete
    <3> QED
      BY <2>3, <3>1, RestEnds
  <2> QED
    BY <2>4, <2>5
<1> QED
  BY <1>1, AckInvariance, PTL
=============================================================================
