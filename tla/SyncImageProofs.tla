--------------------------- MODULE SyncImageProofs ----------------------------
(***************************************************************************)
(* The process image supervision for every set of modules and objects and  *)
(* every width of the pre-counters: two verdicts in a row never both accept*)
(* the same fault.                                                         *)
(***************************************************************************)
EXTENDS SyncImage, TLAPS

(***************************************************************************)
(* What a valid verdict leaves behind: each check it tolerated is a check  *)
(* of its module whose pre-counter stands at one, unless the counter has   *)
(* gone round.  The property needs this of the state before the second     *)
(* verdict, and only this.                                                 *)
(***************************************************************************)
PreOK == /\ pre \in [Checks -> 0 .. PreMod - 1]
         /\ lastBad \in [Modules -> SUBSET Checks]

Tolerated ==
  \A m \in Modules : imageValid[m] =>
    \A c \in lastBad[m] : c \in wrapped \/ pre[c] = 1

ToleratedInv == PreOK /\ Tolerated

LEMMA BumpedRange ==
  ASSUME NEW c \in Checks, PreOK
  PROVE  /\ Bumped(c) \in 0 .. PreMod - 1
         /\ pre[c] = 1 => Bumped(c) = 2
BY WidthAssumption DEF PreOK, Bumped

\* Actions other than a verdict leave everything the invariant speaks of.
LEMMA VerdictFrame ==
  ASSUME [Next]_vars
  PROVE  \/ UNCHANGED verdict
         \/ ProcessRequest /\ Judged /\ Judge
<1>1. ASSUME NEW n \in Nodes, NEW x \in RxObjs, NEW ok \in DlcOks, NEW d \in Data,
             RxData(n, x, ok, d)
      PROVE  UNCHANGED verdict
  BY <1>1 DEF RxData
<1>2. ASSUME NEW x \in TxObjs, NEW ok \in DlcOks, NEW d \in Data,
             MonTxData(x, ok, d)
      PROVE  UNCHANGED verdict
  BY <1>2 DEF MonTxData
<1>3. ASSUME NEW m \in Modules, SyncOff(m) \/ SyncOn(m)
      PROVE  UNCHANGED verdict
  BY <1>3 DEF SyncOff, SyncOn
<1>4. ASSUME ProcessRequest
      PROVE  UNCHANGED verdict \/ (Judged /\ Judge)
  BY <1>4 DEF ProcessRequest, ProcessRequestMain, ProcessRequestMon,
              CheckProcessImage
<1>5. CASE UNCHANGED vars
  BY <1>5 DEF vars, verdict
<1> QED
  BY <1>1, <1>2, <1>3, <1>4, <1>5 DEF Next, Receive, LoopBack, Switch

\* A valid verdict found no check tripping.
LEMMA ValidVerdict ==
  ASSUME NEW m \in Modules, Judge, imageValid'[m]
  PROVE  /\ Tripped(m) = {}
         /\ Evaluated(m) = ChecksOf(m)
         /\ lastBad'[m] = {c \in ChecksOf(m) : Bad(c)}
<1>1. Correct(m)
  BY DEF Judge
<1>2. Tripped(m) = {}
  BY <1>1 DEF Correct
<1>3. lastBad'[m] = {c \in ChecksOf(m) : Bad(c)}
  BY DEF Judge
<1> QED
  BY <1>2, <1>3 DEF Evaluated

LEMMA JudgeKeepsPre ==
  ASSUME pre \in [Checks -> 0 .. PreMod - 1], Judge
  PROVE  pre' \in [Checks -> 0 .. PreMod - 1]
<1>1. ASSUME NEW c \in Checks
      PROVE  (IF c \notin Evaluated(c.obj[1]) THEN pre[c]
              ELSE IF Bad(c) THEN Bumped(c) ELSE 0) \in 0 .. PreMod - 1
  <2>1. Bumped(c) \in 0 .. PreMod - 1
    BY WidthAssumption DEF Bumped
  <2> QED
    BY <2>1, WidthAssumption
<1> QED
  BY <1>1 DEF Judge

LEMMA JudgeKeepsTolerated ==
  ASSUME ToleratedInv, Judge
  PROVE  ToleratedInv'
<1> USE DEF ToleratedInv
<1>1. pre' \in [Checks -> 0 .. PreMod - 1]
  BY JudgeKeepsPre DEF PreOK
<1>2. lastBad' \in [Modules -> SUBSET Checks]
  BY DEF Judge, ChecksOf
<1>3. ASSUME NEW m \in Modules, imageValid'[m], NEW c \in lastBad'[m]
      PROVE  c \in wrapped' \/ pre'[c] = 1
  <2>1. c \in ChecksOf(m) /\ Bad(c) /\ c \in Evaluated(m) /\ c \notin Tripped(m)
    BY <1>3, ValidVerdict
  <2>2. c \in Checks /\ c.obj[1] = m
    BY <2>1 DEF ChecksOf
  <2>3. pre'[c] = Bumped(c)
    BY <2>1, <2>2 DEF Judge
  <2>4. ~(Bumped(c) >= 2)
    BY <2>1 DEF Tripped, Trips, CAN_SYNC_VALID_PRE_NR
  <2>5. CASE Bumped(c) = 0
    BY <2>5, <2>1, <2>2 DEF Judge
  <2>6. CASE Bumped(c) # 0
    BY <2>6, <2>2, <2>3, <2>4, BumpedRange, WidthAssumption
  <2> QED
    BY <2>5, <2>6
<1> QED
  BY <1>1, <1>2, <1>3 DEF PreOK, Tolerated

LEMMA ToleratedInductive ==
  ASSUME ToleratedInv, [Next]_vars
  PROVE  ToleratedInv'
<1>1. CASE UNCHANGED verdict
  BY <1>1 DEF verdict, hist, ToleratedInv, PreOK, Tolerated
<1>2. CASE Judge
  BY <1>2, JudgeKeepsTolerated
<1> QED
  BY <1>1, <1>2, VerdictFrame

\* No object passes two verdicts in a row while the same check of it fails at
\* both, whichever checks come before it and end the judgement early; the one
\* exception are checks whose uint8_t pre-counter has wrapped.
THEOREM NeverTwiceAccepted == Spec => TwoMissesNeverBothValid
<1>1. Init => ToleratedInv
  BY WidthAssumption DEF Init, ToleratedInv, PreOK, Tolerated
<1>2. ToleratedInv /\ [Next]_vars => ToleratedInv'
  BY ToleratedInductive
<1>3. ToleratedInv /\ [Next]_vars =>
        [ProcessRequest /\ Judged =>
           \A m \in Modules : imageValid[m] /\ imageValid'[m] =>
             lastBad[m] \cap lastBad'[m] \subseteq wrapped']_vars
  <2> SUFFICES ASSUME ToleratedInv, [Next]_vars, ProcessRequest, Judged,
                      NEW m \in Modules, imageValid[m], imageValid'[m],
                      NEW c \in lastBad[m] \cap lastBad'[m]
               PROVE  c \in wrapped'
    OBVIOUS
  <2>1. Judge
    BY DEF ProcessRequest, ProcessRequestMain, ProcessRequestMon,
           CheckProcessImage
  <2>2. c \in ChecksOf(m) /\ Bad(c) /\ c \notin Tripped(m)
    BY <2>1, ValidVerdict
  <2>3. c \in Checks
    BY <2>2 DEF ChecksOf
  <2>4. ~(Bumped(c) >= 2)
    BY <2>2 DEF Tripped, Trips, CAN_SYNC_VALID_PRE_NR
  <2>5. pre[c] # 1
    BY <2>3, <2>4, BumpedRange DEF ToleratedInv
  <2>6. c \in wrapped
    BY <2>5 DEF ToleratedInv, Tolerated
  <2> QED
    BY <2>1, <2>6 DEF Judge
<1> QED
  BY <1>1, <1>2, <1>3, PTL DEF Spec, TwoMissesNeverBothValid

-----------------------------------------------------------------------------
(***************************************************************************)
(* Types, one lemma per handler; in particular no count leaves its bound   *)
(* and no verdict or flag is recorded of an unknown module or check.       *)
(***************************************************************************)
LEMMA MainIsANode == "main" \in Nodes
  BY DEF Nodes

LEMMA FlagKinds ==
  /\ \A c \in Checks : c.kind \in Flags
  /\ \A m : Reason(m) \subseteq Flags
<1>1. \A c \in Checks : c.kind \in Flags
  BY DEF Checks, Check, Flags
<1> QED
  BY <1>1 DEF Reason, Tripped, ChecksOf

LEMMA ObjModule == \A x \in RxObjs \cup TxObjs : x[1] \in Modules
  BY DEF RxObjs, TxObjs, Objs

\* A handler that latches an error leaves flags of known kinds only.
LEMMA EvaluateErrorType ==
  ASSUME TypeOK, NEW m \in Modules, NEW flag \in Flags, EvaluateError(m, flag)
  PROVE  /\ errFlags' \in [Modules -> SUBSET Flags]
         /\ reported' \in [Modules -> SUBSET Flags]
  BY DEF EvaluateError, TypeOK

LEMMA RxDataType ==
  ASSUME TypeOK, NEW n \in Nodes, NEW x \in RxObjs, NEW ok \in DlcOks,
         NEW d \in Data, RxData(n, x, ok, d)
  PROVE  TypeOK'
<1>1. CASE ok
  <2>1. rxCnt[n] \in [RxObjs -> 0 .. MaxCnt] /\ rxData[n] \in [RxObjs -> Data]
    BY DEF TypeOK
  <2>2. rxCnt[n][x] + 1 \in 0 .. MaxCnt
    <3>1. rxCnt[n][x] \in 0 .. MaxCnt /\ rxCnt[n][x] < MaxCnt
      BY <1>1, <2>1 DEF RxData
    <3> QED
      BY <3>1, CntAssumption
  <2>3. [rxCnt[n] EXCEPT ![x] = rxCnt[n][x] + 1] \in [RxObjs -> 0 .. MaxCnt]
    BY <2>1, <2>2
  <2>4. rxCnt' = [rxCnt EXCEPT ![n] = [rxCnt[n] EXCEPT ![x] = rxCnt[n][x] + 1]]
    BY <1>1 DEF RxData
  <2>5. rxCnt' \in [Nodes -> [RxObjs -> 0 .. MaxCnt]]
    BY <2>3, <2>4 DEF TypeOK
  <2>6. rxData' = [rxData EXCEPT ![n] = [rxData[n] EXCEPT ![x] = d]]
    BY <1>1 DEF RxData
  <2>7. rxData' \in [Nodes -> [RxObjs -> Data]]
    BY <2>1, <2>6 DEF TypeOK
  <2>8. UNCHANGED <<errFlags, reported>>
    BY <1>1 DEF RxData
  <2> QED
    BY <2>5, <2>7, <2>8 DEF RxData, TypeOK, verdict, hist
<1>2. CASE ~ok
  <2>1. UNCHANGED <<rxData, rxCnt>>
    BY <1>2 DEF RxData
  <2>2. PICK flag \in Flags : EvaluateError(x[1], flag)
    BY <1>2 DEF RxData, Flags
  <2>3. x[1] \in Modules
    BY ObjModule
  <2> QED
    BY <2>1, <2>2, <2>3, EvaluateErrorType DEF RxData, TypeOK, verdict, hist
<1> QED
  BY <1>1, <1>2

LEMMA MonTxDataType ==
  ASSUME TypeOK, NEW x \in TxObjs, NEW ok \in DlcOks, NEW d \in Data,
         MonTxData(x, ok, d)
  PROVE  TypeOK'
<1>1. txCnt' \in [TxObjs -> 0 .. MaxCnt]
  BY CntAssumption DEF MonTxData, TypeOK
<1>2. errFlags' \in [Modules -> SUBSET Flags]
  BY ObjModule DEF MonTxData, EvaluateError, TypeOK, Flags
<1>3. reported' \in [Modules -> SUBSET Flags]
  BY ObjModule DEF MonTxData, EvaluateError, TypeOK, Flags
<1> QED
  BY <1>1, <1>2, <1>3 DEF MonTxData, TypeOK, verdict, hist

\* What a process request does before the node's own counter.
LEMMA CheckType ==
  ASSUME TypeOK, CheckProcessImage
  PROVE  /\ rxCnt' \in [Nodes -> [RxObjs -> 0 .. MaxCnt]]
         /\ txCnt' \in [TxObjs -> 0 .. MaxCnt]
         /\ pre' \in [Checks -> 0 .. PreMod - 1]
         /\ errFlags' \in [Modules -> SUBSET Flags]
         /\ reported' \in [Modules -> SUBSET Flags]
         /\ imageValid' \in [Modules -> BOOLEAN]
         /\ lastBad' \in [Modules -> SUBSET Checks]
         /\ wrapped' \in SUBSET Checks
<1>1. ASSUME NEW S, NEW cnt \in [S -> 0 .. MaxCnt]
      PROVE  Cleared(cnt) \in [S -> 0 .. MaxCnt]
  BY CntAssumption DEF Cleared
<1>2. rxCnt' \in [Nodes -> [RxObjs -> 0 .. MaxCnt]]
  BY <1>1 DEF CheckProcessImage, TypeOK
<1>3. txCnt' \in [TxObjs -> 0 .. MaxCnt]
  BY <1>1 DEF CheckProcessImage, TypeOK
<1>4. CASE ~Judged
  BY <1>2, <1>3, <1>4 DEF CheckProcessImage, verdict, hist, TypeOK
<1>5. CASE Judged
  <2>1. Judge
    BY <1>5 DEF CheckProcessImage
  <2>2. pre' \in [Checks -> 0 .. PreMod - 1]
    BY <2>1, JudgeKeepsPre DEF TypeOK
  <2>3. errFlags' \in [Modules -> SUBSET Flags]
    BY <2>1 DEF Judge
  <2>4. reported' \in [Modules -> SUBSET Flags]
    BY <2>1, FlagKinds DEF Judge, TypeOK
  <2>5. imageValid' \in [Modules -> BOOLEAN]
    BY <2>1 DEF Judge, Correct
  <2>6. lastBad' \in [Modules -> SUBSET Checks] /\ wrapped' \in SUBSET Checks
    BY <2>1 DEF Judge, ChecksOf, TypeOK
  <2> QED
    BY <1>2, <1>3, <2>2, <2>3, <2>4, <2>5, <2>6
<1> QED
  BY <1>4, <1>5

LEMMA RequestType ==
  ASSUME TypeOK, NEW n \in Nodes, NEW long \in BOOLEAN, Request(n, long)
  PROVE  pr' \in [Nodes -> [flag : BOOLEAN, cnt : 0 .. MaxCnt, long : BOOLEAN]]
<1> DEFINE cnt(k) == IF Ready THEN 0 ELSE pr[k].cnt
<1>1. \A k \in Nodes : cnt(k) \in 0 .. MaxCnt
  BY CntAssumption DEF TypeOK
<1>2. cnt(n) + 1 \in 0 .. MaxCnt
  <2>1. cnt(n) \in 0 .. MaxCnt
    BY <1>1
  <2>2. cnt(n) < MaxCnt
    BY DEF Request
  <2> HIDE DEF cnt
  <2> QED
    BY <2>1, <2>2, CntAssumption
<1>3. ASSUME NEW k \in Nodes
      PROVE  [pr[k] EXCEPT !.flag = @ /\ ~Ready, !.cnt = cnt(k)]
               \in [flag : BOOLEAN, cnt : 0 .. MaxCnt, long : BOOLEAN]
  <2>1. cnt(k) \in 0 .. MaxCnt
    BY <1>1
  <2>2. pr[k] \in [flag : BOOLEAN, cnt : 0 .. MaxCnt, long : BOOLEAN]
    BY DEF TypeOK
  <2>3. (pr[k].flag /\ ~Ready) \in BOOLEAN
    OBVIOUS
  <2> DEFINE flag == pr[k].flag /\ ~Ready
             c    == cnt(k)
  <2> HIDE DEF cnt, flag, c
  <2>4. c \in 0 .. MaxCnt /\ flag \in BOOLEAN
    BY <2>1, <2>3 DEF c, flag
  <2>5. [pr[k] EXCEPT !.flag = flag, !.cnt = c]
          \in [flag : BOOLEAN, cnt : 0 .. MaxCnt, long : BOOLEAN]
    BY <2>2, <2>4
  <2> QED
    BY <2>5 DEF c, flag
<1>4. [flag |-> TRUE, cnt |-> cnt(n) + 1, long |-> long]
        \in [flag : BOOLEAN, cnt : 0 .. MaxCnt, long : BOOLEAN]
  BY <1>2
<1> HIDE DEF cnt
<1> QED
  BY <1>3, <1>4 DEF Request, cnt

LEMMA ProcessRequestType ==
  ASSUME TypeOK, ProcessRequest
  PROVE  TypeOK'
<1>1. PICK long \in Longs : \/ \E app \in [TxObjs -> Data] :
                                 ProcessRequestMain(long, app)
                            \/ ProcessRequestMon(long)
  BY DEF ProcessRequest
<1>2. long \in BOOLEAN
  BY <1>1 DEF Longs
<1>3. CheckProcessImage
  BY <1>1 DEF ProcessRequestMain, ProcessRequestMon
<1>4. pr' \in [Nodes -> [flag : BOOLEAN, cnt : 0 .. MaxCnt, long : BOOLEAN]]
  <2>1. \E n \in Nodes : Request(n, long)
    BY <1>1, MainIsANode DEF ProcessRequestMain, ProcessRequestMon, Nodes
  <2> QED
    BY <2>1, <1>2, RequestType
<1>5. txData' \in [TxObjs -> Data]
  BY <1>1 DEF ProcessRequestMain, ProcessRequestMon, TypeOK
<1>6. rxData' = rxData /\ off' = off
  BY <1>1 DEF ProcessRequestMain, ProcessRequestMon
<1> QED
  BY <1>3, <1>4, <1>5, <1>6, CheckType DEF TypeOK

LEMMA SwitchType ==
  ASSUME TypeOK, NEW m \in Modules, SyncOff(m) \/ SyncOn(m)
  PROVE  TypeOK'
<1>1. off' \in [Modules -> BOOLEAN]
  BY DEF SyncOff, SyncOn, TypeOK
<1>2. rxData' \in [Nodes -> [RxObjs -> Data]]
  <2>1. rxData["main"] \in [RxObjs -> Data]
    BY MainIsANode DEF TypeOK
  <2>2. [x \in RxObjs |-> IF x[1] = m THEN CLEAR ELSE rxData["main"][x]]
          \in [RxObjs -> Data]
    BY <2>1, DataAssumption
  <2> QED
    BY <2>2 DEF SyncOff, SyncOn, TypeOK
<1> QED
  BY <1>1, <1>2 DEF SyncOff, SyncOn, TypeOK, prVars, verdict, hist

\* Every reachable state of the supervision has the types of TypeOK.
THEOREM TypeCorrect == Spec => []TypeOK
<1>1. Init => TypeOK
  <2> SUFFICES ASSUME Init PROVE TypeOK
    OBVIOUS
  <2>1. pr \in [Nodes -> [flag : BOOLEAN, cnt : 0 .. MaxCnt, long : BOOLEAN]]
    BY CntAssumption DEF Init, NoRequest
  <2>2. /\ rxCnt \in [Nodes -> [RxObjs -> 0 .. MaxCnt]]
        /\ txCnt \in [TxObjs -> 0 .. MaxCnt]
        /\ pre \in [Checks -> 0 .. PreMod - 1]
    BY CntAssumption, WidthAssumption DEF Init
  <2>3. /\ rxData \in [Nodes -> [RxObjs -> Data]]
        /\ txData \in [TxObjs -> Data]
    BY DataAssumption DEF Init
  <2>4. /\ errFlags \in [Modules -> SUBSET Flags]
        /\ reported \in [Modules -> SUBSET Flags]
        /\ imageValid \in [Modules -> BOOLEAN]
        /\ off \in [Modules -> BOOLEAN]
        /\ lastBad \in [Modules -> SUBSET Checks]
        /\ wrapped \in SUBSET Checks
    BY DEF Init
  <2> QED
    BY <2>1, <2>2, <2>3, <2>4 DEF TypeOK
<1>2. TypeOK /\ [Next]_vars => TypeOK'
  <2> SUFFICES ASSUME TypeOK, [Next]_vars PROVE TypeOK'
    OBVIOUS
  <2>1. CASE Receive
    BY <2>1, RxDataType DEF Receive
  <2>2. CASE LoopBack
    BY <2>2, MonTxDataType DEF LoopBack
  <2>3. CASE ProcessRequest
    BY <2>3, ProcessRequestType
  <2>4. CASE Switch
    BY <2>4, SwitchType DEF Switch
  <2>5. CASE UNCHANGED vars
    BY <2>5 DEF vars, prVars, verdict, hist, TypeOK
  <2> QED
    BY <2>1, <2>2, <2>3, <2>4, <2>5 DEF Next
<1> QED
  BY <1>1, <1>2, PTL DEF Spec
-----------------------------------------------------------------------------
(***************************************************************************)
(* A latched error flag is dropped by the clearing of Judge alone, and the *)
(* verdict given with it sees the flag.                                    *)
(***************************************************************************)
FlagsKept(m) ==
  errFlags[m] \subseteq errFlags'[m] \/ (ProcessRequest /\ ~imageValid'[m])

LEMMA LatchKeeps ==
  ASSUME TypeOK, NEW x \in RxObjs \cup TxObjs, NEW flag, NEW m \in Modules,
         EvaluateError(x[1], flag)
  PROVE  errFlags[m] \subseteq errFlags'[m]
  BY ObjModule DEF EvaluateError, TypeOK

LEMMA RequestKeepsFlags ==
  ASSUME ProcessRequest, NEW m \in Modules
  PROVE  FlagsKept(m)
<1>1. CheckProcessImage
  BY DEF ProcessRequest, ProcessRequestMain, ProcessRequestMon
<1>2. CASE Judged
  <2>1. Judge
    BY <1>1, <1>2 DEF CheckProcessImage
  <2>2. CASE errFlags[m] = {}
    BY <2>2 DEF FlagsKept
  <2>3. CASE errFlags[m] # {}
    BY <2>1, <2>3 DEF FlagsKept, Judge, Correct
  <2> QED
    BY <2>2, <2>3
<1>3. CASE ~Judged
  BY <1>1, <1>3 DEF CheckProcessImage, FlagsKept
<1> QED
  BY <1>2, <1>3

\* An error a handler met stays latched until a verdict calls the image not
\* valid: over requests without a verdict, and over the module being switched
\* off and on.
THEOREM FlaggedErrorKept == Spec => FlaggedErrorReachesVerdict
<1>1. TypeOK /\ [Next]_vars => [\A m \in Modules : FlagsKept(m)]_vars
  <2> SUFFICES ASSUME TypeOK, Next, NEW m \in Modules
               PROVE  FlagsKept(m)
    OBVIOUS
  <2>1. ASSUME NEW n \in Nodes, NEW x \in RxObjs, NEW ok \in DlcOks, NEW d \in Data,
               RxData(n, x, ok, d)
        PROVE  FlagsKept(m)
    BY <2>1, LatchKeeps DEF RxData, FlagsKept
  <2>2. ASSUME NEW x \in TxObjs, NEW ok \in DlcOks, NEW d \in Data,
               MonTxData(x, ok, d)
        PROVE  FlagsKept(m)
    BY <2>2, LatchKeeps DEF MonTxData, FlagsKept
  <2>3. ASSUME NEW k \in Modules, SyncOff(k) \/ SyncOn(k)
        PROVE  FlagsKept(m)
    BY <2>3 DEF SyncOff, SyncOn, FlagsKept
  <2> QED
    BY <2>1, <2>2, <2>3, RequestKeepsFlags DEF Next, Receive, LoopBack, Switch
<1> QED
  BY <1>1, TypeCorrect, PTL DEF Spec, FlaggedErrorReachesVerdict, FlagsKept
=============================================================================
