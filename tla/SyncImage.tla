------------------------------ MODULE SyncImage -------------------------------
(***************************************************************************)
(* The supervision of the synchronous process image, source/sync: what the *)
(* slave receives from the master over the main CAN controller and, in the *)
(* LI_CAN_SLV_MON build, a second time over the monitor controller is      *)
(* counted and compared, and at the next process request every logical     *)
(* module's image is declared valid or not valid to the application.       *)
(*                                                                         *)
(* One action per call of the receive handlers (can_sync_handler_rx and    *)
(* can_sync_handler_rx_mon), each run to its end, with any frame a node    *)
(* can present.  SyncBus puts the bus and the master around it.            *)
(***************************************************************************)
EXTENDS Integers

CONSTANTS Modules,    \* table positions of the configured logical modules
          NrRx,       \* rx_obj of each module
          NrTx,       \* tx_obj of each module
          Monitor,    \* built with LI_CAN_SLV_MON
          Data,       \* the contents an object can carry
          CLEAR,      \* the cleared contents, all zero
          PreMod,     \* 2^8: the pre-counters are uint8_t
          MaxCnt,     \* bound: receptions counted between two clears
          DlcFaults,  \* data objects with a wrong DLC occur
          LongPr,     \* process requests with a DLC above 1 occur
          Switching   \* modules are switched off and on

ASSUME ObjAssumption == NrRx \in [Modules -> Nat] /\ NrTx \in [Modules -> Nat]
ASSUME DataAssumption == CLEAR \in Data /\ Monitor \in BOOLEAN
ASSUME WidthAssumption == PreMod \in Nat /\ PreMod > 2
ASSUME CntAssumption == MaxCnt \in Nat /\ MaxCnt >= 2

VARIABLES pr,          \* per node: main_/mon_pr_flag, _pr_cnt, and _pr_dlc > 1
          rxCnt,       \* per node: main_rx_cnt, mon_rx_cnt
          txCnt,       \* mon_tx_cnt
          rxData,      \* main: the application's data; mon: data_mon_rx
          txData,      \* can_sync_data_main_tx, captured when sending
          pre,         \* the pre-counters of can_sync.err
          errFlags,    \* can_sync_error_flags
          reported,    \* can_sync_error_flags_message_active
          imageValid,  \* image_valid
          off,         \* can_config_module_sync_deactivated_tab
          lastBad,     \* history: what was bad when the module was last judged
          wrapped      \* history: checks whose pre-counter has wrapped to 0

prVars  == <<pr, rxCnt, txCnt>>
hist    == <<lastBad, wrapped>>
verdict == <<pre, imageValid, hist>>
vars    == <<prVars, rxData, txData, verdict, errFlags, reported, off>>

Nodes == IF Monitor THEN {"main", "mon"} ELSE {"main"}

Objs(nr) == UNION {{m} \X (0 .. nr[m] - 1) : m \in Modules}
RxObjs   == Objs(NrRx)
TxObjs   == Objs(NrTx)

CAN_SYNC_VALID_PRE_NR == 2

Flags == {"MAIN_RX_DLC", "MON_RX_DLC", "MON_TX_DLC", "MAIN_MON_RX_DATA",
          "MAIN_MON_TX_DATA", "MAIN_RX_MISSING", "MON_RX_MISSING",
          "MON_TX_MISSING"}

(***************************************************************************)
(* The checks of li_can_slv_sync_check_process_image_module: one for each  *)
(* object and pre-counter, in the order the code makes them.               *)
(***************************************************************************)
Check(kind, obj) == [kind |-> kind, obj |-> obj]

Checks ==
  {Check("MAIN_RX_MISSING", x) : x \in RxObjs} \cup
  (IF Monitor
   THEN {Check("MON_TX_MISSING", x) : x \in TxObjs} \cup
        {Check(k, x) : k \in {"MON_RX_MISSING", "MAIN_MON_RX_DATA"}, x \in RxObjs}
   ELSE {})

KindRank == [k \in {"MAIN_RX_MISSING", "MON_RX_MISSING", "MAIN_MON_RX_DATA"} |->
               CASE k = "MAIN_RX_MISSING" -> 0
                 [] k = "MON_RX_MISSING"  -> 1
                 [] OTHER                 -> 2]

Rank(c) == IF c.kind = "MON_TX_MISSING"
           THEN c.obj[2]
           ELSE NrTx[c.obj[1]] + 3 * c.obj[2] + KindRank[c.kind]

\* A module that is switched off has rx_obj_sync = tx_obj_sync = 0.
ChecksOf(m) == {c \in Checks : c.obj[1] = m /\ ~off[m]}

Bad(c) == \/ c.kind = "MON_TX_MISSING" /\ txCnt[c.obj] # 1
          \/ c.kind = "MAIN_RX_MISSING" /\ rxCnt["main"][c.obj] # 1
          \/ c.kind = "MON_RX_MISSING" /\ rxCnt["mon"][c.obj] # 1
          \/ c.kind = "MAIN_MON_RX_DATA"
             /\ rxData["main"][c.obj] # rxData["mon"][c.obj]

\* A pre-counter that is not uint8_t and never wraps.
MutantBumped(c) == pre[c] + 1

Bumped(c)  == (pre[c] + 1) % PreMod
\* Compared with > instead of >=.
MutantTrips(c) == Bad(c) /\ Bumped(c) > CAN_SYNC_VALID_PRE_NR

Trips(c)   == Bad(c) /\ Bumped(c) >= CAN_SYNC_VALID_PRE_NR
Tripped(m) == {c \in ChecksOf(m) : Trips(c)}

\* The function returns at the first check that trips; later ones are skipped.
Evaluated(m) == {c \in ChecksOf(m) : \A d \in Tripped(m) : Rank(c) <= Rank(d)}
Reason(m)    == {c.kind : c \in Tripped(m) \cap Evaluated(m)}

\* The verdict on module m: no error was met, by the checks or before them.
Correct(m) == errFlags[m] = {} /\ Tripped(m) = {}

-----------------------------------------------------------------------------
TypeOK ==
  /\ pr \in [Nodes -> [flag : BOOLEAN, cnt : 0 .. MaxCnt, long : BOOLEAN]]
  /\ rxCnt \in [Nodes -> [RxObjs -> 0 .. MaxCnt]]
  /\ txCnt \in [TxObjs -> 0 .. MaxCnt]
  /\ rxData \in [Nodes -> [RxObjs -> Data]]
  /\ txData \in [TxObjs -> Data]
  /\ pre \in [Checks -> 0 .. PreMod - 1]
  /\ errFlags \in [Modules -> SUBSET Flags]
  /\ reported \in [Modules -> SUBSET Flags]
  /\ imageValid \in [Modules -> BOOLEAN]
  /\ off \in [Modules -> BOOLEAN]
  /\ lastBad \in [Modules -> SUBSET Checks]
  /\ wrapped \in SUBSET Checks

NoRequest == [flag |-> FALSE, cnt |-> 0, long |-> FALSE]

\* can_sync_init, after which no image has been judged.
Init ==
  /\ pr = [n \in Nodes |-> NoRequest]
  /\ rxCnt = [n \in Nodes |-> [x \in RxObjs |-> 0]]
  /\ txCnt = [x \in TxObjs |-> 0]
  /\ rxData = [n \in Nodes |-> [x \in RxObjs |-> CLEAR]]
  /\ txData = [x \in TxObjs |-> CLEAR]
  /\ pre = [c \in Checks |-> 0]
  /\ errFlags = [m \in Modules |-> {}]
  /\ reported = [m \in Modules |-> {}]
  /\ imageValid = [m \in Modules |-> FALSE]
  /\ off = [m \in Modules |-> FALSE]
  /\ lastBad = [m \in Modules |-> {}]
  /\ wrapped = {}

(***************************************************************************)
(* li_can_sync_evaluate_error: latch the flag for the next verdict, report *)
(* it to the error queue the first time it is seen.                        *)
(***************************************************************************)
EvaluateError(m, flag) ==
  /\ errFlags' = [errFlags EXCEPT ![m] = @ \cup {flag}]
  /\ reported' = [reported EXCEPT ![m] = @ \cup {flag}]

(***************************************************************************)
(* can_sync_rx_data_main and can_sync_rx_data_mon: a data object of the    *)
(* master, with or without the configured DLC, arrives on a node.          *)
(***************************************************************************)
RxData(n, x, dlcOk, d) ==
  /\ ~off[x[1]]
  /\ IF dlcOk
     THEN /\ rxCnt[n][x] < MaxCnt
          /\ rxData' = [rxData EXCEPT ![n][x] = d]
          /\ rxCnt' = [rxCnt EXCEPT ![n][x] = @ + 1]
          /\ UNCHANGED <<errFlags, reported>>
     ELSE /\ EvaluateError(x[1], IF n = "main" THEN "MAIN_RX_DLC"
                                               ELSE "MON_RX_DLC")
          /\ UNCHANGED <<rxData, rxCnt>>
  /\ UNCHANGED <<pr, txCnt, txData, verdict, off>>

(***************************************************************************)
(* can_sync_tx_data_mon: an object this slave has sent comes back over the *)
(* monitor node.  A switched-off module's tx_dlc_sync is 0, so its objects *)
(* are then taken for wrong ones.                                          *)
(***************************************************************************)
MonTxData(x, dlcOk, d) ==
  /\ Monitor
  /\ \/ /\ dlcOk /\ ~off[x[1]] /\ d = txData[x]
        /\ txCnt[x] < MaxCnt
        /\ txCnt' = [txCnt EXCEPT ![x] = @ + 1]
        /\ UNCHANGED <<errFlags, reported>>
     \/ /\ dlcOk /\ ~off[x[1]] /\ d # txData[x]
        /\ EvaluateError(x[1], "MAIN_MON_TX_DATA")
        /\ UNCHANGED txCnt
     \/ /\ ~dlcOk \/ off[x[1]]
        /\ EvaluateError(x[1], "MON_TX_DLC")
        /\ UNCHANGED txCnt
  /\ UNCHANGED <<pr, rxCnt, rxData, txData, verdict, off>>

(***************************************************************************)
(* li_can_slv_sync_check_process_image.                                    *)
(***************************************************************************)
Ready  == \A n \in Nodes : pr[n].flag
Judged == Ready /\ \A n \in Nodes : ~pr[n].long /\ pr[n].cnt = 1

\* The error flags are not cleared after the verdict.
MutantJudge ==
  /\ pre' = [c \in Checks |->
               IF c \notin Evaluated(c.obj[1]) THEN pre[c]
               ELSE IF Bad(c) THEN Bumped(c) ELSE 0]
  /\ imageValid' = [m \in Modules |-> Correct(m)]
  /\ UNCHANGED errFlags
  /\ reported' = [m \in Modules |-> reported[m] \cup Reason(m)]
  /\ lastBad' = [m \in Modules |-> {c \in ChecksOf(m) : Bad(c)}]
  /\ wrapped' = wrapped

Judge ==
  /\ pre' = [c \in Checks |->
               IF c \notin Evaluated(c.obj[1]) THEN pre[c]
               ELSE IF Bad(c) THEN Bumped(c) ELSE 0]
  /\ imageValid' = [m \in Modules |-> Correct(m)]
  /\ errFlags' = [m \in Modules |-> {}]
  /\ reported' = [m \in Modules |-> reported[m] \cup Reason(m)]
  /\ lastBad' = [m \in Modules |-> {c \in ChecksOf(m) : Bad(c)}]
  /\ wrapped' = wrapped \cup {c \in Checks : /\ c \in Evaluated(c.obj[1])
                                             /\ Bad(c) /\ Bumped(c) = 0}

\* The counters run on.
MutantCleared(cnt) == cnt

\* li_can_slv_sync_clear_process_image visits rx_obj_sync and tx_obj_sync
\* objects: none of a module that is switched off.
Cleared(cnt) == [x \in DOMAIN cnt |-> IF off[x[1]] THEN cnt[x] ELSE 0]

\* The error flags are cleared with the counters, verdict or not.
MutantCheckProcessImage ==
  /\ IF Judged THEN Judge
     ELSE /\ UNCHANGED <<verdict, reported>>
          /\ errFlags' = IF Ready THEN [m \in Modules |-> {}] ELSE errFlags
  /\ IF Ready
     THEN /\ rxCnt' = [n \in Nodes |-> Cleared(rxCnt[n])]
          /\ txCnt' = Cleared(txCnt)
     ELSE UNCHANGED <<rxCnt, txCnt>>

CheckProcessImage ==
  /\ IF Judged THEN Judge ELSE UNCHANGED <<verdict, errFlags, reported>>
  /\ IF Ready
     THEN /\ rxCnt' = [n \in Nodes |-> Cleared(rxCnt[n])]
          /\ txCnt' = Cleared(txCnt)
     ELSE UNCHANGED <<rxCnt, txCnt>>

\* can_sync_rx_process_main and can_sync_rx_process_mon, after the check.
Request(n, long) ==
  LET cnt(k) == IF Ready THEN 0 ELSE pr[k].cnt
  IN  /\ cnt(n) < MaxCnt
      /\ pr' = [k \in Nodes |->
                  IF k = n
                  THEN [flag |-> TRUE, cnt |-> cnt(k) + 1, long |-> long]
                  ELSE [pr[k] EXCEPT !.flag = @ /\ ~Ready, !.cnt = cnt(k)]]

(***************************************************************************)
(* The process request on the main node: check, then send the application's*)
(* data, captured by can_sync_tx_data_main for the comparison; a module    *)
(* that is switched off is not sent.                                       *)
(***************************************************************************)
ProcessRequestMain(long, app) ==
  /\ CheckProcessImage
  /\ Request("main", long)
  /\ txData' = [x \in TxObjs |-> IF off[x[1]] THEN txData[x] ELSE app[x]]
  /\ UNCHANGED <<rxData, off>>

ProcessRequestMon(long) ==
  /\ Monitor
  /\ CheckProcessImage
  /\ Request("mon", long)
  /\ UNCHANGED <<rxData, txData, off>>

(***************************************************************************)
(* can_config_sync_off (module silent or critical) and can_config_sync_on. *)
(* Off clears the application's receive data; counters keep their values.  *)
(***************************************************************************)
SyncOff(m) ==
  /\ off' = [off EXCEPT ![m] = TRUE]
  /\ rxData' = [rxData EXCEPT !["main"] =
                  [x \in RxObjs |-> IF x[1] = m THEN CLEAR ELSE @[x]]]
  /\ UNCHANGED <<prVars, txData, verdict, errFlags, reported>>

SyncOn(m) ==
  /\ off' = [off EXCEPT ![m] = FALSE]
  /\ UNCHANGED <<prVars, rxData, txData, verdict, errFlags, reported>>

-----------------------------------------------------------------------------
DlcOks == {TRUE} \cup (IF DlcFaults THEN {FALSE} ELSE {})
Longs  == {FALSE} \cup (IF LongPr THEN {TRUE} ELSE {})

Receive == \E n \in Nodes, x \in RxObjs, ok \in DlcOks, d \in Data :
             RxData(n, x, ok, d)
LoopBack == \E x \in TxObjs, ok \in DlcOks, d \in Data : MonTxData(x, ok, d)
ProcessRequest ==
  \E long \in Longs :
    \/ \E app \in [TxObjs -> Data] : ProcessRequestMain(long, app)
    \/ ProcessRequestMon(long)
Switch == Switching /\ \E m \in Modules : SyncOff(m) \/ SyncOn(m)

Next == Receive \/ LoopBack \/ ProcessRequest \/ Switch

Spec == Init /\ [][Next]_vars

-----------------------------------------------------------------------------
\* What the pre-counters promise: an object that is missing, doubled or
\* different between the nodes may pass one verdict (CAN_SYNC_VALID_PRE_NR),
\* but never two verdicts in a row, whatever other checks fail in between;
\* except for a check whose uint8_t counter has gone round.
TwoMissesNeverBothValid ==
  [][ProcessRequest /\ Judged =>
       \A m \in Modules : imageValid[m] /\ imageValid'[m] =>
         lastBad[m] \cap lastBad'[m] \subseteq wrapped']_vars

\* An error met by a handler (wrong DLC, loop-back with other contents) is not
\* forgotten over process requests that end without a verdict: its flag stays
\* until a verdict calls the image not valid.
FlaggedErrorReachesVerdict ==
  [][\A m \in Modules :
       errFlags[m] \subseteq errFlags'[m] \/ (ProcessRequest /\ ~imageValid'[m])]_vars
=============================================================================
