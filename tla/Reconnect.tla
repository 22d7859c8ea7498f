------------------------------ MODULE Reconnect -------------------------------
(***************************************************************************)
(* Autobaud of the main node, source/core/io_can_reconnect.c: at start-up  *)
(* and after bus errors the slave listens at one baud rate after the other *)
(* until it hears a message, and connects at that rate.                    *)
(*                                                                         *)
(* The application's task starts the slave and polls the error handler,    *)
(* can_main_hw_handler_error, which drives the search; the receive         *)
(* interrupt comes at any time and leaves a note (main_node_msg_pending).  *)
(* The handler is cut where the interrupt matters: before the rate is      *)
(* changed on entering the search, and between reading the note and acting *)
(* on it.  Controller, bus and timers are the environment.                 *)
(***************************************************************************)
EXTENDS Integers, Sequences

CONSTANTS BdrTable,      \* can_reconnect_bdr_table
          StartupRates,  \* baud rates the application starts with
          NR_LEC_BIT0,   \* CAN_RECONNECT_BDR_DETECT_NR_LEC_BIT0
          Restarts,      \* the application starts the slave more than once
          DLOAD          \* built with LI_CAN_SLV_DLOAD

Rates == {BdrTable[i] : i \in 1 .. Len(BdrTable)}

\* The driver's table (can_main_hw_default_baudrate_table) has these rates too.
ASSUME TableAssumption == BdrTable \in Seq(Nat \ {0}) /\ Len(BdrTable) > 0
ASSUME StartupAssumption == StartupRates \subseteq Rates
ASSUME Bit0Assumption == NR_LEC_BIT0 \in Nat \ {0} /\ Restarts \in BOOLEAN
ASSUME BuildAssumption == DLOAD \in BOOLEAN

VARIABLES state,        \* can_reconnect.state
          cause,        \* can_reconnect.cause
          bdrIndex,     \* can_reconnect.bdr_index
          backBdr,      \* can_reconnect.back_bdr, 0 when never set
          lecBit0,      \* can_reconnect.lec_cnt_bit0
          idleCnt,      \* can_reconnect.idle_cnt
          startup,      \* can_config_bdr_startup
          slave,        \* lcsa_get_state
          pending,      \* li_can_slv_reconnect_main_node_msg_pending
          mode,         \* li_can_slv_mode, which the controller follows
          baud,         \* the controller's baud rate
          lec,          \* last error code the controller shows
          busState,     \* its error state
          startupOver,  \* whether can_reconnect.time has passed
          dwellOver,    \* whether time_next_bdr_change has passed
          pc,           \* where the error handler stands
          intid,        \* the arguments it has read for
          lecRead,      \*   li_can_slv_reconnect_process
          busRate,      \* baud rate of the traffic on the bus, 0 without any
          heard,        \* history: rate the last message was received at
          overtaken,    \* history: the rate was changed after that message
          tuned         \* history: the rate was changed since the start

search   == <<state, cause, bdrIndex, backBdr, lecBit0, idleCnt>>
ctrl     == <<mode, baud, lec, busState>>
timers   == <<startupOver, dwellOver>>
handler  == <<pc, intid, lecRead>>
hist     == <<heard, overtaken, tuned>>
vars     == <<search, startup, slave, pending, ctrl, timers, handler, busRate, hist>>

Searching == state # "OFF"
Started   == mode # "INIT"

Lecs == {"BIT0", "OTHER"}   \* OTHER: STUFF, FORM, ACK, BIT1, CRC

TypeOK ==
  /\ state \in {"OFF", "STARTUP", "ON", "IDLE"}
  /\ cause \in {"NO_TRAFFIC", "STARTUP", "EWRN", "BOFF"}
  /\ bdrIndex \in 1 .. Len(BdrTable)
  /\ backBdr \in Rates \cup {0}
  /\ lecBit0 \in 0 .. NR_LEC_BIT0
  /\ idleCnt \in 0 .. 3
  /\ startup \in Rates
  /\ slave \in {"INIT", "RECONNECT", "RUNNING"}
  /\ pending \in {"NONE", "LEC", "MSG"}
  /\ mode \in {"INIT", "LISTEN_ONLY", "OPERATIONAL"}
  /\ baud \in Rates
  /\ lec \in Lecs \cup {"NO_ERROR"}
  /\ busState \in {"ACTIVE", "PASSIVE", "OFF"}
  /\ startupOver \in BOOLEAN /\ dwellOver \in BOOLEAN
  /\ pc \in {"idle", "retune", "read", "process"}
  /\ intid \in {"NONE", "LEC", "MSG"}
  /\ lecRead \in Lecs \cup {"NO_ERROR"}
  /\ busRate \in Rates \cup {0}
  /\ heard \in Rates \cup {0}
  /\ overtaken \in BOOLEAN /\ tuned \in BOOLEAN

\* The static initialisers, the slave initialised with a rate and not started.
Init ==
  /\ state = "OFF" /\ cause = "NO_TRAFFIC"
  /\ bdrIndex = 1 /\ backBdr = 0 /\ lecBit0 = 0 /\ idleCnt = 0
  /\ startup \in StartupRates
  /\ slave = "INIT" /\ pending = "NONE"
  /\ mode = "INIT" /\ baud = startup
  /\ lec = "NO_ERROR" /\ busState = "ACTIVE"
  /\ startupOver = FALSE /\ dwellOver = FALSE
  /\ pc = "idle" /\ intid = "NONE" /\ lecRead = "NO_ERROR"
  /\ busRate \in Rates \cup {0}
  /\ heard = 0 /\ overtaken = FALSE /\ tuned = FALSE

-----------------------------------------------------------------------------
\* li_can_slv_set_node_mode by way of MODE_STOPPED: the error state is reset.
Enter(m) == mode' = m /\ lec' = "NO_ERROR" /\ busState' = "ACTIVE"

\* Starts the controller in its usual mode at the other rate.
MutantTune(b, m) ==
  /\ baud' = IF b \in Rates THEN b ELSE baud
  /\ Enter("OPERATIONAL")

\* li_can_slv_set_node_mode(MODE_STOPPED) and the new mode, at another rate; a
\* rate can_config_set_baudrate does not know (0) leaves the old one.
Tune(b, m) ==
  /\ baud' = IF b \in Rates THEN b ELSE baud
  /\ Enter(m)

(***************************************************************************)
(* can_reconnect_next_baudrate.                                            *)
(***************************************************************************)
\* A last index that is never reached.
MutantNextIndex == IF bdrIndex < Len(BdrTable) - 1 THEN bdrIndex + 1 ELSE 1

NextIndex == IF bdrIndex < Len(BdrTable) THEN bdrIndex + 1 ELSE 1

\* Remembers the rate it leaves.
MutantNextBaudrate ==
  /\ bdrIndex' = NextIndex
  /\ backBdr' = baud
  /\ Tune(BdrTable[NextIndex], "LISTEN_ONLY")
  /\ dwellOver' = FALSE /\ UNCHANGED startupOver
  /\ overtaken' = (pending = "MSG")
  /\ tuned' = TRUE
  /\ UNCHANGED heard

NextBaudrate ==
  /\ bdrIndex' = NextIndex
  /\ backBdr' = BdrTable[NextIndex]
  /\ Tune(BdrTable[NextIndex], "LISTEN_ONLY")
  /\ dwellOver' = FALSE /\ UNCHANGED startupOver
  /\ overtaken' = (pending = "MSG")
  /\ tuned' = TRUE
  /\ UNCHANGED heard

(***************************************************************************)
(* can_reconnect_on when a search is entered for c: the rate is changed    *)
(* next.                                                                   *)
(***************************************************************************)
\* Counts on where the last search ended.
MutantOn(c) ==
  /\ state' = "ON" /\ cause' = c
  /\ slave' = "RECONNECT"
  /\ UNCHANGED lecBit0

On(c) ==
  /\ state' = "ON" /\ cause' = c
  /\ slave' = "RECONNECT"
  /\ lecBit0' = 0

(***************************************************************************)
(* can_reconnect_off: connect at rate b, and go on with the slave's        *)
(* initialisation or operation, as the search had been entered for c.      *)
(***************************************************************************)
\* Leaves the search for the causes it looks for only.
MutantOff(b, c) ==
  /\ state' = IF c = "NO_TRAFFIC" THEN state ELSE "OFF"
  /\ Tune(b, "OPERATIONAL")
  /\ slave' = IF c \in {"STARTUP", "NO_TRAFFIC"} THEN "INIT" ELSE "RUNNING"
  /\ UNCHANGED <<pending, timers, hist>>

Off(b, c) ==
  /\ state' = "OFF"
  /\ Tune(b, "OPERATIONAL")
  /\ slave' = IF c \in {"STARTUP", "NO_TRAFFIC"} THEN "INIT" ELSE "RUNNING"
  /\ UNCHANGED <<pending, timers, hist>>

Stay == UNCHANGED <<ctrl, timers, backBdr, bdrIndex, hist>>

\* The end of lcsa_start: a build that can download sets the state RUNNING over
\* the RECONNECT of the search it has just begun, download or not.
LastState == IF DLOAD THEN "RUNNING" ELSE "RECONNECT"

(***************************************************************************)
(* lcsa_start, the first one or after lcsa_reinit(b), with no download     *)
(* pending: listen at the start-up rate.  can_reconnect keeps its other    *)
(* fields.                                                                 *)
(***************************************************************************)
Start(b) ==
  /\ pc = "idle"
  /\ \/ ~Started /\ b = startup
     \/ Started /\ Restarts
  /\ startup' = b
  /\ state' = "STARTUP" /\ cause' = "NO_TRAFFIC"
  /\ bdrIndex' = 1 /\ lecBit0' = 0
  /\ slave' = LastState
  /\ pending' = "NONE"
  /\ startupOver' = FALSE /\ dwellOver' = FALSE
  /\ Tune(b, "LISTEN_ONLY")
  /\ heard' = 0 /\ overtaken' = FALSE /\ tuned' = FALSE
  /\ UNCHANGED <<backBdr, idleCnt, handler, busRate>>

(***************************************************************************)
(* can_main_hw_handler_error.  A connected slave that meets an error, the  *)
(* error warning or bus off enters the search                              *)
(* (li_can_slv_reconnect_on_main_node_recovery and _online).               *)
(***************************************************************************)
Trouble == busState # "ACTIVE" \/ lec # "NO_ERROR"

EnterSearch ==
  /\ pc = "idle" /\ Started /\ ~Searching /\ Trouble
  /\ On(IF busState = "OFF" \/ lec # "NO_ERROR" THEN "BOFF" ELSE "EWRN")
  /\ Enter("LISTEN_ONLY")
  /\ pending' = "LEC"
  /\ pc' = "retune" /\ lecRead' = lec
  /\ overtaken' = FALSE
  /\ UNCHANGED <<bdrIndex, backBdr, idleCnt, startup, baud, timers, intid, busRate,
                 heard, tuned>>

Retune ==
  /\ pc = "retune"
  /\ NextBaudrate
  /\ pc' = "read"
  /\ UNCHANGED <<state, cause, lecBit0, idleCnt, startup, slave, pending, intid,
                 lecRead, busRate>>

\* The error code was read at the beginning of the call, the note is read now.
Read ==
  /\ Searching
  /\ \/ pc = "idle" /\ lecRead' = lec
     \/ pc = "read" /\ UNCHANGED lecRead
  /\ pc' = "process" /\ intid' = pending
  /\ UNCHANGED <<search, startup, slave, pending, ctrl, timers, busRate, hist>>

(***************************************************************************)
(* li_can_slv_reconnect_process, by state and by what was read.            *)
(* process_on_off is TRUE whenever the handler gets here.                  *)
(***************************************************************************)
Process(s) ==
  /\ pc = "process" /\ state = s
  /\ pc' = "idle" /\ intid' = "NONE" /\ lecRead' = "NO_ERROR"
  /\ UNCHANGED <<startup, busRate>>

StartupMessage ==
  /\ Process("STARTUP") /\ intid = "MSG"
  /\ cause' = "STARTUP"
  /\ Off(backBdr, "STARTUP")
  /\ UNCHANGED <<bdrIndex, backBdr, lecBit0, idleCnt>>

StartupTimeout ==
  /\ Process("STARTUP") /\ intid # "MSG" /\ startupOver
  /\ cause' = "NO_TRAFFIC"
  /\ backBdr' = startup
  /\ Off(startup, "NO_TRAFFIC")
  /\ UNCHANGED <<bdrIndex, lecBit0, idleCnt>>

\* Built with LI_CAN_SLV_RECONNECT_PROCESS_STARTUP_CHECK_LEC an error code ends
\* the start-up's silence.
StartupError ==
  /\ Process("STARTUP") /\ intid # "MSG" /\ ~startupOver
  /\ lecRead # "NO_ERROR"
  /\ On("STARTUP")
  /\ NextBaudrate
  /\ UNCHANGED <<idleCnt, pending>>

\* Built without it, or there is no error.
StartupSwitch ==
  /\ Process("STARTUP") /\ intid # "MSG" /\ ~startupOver
  /\ IF dwellOver THEN NextBaudrate ELSE Stay
  /\ UNCHANGED <<state, cause, lecBit0, idleCnt, slave, pending>>

OnMessage ==
  /\ Process("ON") /\ intid = "MSG"
  /\ Off(backBdr, cause)
  /\ UNCHANGED <<cause, bdrIndex, backBdr, lecBit0, idleCnt>>

\* Go to the next rate, if the time has passed, and wait there.
SwitchOn ==
  IF dwellOver
  THEN /\ NextBaudrate
       /\ state' = "IDLE" /\ idleCnt' = 0
  ELSE Stay /\ UNCHANGED <<state, idleCnt>>

OnSilence ==
  /\ Process("ON") /\ intid = "LEC" /\ lecRead = "NO_ERROR"
  /\ SwitchOn
  /\ lecBit0' = IF dwellOver THEN 0 ELSE lecBit0
  /\ UNCHANGED <<cause, slave, pending>>

OnError ==
  /\ Process("ON") /\ intid # "MSG" /\ lecRead = "OTHER"
  /\ SwitchOn
  /\ lecBit0' = 0
  /\ UNCHANGED <<cause, slave, pending>>

\* No interrupt since the start and no error: taken for the right rate.
OnNoError ==
  /\ Process("ON") /\ intid = "NONE" /\ lecRead = "NO_ERROR"
  /\ Off(backBdr, cause)
  /\ UNCHANGED <<cause, bdrIndex, backBdr, lecBit0, idleCnt>>

\* So is a series of bit-0 errors.
OnBit0 ==
  /\ Process("ON") /\ intid # "MSG" /\ lecRead = "BIT0"
  /\ lecBit0' = lecBit0 + 1
  /\ IF lecBit0' >= NR_LEC_BIT0
     THEN Off(backBdr, cause) /\ UNCHANGED <<bdrIndex, backBdr>>
     ELSE Stay /\ UNCHANGED <<state, slave, pending>>
  /\ UNCHANGED <<cause, idleCnt>>

Idle ==
  /\ Process("IDLE")
  /\ idleCnt' = idleCnt + 1
  /\ state' = IF idleCnt' > 2 THEN "ON" ELSE "IDLE"
  /\ Stay
  /\ UNCHANGED <<cause, lecBit0, slave, pending>>

-----------------------------------------------------------------------------
(***************************************************************************)
(* can_main_hw_handler_rx: only with a controller that listens at the      *)
(* bus's rate.  The note is left before the state is looked at.            *)
(***************************************************************************)
Rx ==
  /\ Started /\ baud = busRate
  /\ pending' = "MSG"
  /\ lec' = "NO_ERROR"
  /\ heard' = baud /\ overtaken' = FALSE
  /\ UNCHANGED <<search, startup, slave, mode, baud, busState, timers, handler,
                 busRate, tuned>>

\* At another rate the traffic is nothing but errors; a controller that only
\* listens does not count them and stays error active.
ErrorFrame(l, s) ==
  /\ Started /\ busRate \notin {0, baud}
  /\ s # "ACTIVE" => mode = "OPERATIONAL"
  /\ lec' = l /\ busState' = s
  /\ UNCHANGED <<search, startup, slave, pending, mode, baud, timers, handler,
                 busRate, hist>>

StartupTimePasses ==
  /\ state = "STARTUP" /\ ~startupOver
  /\ startupOver' = TRUE
  /\ UNCHANGED <<search, startup, slave, pending, ctrl, dwellOver, handler, busRate, hist>>

\* A call of the handler takes less than the time between two rates.
DwellTimePasses ==
  /\ pc = "idle" /\ Searching /\ ~dwellOver
  /\ dwellOver' = TRUE
  /\ UNCHANGED <<search, startup, slave, pending, ctrl, startupOver, handler, busRate, hist>>

\* The master starts, stops, or goes on at another rate.
BusChanges ==
  /\ busRate' \in Rates \cup {0}
  /\ UNCHANGED <<search, startup, slave, pending, ctrl, timers, handler, hist>>

Begin   == \E b \in StartupRates : Start(b)
Message == StartupMessage \/ OnMessage
Step    == \/ StartupTimeout \/ StartupError \/ StartupSwitch
           \/ OnSilence \/ OnError \/ OnNoError \/ OnBit0 \/ Idle
Poll    == EnterSearch \/ Retune \/ Read \/ Message \/ Step
Errors  == \/ \E l \in Lecs, s \in {"ACTIVE", "PASSIVE", "OFF"} : ErrorFrame(l, s)
           \/ ErrorFrame("NO_ERROR", "PASSIVE")
Time    == StartupTimePasses \/ DwellTimePasses

Next == Begin \/ Poll \/ Rx \/ Errors \/ Time \/ BusChanges

Spec == Init /\ [][Next]_vars

(***************************************************************************)
(* The application goes on polling, time passes, errors show, and a bus    *)
(* whose rate is listened at again and again is heard while the handler is *)
(* not at work.                                                            *)
(***************************************************************************)
FairSpec == /\ Spec
            /\ WF_vars(Poll)
            /\ WF_vars(StartupTimePasses) /\ SF_vars(DwellTimePasses)
            /\ WF_vars(Errors)
            /\ SF_vars(Rx /\ pc = "idle")

-----------------------------------------------------------------------------
\* "While the measurement there is no influence to the CAN bus possible": as
\* long as the search goes on, in whichever way it was entered and through all
\* changes of the rate, the controller only listens; when it has ended the
\* slave is connected.  The slave says that it searches, except while a start-up
\* search in a build that can download has not met an error.
SearchOnlyListens ==
  /\ Searching => mode = "LISTEN_ONLY"
  /\ Searching /\ (DLOAD => state # "STARTUP") => slave = "RECONNECT"
  /\ Started /\ ~Searching => mode = "OPERATIONAL" /\ slave # "RECONNECT"

\* The rate a message was heard at is the rate the slave connects at, though
\* the note of the message does not hold the rate; except when the message
\* came after the note was read and the rate was changed on the strength of the
\* old one, and for a start-up search that still has the previous one's rate.
MessageRateKept ==
  [][Message => \/ baud' = heard
                \/ overtaken
                \/ ~tuned /\ backBdr # 0]_vars

\* A start-up without traffic ends, changes of the rate do not prolong it.
StartupEnds == (state = "STARTUP") ~> (state # "STARTUP")

\* With lasting traffic at one rate the slave ends connected at it, from any
\* way it has gone before.
FindsTraffic ==
  \A r \in Rates : <>[](busRate = r /\ Started) => <>[](~Searching /\ baud = r)

\* io_can_reconnect.c:335-338: the current baud rate is measured first, and
\* after its detection the module is connected; also after lcsa_reinit.
ConnectsAtMeasuredRate == [][Message => baud' = heard \/ overtaken]_vars
=============================================================================
