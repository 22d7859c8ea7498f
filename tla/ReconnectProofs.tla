--------------------------- MODULE ReconnectProofs ----------------------------
(***************************************************************************)
(* For every table of baud rates: the search only listens, and the rate a  *)
(* message was heard at is the one the slave connects at.                  *)
(***************************************************************************)
EXTENDS Reconnect, TLAPS

(***************************************************************************)
(* The inductive invariant.  The rate to connect at (back_bdr) and the     *)
(* rate in the controller are set by different statements, and what the    *)
(* handler acts on was read a step before: RateInv ties the two rates and  *)
(* the message together, HandlerInv the note that was read to the one that *)
(* stands.                                                                 *)
(***************************************************************************)
RateTypes ==
  /\ bdrIndex \in 1 .. Len(BdrTable)
  /\ startup \in Rates /\ baud \in Rates
  /\ backBdr \in Rates \cup {0}

HandlerInv ==
  /\ pc \in {"idle", "retune", "read", "process"}
  /\ pc = "retune" => Searching
  /\ pc # "process" => intid = "NONE"
  /\ intid = "MSG" => pending = "MSG"

RateInv ==
  /\ Searching /\ pending = "MSG" /\ ~overtaken => baud = heard
  /\ Searching /\ tuned /\ pc # "retune" => backBdr = baud

SearchInv == RateTypes /\ SearchOnlyListens /\ HandlerInv /\ RateInv

\* The table is walked round and round.
LEMMA NextIndexInTable ==
  ASSUME RateTypes
  PROVE  NextIndex \in 1 .. Len(BdrTable) /\ BdrTable[NextIndex] \in Rates
<1>1. Len(BdrTable) \in Nat \ {0}
  BY TableAssumption
<1>2. NextIndex \in 1 .. Len(BdrTable)
  BY <1>1 DEF RateTypes, NextIndex
<1> QED
  BY <1>2 DEF Rates

\* A change of the rate, whichever step makes it.
LEMMA NextBaudrateTunes ==
  ASSUME SearchInv, NextBaudrate
  PROVE  /\ bdrIndex' \in 1 .. Len(BdrTable)
         /\ baud' \in Rates /\ backBdr' = baud'
         /\ mode' = "LISTEN_ONLY"
         /\ ~overtaken' => pending # "MSG"
<1>1. BdrTable[NextIndex] \in Rates /\ NextIndex \in 1 .. Len(BdrTable)
  BY NextIndexInTable DEF SearchInv
<1> QED
  BY <1>1 DEF NextBaudrate, Tune, Enter

LEMMA InitSearchInv == Init => SearchInv
<1> SUFFICES ASSUME Init PROVE SearchInv
  OBVIOUS
<1>1. startup \in Rates
  BY StartupAssumption DEF Init
<1>2. RateTypes
  BY <1>1, TableAssumption DEF Init, RateTypes
<1> QED
  BY <1>2 DEF Init, SearchInv, SearchOnlyListens, HandlerInv, RateInv, Searching, Started

-----------------------------------------------------------------------------
(***************************************************************************)
(* Every step keeps the invariant: one lemma for the application and the   *)
(* environment, one for the handler up to its reading of the note, one for *)
(* what it does with it.                                                   *)
(***************************************************************************)
LEMMA EnvironmentStep ==
  ASSUME SearchInv, Begin \/ Rx \/ Errors \/ Time \/ BusChanges
  PROVE  SearchInv'
<1> USE DEF SearchInv, RateTypes, SearchOnlyListens, HandlerInv, RateInv, Searching, Started
<1>1. CASE Begin
  <2>1. PICK b \in StartupRates : Start(b)
    BY <1>1 DEF Begin
  <2>2. b \in Rates
    BY StartupAssumption
  <2>3. 1 \in 1 .. Len(BdrTable)
    BY TableAssumption
  <2>4. RateTypes'
    BY <2>1, <2>2, <2>3 DEF Start, Tune
  <2> QED
    BY <2>1, <2>4 DEF Start, LastState, Tune, Enter, handler
<1>2. CASE Rx
  BY <1>2 DEF Rx, search, timers, handler
<1>3. CASE Errors
  <2>1. PICK l, s : ErrorFrame(l, s)
    BY <1>3 DEF Errors
  <2> QED
    BY <2>1 DEF ErrorFrame, search, timers, handler, hist
<1>4. CASE Time
  BY <1>4 DEF Time, StartupTimePasses, DwellTimePasses, search, ctrl, handler, hist
<1>5. CASE BusChanges
  BY <1>5 DEF BusChanges, search, ctrl, timers, handler, hist
<1> QED
  BY <1>1, <1>2, <1>3, <1>4, <1>5

LEMMA ReadingStep ==
  ASSUME SearchInv, EnterSearch \/ Retune \/ Read
  PROVE  SearchInv'
<1> USE DEF SearchInv, RateTypes, SearchOnlyListens, HandlerInv, RateInv, Searching, Started
<1>1. CASE EnterSearch
  BY <1>1 DEF EnterSearch, On, Enter, timers
<1>2. CASE Retune
  <2>1. /\ bdrIndex' \in 1 .. Len(BdrTable)
        /\ baud' \in Rates /\ backBdr' = baud'
        /\ mode' = "LISTEN_ONLY"
        /\ ~overtaken' => pending # "MSG"
    BY <1>2, NextBaudrateTunes DEF Retune
  <2> QED
    BY <1>2, <2>1 DEF Retune
<1>3. CASE Read
  BY <1>3 DEF Read, search, ctrl, timers, hist
<1> QED
  BY <1>1, <1>2, <1>3

\* The end of a search.
LEMMA OffStep ==
  ASSUME SearchInv, NEW s, Process(s), NEW b \in Rates \cup {0}, NEW c, Off(b, c),
         bdrIndex' = bdrIndex, backBdr' \in Rates \cup {0}
  PROVE  SearchInv'
  BY DEF SearchInv, RateTypes, SearchOnlyListens, HandlerInv, RateInv, Searching,
         Started, Process, Off, Tune, Enter, hist

\* A step that stays in the search, at another rate or at the same one.
LEMMA SwitchStep ==
  ASSUME SearchInv, NEW s, s # "OFF", Process(s), NextBaudrate,
         state' # "OFF", pending' = pending,
         slave' = "RECONNECT" \/ (slave' = slave /\ (state = "STARTUP" <=> state' = "STARTUP"))
  PROVE  SearchInv'
<1>1. /\ bdrIndex' \in 1 .. Len(BdrTable)
      /\ baud' \in Rates /\ backBdr' = baud'
      /\ mode' = "LISTEN_ONLY"
      /\ ~overtaken' => pending # "MSG"
  BY NextBaudrateTunes
<1> QED
  BY <1>1 DEF SearchInv, RateTypes, SearchOnlyListens, HandlerInv, RateInv, Searching,
              Started, Process

LEMMA StayStep ==
  ASSUME SearchInv, NEW s, s # "OFF", Process(s), Stay,
         state' # "OFF", pending' = pending,
         slave' = "RECONNECT" \/ (slave' = slave /\ (state = "STARTUP" <=> state' = "STARTUP"))
  PROVE  SearchInv'
  BY DEF SearchInv, RateTypes, SearchOnlyListens, HandlerInv, RateInv, Searching,
         Started, Process, Stay, ctrl, hist

LEMMA ProcessStep ==
  ASSUME SearchInv, Message \/ Step
  PROVE  SearchInv'
<1>a. backBdr \in Rates \cup {0} /\ startup \in Rates
  BY DEF SearchInv, RateTypes
<1>1. CASE StartupMessage
  BY <1>1, <1>a, OffStep DEF StartupMessage
<1>2. CASE StartupTimeout
  BY <1>2, <1>a, OffStep DEF StartupTimeout
<1>3. CASE StartupError
  BY <1>3, SwitchStep DEF StartupError, On
<1>4. CASE StartupSwitch
  <2>1. Process("STARTUP") /\ UNCHANGED <<state, slave, pending>>
    BY <1>4 DEF StartupSwitch
  <2>2. state' # "OFF"
    BY <2>1 DEF Process
  <2> QED
    BY <1>4, <2>1, <2>2, SwitchStep, StayStep DEF StartupSwitch
<1>5. CASE OnMessage
  BY <1>5, <1>a, OffStep DEF OnMessage
<1>6. CASE OnSilence \/ OnError
  <2>1. Process("ON") /\ SwitchOn /\ UNCHANGED <<slave, pending>>
    BY <1>6 DEF OnSilence, OnError
  <2>2. CASE dwellOver
    <3>1. NextBaudrate /\ state = "ON" /\ state' = "IDLE"
      BY <2>1, <2>2 DEF SwitchOn, Process
    <3> QED
      BY <2>1, <3>1, SwitchStep
  <2>3. CASE ~dwellOver
    <3>1. Stay /\ state = "ON" /\ state' = "ON"
      BY <2>1, <2>3 DEF SwitchOn, Process
    <3> QED
      BY <2>1, <3>1, StayStep
  <2> QED
    BY <2>2, <2>3
<1>7. CASE OnNoError
  BY <1>7, <1>a, OffStep DEF OnNoError
<1>8. CASE OnBit0
  <2>1. CASE lecBit0' >= NR_LEC_BIT0
    BY <1>8, <2>1, <1>a, OffStep DEF OnBit0
  <2>2. CASE ~(lecBit0' >= NR_LEC_BIT0)
    <3>1. Process("ON") /\ Stay /\ UNCHANGED <<state, slave, pending>>
      BY <1>8, <2>2 DEF OnBit0
    <3>2. state' # "OFF"
      BY <3>1 DEF Process
    <3> QED
      BY <3>1, <3>2, StayStep
  <2> QED
    BY <2>1, <2>2
<1>9. CASE Idle
  <2>1. Process("IDLE") /\ Stay /\ UNCHANGED <<slave, pending>>
    BY <1>9 DEF Idle
  <2>2. state = "IDLE" /\ state' \in {"ON", "IDLE"}
    BY <1>9 DEF Idle, Process
  <2> QED
    BY <2>1, <2>2, StayStep
<1> QED
  BY <1>1, <1>2, <1>3, <1>4, <1>5, <1>6, <1>7, <1>8, <1>9 DEF Message, Step

LEMMA SearchInvStep == SearchInv /\ [Next]_vars => SearchInv'
<1>1. ASSUME SearchInv, UNCHANGED vars PROVE SearchInv'
  BY <1>1 DEF vars, search, ctrl, timers, handler, hist, SearchInv, RateTypes,
              SearchOnlyListens, HandlerInv, RateInv, Searching, Started
<1> QED
  BY <1>1, EnvironmentStep, ReadingStep, ProcessStep DEF Next, Poll

LEMMA SearchInvariant == Spec => []SearchInv
<1> QED
  BY InitSearchInv, SearchInvStep, PTL DEF Spec

-----------------------------------------------------------------------------
\* While a search goes on the controller only listens, and afterwards the slave
\* is connected (li_can_slv_reconnect_startup, _on_main_node_recovery, _online,
\* can_reconnect_off); that it searches the slave says in a build without
\* downloads, and in one with them once an error was met: in every state, for
\* every table of rates and either build.
THEOREM OnlyListens == Spec => []SearchOnlyListens
<1>1. SearchInv => SearchOnlyListens
  BY DEF SearchInv
<1> QED
  BY <1>1, SearchInvariant, PTL

\* The rate of the last message is the one can_reconnect_off connects at, with
\* the exceptions MessageRateKept names.
THEOREM RateKept == Spec => MessageRateKept
<1>1. ASSUME SearchInv, Message
      PROVE  baud' = heard \/ overtaken \/ (~tuned /\ backBdr # 0)
  <2>1. /\ pc = "process" /\ intid = "MSG" /\ Searching
        /\ baud' = IF backBdr \in Rates THEN backBdr ELSE baud
    BY <1>1 DEF Message, StartupMessage, OnMessage, Process, Off, Tune, Searching
  <2>2. pending = "MSG" /\ (~overtaken => baud = heard) /\ (tuned => backBdr = baud)
    BY <1>1, <2>1 DEF SearchInv, HandlerInv, RateInv
  <2>3. backBdr = 0 => backBdr \notin Rates
    <3>1. \A i \in 1 .. Len(BdrTable) : BdrTable[i] \in Nat \ {0}
      BY TableAssumption
    <3> QED
      BY <3>1 DEF Rates
  <2> QED
    BY <2>1, <2>2, <2>3
<1>2. SearchInv /\ [Next]_vars =>
        [Message => baud' = heard \/ overtaken \/ (~tuned /\ backBdr # 0)]_vars
  BY <1>1
<1> QED
  BY <1>2, SearchInvariant, PTL DEF Spec, MessageRateKept

-----------------------------------------------------------------------------
(***************************************************************************)
(* The types.  What can leave its range are the two counters: the errors   *)
(* of bit 0 end the search when there are NR_LEC_BIT0 of them, the calls   *)
(* spent in IDLE lead back to ON with the third.                           *)
(***************************************************************************)
CounterInv ==
  /\ Searching => lecBit0 < NR_LEC_BIT0
  /\ state = "IDLE" => idleCnt <= 2

Fields ==
  /\ state \in {"OFF", "STARTUP", "ON", "IDLE"}
  /\ cause \in {"NO_TRAFFIC", "STARTUP", "EWRN", "BOFF"}
  /\ bdrIndex \in 1 .. Len(BdrTable)
  /\ backBdr \in Rates \cup {0}
  /\ lecBit0 \in 0 .. NR_LEC_BIT0
  /\ idleCnt \in 0 .. 3
  /\ startup \in Rates
  /\ slave \in {"INIT", "RECONNECT", "RUNNING"}
  /\ pending \in {"NONE", "LEC", "MSG"}
  /\ mode \in {"INIT", "LISTEN_ONLY", "OPERATIONAL"}
  /\ baud \in Rates
  /\ lec \in Lecs \cup {"NO_ERROR"}
  /\ busState \in {"ACTIVE", "PASSIVE", "OFF"}
  /\ pc \in {"idle", "retune", "read", "process"}
  /\ intid \in {"NONE", "LEC", "MSG"}
  /\ lecRead \in Lecs \cup {"NO_ERROR"}
  /\ busRate \in Rates \cup {0}
  /\ heard \in Rates \cup {0}

Switches ==
  /\ startupOver \in BOOLEAN /\ dwellOver \in BOOLEAN
  /\ overtaken \in BOOLEAN /\ tuned \in BOOLEAN

FieldInv == Fields /\ CounterInv

LEMMA TypeParts == Fields /\ Switches => TypeOK
  BY DEF TypeOK, Fields, Switches

\* The times that have passed and the history are switched on and off.
LEMMA SwitchesStep ==
  ASSUME Switches, [Next]_vars
  PROVE  Switches'
<1> USE DEF Switches
<1>1. NextBaudrate => Switches'
  BY Zenon DEF NextBaudrate
<1>2. ASSUME NEW b, NEW c, Off(b, c) PROVE Switches'
  BY <1>2, Zenon DEF Off, timers, hist
<1>3. UNCHANGED <<timers, hist>> => Switches'
  BY Zenon DEF timers, hist
<1>4. Stay => Switches'
  BY <1>3, Zenon DEF Stay
<1>5. CASE Begin
  BY <1>5, Zenon DEF Begin, Start
<1>6. CASE Rx
  BY <1>6, Zenon DEF Rx, timers
<1>7. CASE Errors \/ BusChanges \/ Read \/ UNCHANGED vars
  BY <1>3, <1>7, Zenon DEF Errors, ErrorFrame, BusChanges, Read, vars
<1>8. CASE Time
  BY <1>8, Zenon DEF Time, StartupTimePasses, DwellTimePasses, hist
<1>9. CASE EnterSearch
  BY <1>9, Zenon DEF EnterSearch, timers
<1>10. CASE Retune
  BY <1>1, <1>10 DEF Retune
<1>11. CASE Message \/ Step
  BY <1>1, <1>2, <1>4, <1>11, Zenon
  DEF Message, StartupMessage, OnMessage, Step, StartupTimeout, StartupError, StartupSwitch,
      OnSilence, OnError, SwitchOn, OnNoError, OnBit0, Idle
<1> QED
  BY <1>5, <1>6, <1>7, <1>8, <1>9, <1>10, <1>11 DEF Next, Poll

LEMMA InitTypes == Init => FieldInv /\ Switches
<1> SUFFICES ASSUME Init PROVE FieldInv /\ Switches
  OBVIOUS
<1>1. startup \in Rates /\ 1 \in 1 .. Len(BdrTable)
  BY StartupAssumption, TableAssumption DEF Init
<1>2. Switches
  BY Zenon DEF Init, Switches
<1> QED
  BY <1>1, <1>2, Bit0Assumption DEF Init, FieldInv, Fields, CounterInv, Searching, Lecs

\* The environment counts nothing.
LEMMA EnvironmentTypes ==
  ASSUME FieldInv, Begin \/ Rx \/ Errors \/ Time \/ BusChanges
  PROVE  FieldInv'
<1> USE Bit0Assumption DEF FieldInv, Fields, CounterInv, Searching
<1>1. CASE Begin
  <2>1. PICK b \in StartupRates : Start(b)
    BY <1>1 DEF Begin
  <2>2. b \in Rates /\ 1 \in 1 .. Len(BdrTable)
    BY StartupAssumption, TableAssumption
  <2> QED
    BY <2>1, <2>2 DEF Start, LastState, Tune, Enter, handler
<1>2. CASE Rx
  BY <1>2 DEF Rx, search, timers, handler
<1>3. CASE Errors
  <2>1. PICK l \in Lecs \cup {"NO_ERROR"}, s \in {"ACTIVE", "PASSIVE", "OFF"} :
               ErrorFrame(l, s)
    BY <1>3 DEF Errors
  <2> QED
    BY <2>1 DEF ErrorFrame, search, timers, handler, hist
<1>4. CASE Time
  BY <1>4 DEF Time, StartupTimePasses, DwellTimePasses, search, ctrl, timers, handler, hist
<1>5. CASE BusChanges
  BY <1>5 DEF BusChanges, search, ctrl, timers, handler, hist
<1> QED
  BY <1>1, <1>2, <1>3, <1>4, <1>5

\* A change of the rate and the end of a search, whichever step makes them.
LEMMA NextBaudrateTypes ==
  ASSUME Fields, NextBaudrate
  PROVE  /\ bdrIndex' \in 1 .. Len(BdrTable)
         /\ baud' \in Rates /\ backBdr' \in Rates
         /\ mode' = "LISTEN_ONLY" /\ lec' = "NO_ERROR" /\ busState' = "ACTIVE"
         /\ heard' = heard
<1>1. BdrTable[NextIndex] \in Rates /\ NextIndex \in 1 .. Len(BdrTable)
  BY NextIndexInTable DEF Fields, RateTypes
<1> QED
  BY <1>1 DEF NextBaudrate, Tune, Enter

LEMMA OffTypes ==
  ASSUME Fields, NEW b, NEW c, Off(b, c)
  PROVE  /\ state' = "OFF" /\ slave' \in {"INIT", "RUNNING"}
         /\ baud' \in Rates
         /\ mode' = "OPERATIONAL" /\ lec' = "NO_ERROR" /\ busState' = "ACTIVE"
         /\ pending' = pending /\ heard' = heard
BY DEF Fields, Off, Tune, Enter, timers, hist

LEMMA ReadingTypes ==
  ASSUME FieldInv, EnterSearch \/ Retune \/ Read
  PROVE  FieldInv'
<1> USE Bit0Assumption DEF FieldInv, Fields, CounterInv, Searching
<1>1. CASE EnterSearch
  BY <1>1 DEF EnterSearch, On, Enter, timers
<1>2. CASE Retune
  BY <1>2, NextBaudrateTypes DEF Retune
<1>3. CASE Read
  BY <1>3 DEF Read, search, ctrl, timers, hist
<1> QED
  BY <1>1, <1>2, <1>3

LEMMA ProcessTypes ==
  ASSUME FieldInv, Message \/ Step
  PROVE  FieldInv'
<1> USE Bit0Assumption DEF FieldInv, Fields, CounterInv, Searching, Process
<1>1. CASE StartupMessage
  BY <1>1, OffTypes DEF StartupMessage
<1>2. CASE StartupTimeout
  BY <1>2, OffTypes DEF StartupTimeout
<1>3. CASE StartupError
  BY <1>3, NextBaudrateTypes DEF StartupError, On
<1>4. CASE StartupSwitch
  BY <1>4, NextBaudrateTypes DEF StartupSwitch, Stay, ctrl, timers, hist
<1>5. CASE OnMessage
  BY <1>5, OffTypes DEF OnMessage
<1>6. CASE OnSilence
  BY <1>6, NextBaudrateTypes DEF OnSilence, SwitchOn, Stay, ctrl, timers, hist
<1>7. CASE OnError
  BY <1>7, NextBaudrateTypes DEF OnError, SwitchOn, Stay, ctrl, timers, hist
<1>8. CASE OnNoError
  BY <1>8, OffTypes DEF OnNoError
<1>9. CASE OnBit0
  <2>1. lecBit0' \in 0 .. NR_LEC_BIT0
    BY <1>9 DEF OnBit0
  <2>2. CASE lecBit0' >= NR_LEC_BIT0
    BY <1>9, <2>1, <2>2, OffTypes DEF OnBit0
  <2>3. CASE ~ (lecBit0' >= NR_LEC_BIT0)
    BY <1>9, <2>1, <2>3 DEF OnBit0, Stay, ctrl, timers, hist
  <2> QED
    BY <2>2, <2>3
<1>10. CASE Idle
  BY <1>10 DEF Idle, Stay, ctrl, timers, hist
<1> QED
  BY <1>1, <1>2, <1>3, <1>4, <1>5, <1>6, <1>7, <1>8, <1>9, <1>10 DEF Message, Step

\* Every reachable state of the search has the types TypeOK names: the index
\* stays in the table, the controller at a rate of it, the counters below
\* their limits.
THEOREM TypeCorrect == Spec => []TypeOK
<1>1. FieldInv /\ UNCHANGED vars => FieldInv'
  BY DEF vars, search, ctrl, timers, handler, hist, FieldInv, Fields, CounterInv, Searching
<1>2. FieldInv /\ [Next]_vars => FieldInv'
  BY <1>1, EnvironmentTypes, ReadingTypes, ProcessTypes DEF Next, Poll
<1>3. FieldInv /\ Switches => TypeOK
  BY TypeParts DEF FieldInv
<1>4. Switches /\ [Next]_vars => Switches'
  BY SwitchesStep
<1> QED
  BY <1>2, <1>3, <1>4, InitTypes, PTL DEF Spec
=============================================================================
