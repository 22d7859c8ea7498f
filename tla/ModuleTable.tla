----------------------------- MODULE ModuleTable ------------------------------
(***************************************************************************)
(* The table of logical modules (source/config/io_can_config.c) and what   *)
(* it keeps up to date in the main controller (source/core/io_can_main.c): *)
(* the flags of the transmit objects to send at a process request, the     *)
(* position of the last one and the identifiers.                           *)
(*                                                                         *)
(* Modules are added at start-up; system messages and the application make *)
(* them silent or awake and give them another number, system messages      *)
(* another type; the application makes them critical.  The messages are    *)
(* handled in the CAN interrupt, to their end.  The application's calls    *)
(* run in a task and are cut at every access to what the interrupt shares  *)
(* with them; a change of a flag in send_reg is a load and a store.  Every *)
(* table position has a module type of its own and enough message objects  *)
(* are configured.                                                         *)
(***************************************************************************)
EXTENDS Integers

CONSTANTS MAX,         \* LI_CAN_SLV_MAX_NR_OF_LOGICAL_MODULES
          OBJS,        \* CAN_CONFIG_NR_OF_MODULE_OBJS
          TxObjs,      \* tx_obj of the module types that are added
          NewTxObjs,   \* tx_obj of the types they may be changed to
          Numbers,     \* module numbers the application and the master use
          DEF_NR,      \* LI_CAN_SLV_CONFIG_DEF_MOD_NR1
          Votes,       \* answers of the voter, or "NONE" without a voter
          Renumbering, \* CAN_SYS_M2S_CHANGE_MODULE_NUMBER occurs
          Retyping,    \* the positions CAN_SYS_M2S_CHANGE_MODULE_TYPE occurs for
          TaskCalls    \* the application renumbers, switches or makes critical

ASSUME SizesAssumption == MAX \in Nat \ {0} /\ OBJS \in Nat \ {0}
ASSUME TypesAssumption == /\ TxObjs \in [0 .. MAX - 1 -> 0 .. OBJS]
                          /\ NewTxObjs \in [0 .. MAX - 1 -> 0 .. OBJS]
ASSUME NumbersAssumption == Numbers \subseteq Nat /\ DEF_NR \in Nat \ {0}
ASSUME VotesAssumption == Votes \subseteq {"NONE", "VALID", "VALID_BUT_SET_SILENT"}
ASSUME SwitchesAssumption == /\ Renumbering \in BOOLEAN
                             /\ Retyping \subseteq 0 .. MAX - 1
                             /\ TaskCalls \in BOOLEAN

VARIABLES nrOfModules,  \* can_config_nr_of_modules
          moduleNr,     \* module_nr, by table position
          txObj,        \* tx_obj
          silent,       \* can_config_module_silent
          critical,     \* history: lcsa_set_module_critical was called, and no
                        \* message has set the module's flags since
          stale,        \* history: type changed while silent, or number while
                        \* the application's call gave it another
          raced,        \* history: a message came between a call's accesses
          crossed,      \* history: that message changed the type
          id,           \* the number each transmit identifier was computed from
          sendReg,      \* send_reg: the <<table_pos, obj>> whose flag is set
          sendEnd,      \* send_end
          send,         \* local send of can_main_sync_send_process_data
          sendCurrent,  \* its local send_current
          task          \* the application's call, or Idle

hist    == <<critical, stale, raced, crossed>>
table   == <<nrOfModules, moduleNr, txObj, silent, hist>>
ctrl    == <<id, sendReg, sendEnd>>
sending == <<send, sendCurrent>>
vars    == <<table, ctrl, sending, task>>

Positions == 0 .. MAX - 1
Modules   == 0 .. nrOfModules - 1
AllFlags  == Positions \X (0 .. OBJS - 1)
Flags(m)  == {m} \X (0 .. txObj[m] - 1)
Bit(f)    == OBJS * f[1] + f[2]

\* What the application's call is at: its table_pos, the next access, its
\* new_module_nr, the state it read or was given, the object and the send_reg
\* it loaded.
Idle == [call |-> "NONE", pos |-> -1, at |-> "test", nr |-> 0, state |-> "NONE",
         next |-> 0, reg |-> {}]

Accesses == {"test", "id", "load", "store", "mark", "argument", "set", "decide"}

\* The numbers that can be in the table: a redeclared one becomes DEF_NR + i.
AllNumbers == Numbers \cup {DEF_NR + i : i \in Positions} \cup {0}

TypeOK ==
  /\ nrOfModules \in 0 .. MAX
  /\ moduleNr \in [Positions -> AllNumbers]
  /\ txObj \in [Positions -> 0 .. OBJS]
  /\ silent \in [Positions -> {"SILENT", "AWAKE"}]
  /\ critical \in SUBSET Positions
  /\ stale \in SUBSET Positions
  /\ raced \in SUBSET Positions
  /\ crossed \in SUBSET Positions
  /\ id \in [AllFlags -> AllNumbers]
  /\ sendReg \in SUBSET AllFlags
  /\ sendEnd \in 0 .. OBJS * MAX - 1
  /\ send \in SUBSET AllFlags
  /\ sendCurrent \in 0 .. OBJS * MAX
  /\ task \in [call : {"NONE", "NUMBER", "SWITCH"}, pos : Positions \cup {-1},
               at : Accesses, nr : AllNumbers, state : {"NONE", "SILENT", "AWAKE"},
               next : 0 .. OBJS, reg : SUBSET AllFlags]

Init ==
  /\ nrOfModules = 0
  /\ moduleNr = [m \in Positions |-> 0]
  /\ txObj = [m \in Positions |-> 0]
  /\ silent = [m \in Positions |-> "AWAKE"]
  /\ critical = {}
  /\ stale = {}
  /\ raced = {}
  /\ crossed = {}
  /\ id = [f \in AllFlags |-> 0]
  /\ sendReg = {}
  /\ sendEnd = 0
  /\ send = {}
  /\ sendCurrent = 0
  /\ task = Idle

\* The handler of a process request is not interrupted by any other call.
NotSending == send = {}

(***************************************************************************)
(* can_main_sync_process_tx_data_cnfg for the first n objects of module m. *)
(***************************************************************************)
Identifiers(m, n, nr) ==
  [f \in AllFlags |-> IF f[1] = m /\ f[2] < n THEN nr ELSE id[f]]

LastBit(m, n) == IF n = 0 THEN sendEnd ELSE Bit(<<m, n - 1>>)

\* can_config_set_module_silent_awake, which ends in can_config_sync_off or
\* can_config_sync_on: they clear or set the flags of tx_obj objects.
Switched(m, state, flags) ==
  IF state = "AWAKE" THEN flags \cup Flags(m) ELSE flags \ Flags(m)

(***************************************************************************)
(* can_config_add_module: a number that is already used is replaced by a   *)
(* default one, a number below 2 too, but not before the search.           *)
(***************************************************************************)
\* A redeclared number is added to the default, not the table position.
MutantDeclared(i, n) ==
  IF \E j \in 0 .. i - 1 : moduleNr[j] = n THEN DEF_NR + n
  ELSE IF n < 2 THEN DEF_NR ELSE n

Declared(i, n) ==
  IF \E j \in 0 .. i - 1 : moduleNr[j] = n THEN DEF_NR + i
  ELSE IF n < 2 THEN DEF_NR ELSE n

AddModule(n) ==
  LET i  == nrOfModules
      nr == Declared(i, n)
      flags == {i} \X (0 .. TxObjs[i] - 1)
  IN  /\ NotSending /\ task = Idle
      /\ i < MAX
      /\ nrOfModules' = i + 1
      /\ moduleNr' = [moduleNr EXCEPT ![i] = nr]
      /\ txObj' = [txObj EXCEPT ![i] = TxObjs[i]]
      /\ id' = Identifiers(i, TxObjs[i], nr)
      /\ sendEnd' = LastBit(i, TxObjs[i])
      /\ sendReg' = IF silent[i] = "AWAKE" THEN sendReg \cup flags
                                           ELSE sendReg \ flags
      /\ UNCHANGED <<silent, hist, sending, task>>

(***************************************************************************)
(* A message for module m meets the application's call: the call is for    *)
(* the same module, or holds a send_reg it loaded before.                  *)
(***************************************************************************)
Meets(m) == task.pos = m \/ task.at = "store"

Remember(set, m, met) == IF met THEN set \cup {m} ELSE set \ {m}

(***************************************************************************)
(* CAN_SYS_M2S_STAY_SILENT and _AWAKE.                                     *)
(***************************************************************************)
SetSilentAwake(m, state) ==
  /\ NotSending
  /\ silent' = [silent EXCEPT ![m] = state]
  /\ sendReg' = Switched(m, state, sendReg)
  /\ raced' = Remember(raced, m, Meets(m))
  /\ critical' = critical \ {m}
  /\ UNCHANGED <<nrOfModules, moduleNr, txObj, stale, crossed, id, sendEnd,
                 sending, task>>

(***************************************************************************)
(* CAN_SYS_M2S_CHANGE_MODULE_NUMBER; a vote against it changes nothing.    *)
(***************************************************************************)
Voted(m, vote) == CASE vote = "VALID"                -> "AWAKE"
                    [] vote = "VALID_BUT_SET_SILENT" -> "SILENT"
                    [] OTHER                         -> silent[m]

Renumbered(m) == task.pos = m /\ task.call = "NUMBER"

ChangeModuleNr(m, n, vote) ==
  /\ NotSending
  /\ moduleNr' = [moduleNr EXCEPT ![m] = n]
  /\ id' = Identifiers(m, txObj[m], n)
  /\ sendEnd' = LastBit(m, txObj[m])
  /\ silent' = [silent EXCEPT ![m] = Voted(m, vote)]
  /\ sendReg' = Switched(m, Voted(m, vote), sendReg)
  /\ raced' = Remember(raced, m, Meets(m))
  /\ stale' = Remember(stale, m, Renumbered(m))
  /\ critical' = critical \ {m}
  /\ UNCHANGED <<nrOfModules, txObj, crossed, sending, task>>

(***************************************************************************)
(* The application's calls.  A renumbering first gives the objects their   *)
(* identifiers and flags, then does what the other calls do.               *)
(***************************************************************************)
Call(c, m, rest) ==
  /\ NotSending /\ task = Idle
  /\ task' = [rest EXCEPT !.call = c, !.pos = m]
  /\ UNCHANGED <<nrOfModules, txObj, silent, crossed, ctrl, sending>>

\* lcsa_change_module_nr_and_identifiers, up to line 1790.
TaskChangeModuleNr(m, n) ==
  /\ Call("NUMBER", m, [Idle EXCEPT !.nr = n])
  /\ moduleNr' = [moduleNr EXCEPT ![m] = n]
  /\ stale' = stale \ {m}
  /\ UNCHANGED <<critical, raced>>

\* lcsa_set_module_silent_awake_from_type_and_nr.
TaskSetSilentAwake(m, state) ==
  /\ Call("SWITCH", m, [Idle EXCEPT !.at = "set", !.state = state])
  /\ raced' = raced \ {m}
  /\ UNCHANGED <<moduleNr, critical, stale>>

\* lcsa_set_module_critical: can_config_sync_off only.
TaskSetCritical(m) ==
  /\ Call("SWITCH", m, [Idle EXCEPT !.state = "SILENT"])
  /\ critical' = critical \cup {m}
  /\ raced' = raced \ {m}
  /\ UNCHANGED <<moduleNr, stale>>

\* The next access of the call, at "here" now; "next" is its task record.
Access(here, next) ==
  /\ NotSending /\ task # Idle
  /\ task.at = here
  /\ task' = next
  /\ UNCHANGED <<nrOfModules, moduleNr, txObj, hist, sending>>

Object      == <<task.pos, task.next>>
Configuring == task.call = "NUMBER" /\ task.state = "NONE"

\* A renumbering that does not switch the module at its end.
MutantTaskLoop ==
  /\ Access("test",
       IF task.next < txObj[task.pos]
       THEN [task EXCEPT !.at = IF Configuring THEN "id" ELSE "load"]
       ELSE Idle)
  /\ UNCHANGED <<silent, ctrl>>

\* The conditions of the loops, lines 1805, 1212 and 1262.
TaskLoop ==
  /\ Access("test",
       IF task.next < txObj[task.pos]
       THEN [task EXCEPT !.at = IF Configuring THEN "id" ELSE "load"]
       ELSE IF Configuring THEN [task EXCEPT !.at = "argument", !.next = 0]
       ELSE Idle)
  /\ UNCHANGED <<silent, ctrl>>

\* The identifier stays that of the number before.
MutantTaskIdentifier ==
  /\ Access("id", [task EXCEPT !.at = "load"])
  /\ UNCHANGED <<silent, ctrl>>

TaskIdentifier ==
  /\ Access("id", [task EXCEPT !.at = "load"])
  /\ id' = [id EXCEPT ![Object] = task.nr]
  /\ UNCHANGED <<silent, sendReg, sendEnd>>

\* Lines 468, 486 and 501 of io_can_main.c.
TaskLoad ==
  /\ Access("load", [task EXCEPT !.at = "store", !.reg = sendReg])
  /\ UNCHANGED <<silent, ctrl>>

\* Set, not added to the flags that are set.
MutantTaskStore ==
  /\ Access("store", IF Configuring THEN [task EXCEPT !.at = "mark", !.reg = {}]
                     ELSE [task EXCEPT !.at = "test", !.next = @ + 1, !.reg = {}])
  /\ sendReg' = IF task.state = "SILENT" THEN task.reg \ {Object} ELSE {Object}
  /\ UNCHANGED <<silent, id, sendEnd>>

TaskStore ==
  /\ Access("store", IF Configuring THEN [task EXCEPT !.at = "mark", !.reg = {}]
                     ELSE [task EXCEPT !.at = "test", !.next = @ + 1, !.reg = {}])
  /\ sendReg' = IF task.state = "SILENT" THEN task.reg \ {Object}
                                         ELSE task.reg \cup {Object}
  /\ UNCHANGED <<silent, id, sendEnd>>

TaskMark ==
  /\ Access("mark", [task EXCEPT !.at = "test", !.next = @ + 1])
  /\ sendEnd' = Bit(Object)
  /\ UNCHANGED <<silent, id, sendReg>>

\* The argument at line 1919, then lines 1715 and 1721.
TaskArgument ==
  /\ Access("argument", [task EXCEPT !.at = "set", !.state = silent[task.pos]])
  /\ UNCHANGED <<silent, ctrl>>

TaskSet ==
  /\ Access("set", [task EXCEPT !.at = "decide"])
  /\ silent' = [silent EXCEPT ![task.pos] = task.state]
  /\ UNCHANGED ctrl

TaskDecide ==
  /\ Access("decide", [task EXCEPT !.at = "test", !.state = silent[task.pos]])
  /\ UNCHANGED <<silent, ctrl>>

(***************************************************************************)
(* CAN_SYS_M2S_CHANGE_MODULE_TYPE: the new type's objects, then the flags  *)
(* and identifiers of every module that is awake from the beginning.       *)
(***************************************************************************)
Awake == {m \in Modules : silent[m] = "AWAKE"}

Rebuilt(m, objs) == UNION {{j} \X (0 .. objs[j] - 1) : j \in Awake}

ChangeModuleType(m) ==
  LET objs  == [txObj EXCEPT ![m] = NewTxObjs[m]]
      flags == Rebuilt(m, objs)
      atWork == IF task.at = "store" THEN Modules ELSE {task.pos}
  IN  /\ NotSending
      /\ txObj' = objs
      /\ sendReg' = flags
      /\ id' = [f \in AllFlags |-> IF f \in flags THEN moduleNr[f[1]] ELSE id[f]]
      /\ sendEnd' = IF flags = {} THEN 0
                    ELSE CHOOSE b \in {Bit(f) : f \in flags} :
                           \A f \in flags : Bit(f) <= b
      /\ stale' = {j \in stale : silent[j] = "SILENT" \/ Renumbered(j)}
                    \cup ({m} \ Awake)
      /\ raced' = (raced \cup {m}) \cap atWork
      /\ crossed' = (crossed \cup {m}) \cap atWork
      /\ critical' = critical \ (Modules \ atWork)
      /\ UNCHANGED <<nrOfModules, moduleNr, silent, sending, task>>

(***************************************************************************)
(* can_main_sync_send_process_data.                                        *)
(***************************************************************************)
ProcessRequest ==
  /\ NotSending
  /\ send' = sendReg
  /\ sendCurrent' = 0
  /\ UNCHANGED <<table, ctrl, task>>

Current == {f \in send : Bit(f) = sendCurrent}

\* The inner loop, lines 644-648.
SkipBit ==
  /\ send # {} /\ Current = {}
  /\ sendCurrent <= sendEnd
  /\ sendCurrent' = sendCurrent + 1
  /\ UNCHANGED <<table, ctrl, send, task>>

\* Lines 651-685.
SendObject ==
  /\ Current # {}
  /\ send' = send \ Current
  /\ sendCurrent' = sendCurrent + 1
  /\ UNCHANGED <<table, ctrl, task>>

\* Behind send_end, at a flag that is not set, the outer loop does nothing.
Spin ==
  /\ send # {} /\ Current = {}
  /\ sendCurrent > sendEnd
  /\ UNCHANGED vars

-----------------------------------------------------------------------------
Start  == \E n \in Numbers : AddModule(n)
Switch == \E m \in Modules, s \in {"SILENT", "AWAKE"} : SetSilentAwake(m, s)
Number == Renumbering /\ \E m \in Modules, n \in Numbers, v \in Votes :
                           ChangeModuleNr(m, n, v)
Type   == \E m \in Modules \cap Retyping : ChangeModuleType(m)
Task   == \/ TaskCalls /\ \E m \in Modules :
               \/ \E n \in Numbers : TaskChangeModuleNr(m, n)
               \/ \E s \in {"SILENT", "AWAKE"} : TaskSetSilentAwake(m, s)
               \/ TaskSetCritical(m)
          \/ TaskLoop \/ TaskIdentifier \/ TaskLoad \/ TaskStore \/ TaskMark
          \/ TaskArgument \/ TaskSet \/ TaskDecide
Loop   == SkipBit \/ SendObject

Next == Start \/ Switch \/ Number \/ Type \/ Task
          \/ ProcessRequest \/ Loop \/ Spin

Spec == Init /\ [][Next]_vars

\* An interrupt handler that can go on does.
FairSpec == Spec /\ WF_vars(Loop)

-----------------------------------------------------------------------------
\* Modules whose flags a message and a call of the application have changed at
\* the same time.
Disputed == raced \cup crossed

\* A module that was told to stay silent sends no process data, whatever
\* numbers and types it and the other modules get meanwhile, by the master or
\* by the application; except while the application's call is at work on it,
\* and where a message met such a call, up to the next switch, number or type
\* that meets none.
SilentSendsNothing ==
  [][SendObject => \A f \in Current :
       f[1] \notin Disputed \cup {task.pos} => silent[f[1]] = "AWAKE"]_vars

\* The modules the application is switching on or off.
BeingSwitched == IF task.call = "SWITCH" THEN {task.pos} ELSE {}

\* A module nobody silenced, nor made critical since a message set its flags,
\* answers every process request with all its objects: no operation on another
\* module takes them away, nor does its own renumbering; with the exception of
\* SilentSendsNothing.
AwakeSendsAll ==
  [][ProcessRequest =>
       \A m \in Awake \ (critical \cup Disputed \cup BeingSwitched) :
         Flags(m) \subseteq send']_vars

\* A frame goes out under the identifier of its module's number, through every
\* sequence of changes; except for the objects of a module that got its type
\* while silent (io_can_config.c:2039), that is being renumbered or that the
\* master gave a number while the application did, and for flags left over by
\* a change of type that met a call.
SentUnderOwnNumber ==
  [][SendObject => \A f \in Current :
       f[1] \notin stale \cup crossed \cup {task.pos} => id[f] = moduleNr[f[1]]]_vars

\* A process request is answered: the loop over the flags comes to an end
\* (io_can_main.c:623, "send all tx objects").
RequestEnds == send # {} ~> send = {}
=============================================================================
