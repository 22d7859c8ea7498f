---------------------------- MODULE MessageObjects -----------------------------
(***************************************************************************)
(* The message objects of the two CAN controllers as a resource: which     *)
(* frames each object takes and which module they are handed to, from      *)
(* adding modules (can_config_set_module), new numbers and new types       *)
(* (io_can_config.c), with the controllers' bookkeeping (io_can_main.c,    *)
(* io_can_mon.c).  Objects run out: a call that finds none free returns    *)
(* with what it has done so far.                                           *)
(*                                                                         *)
(* A frame is <<kind, module number, object>>.  The build has a monitor    *)
(* controller, the asynchronous channel and LI_CAN_SLV_SYS_OBJ2.  Calls of *)
(* the driver do not fail.                                                 *)
(***************************************************************************)
EXTENDS Integers, FiniteSets

CONSTANTS MAX,        \* LI_CAN_SLV_MAX_NR_OF_LOGICAL_MODULES
          OBJS,       \* CAN_CONFIG_NR_OF_MODULE_OBJS
          Types,      \* module types: [rx, tx] with their numbers of objects
          Retyped,    \* the type each of them may be changed to
          Numbers,    \* module numbers the application and the master use
          DEF_NR,     \* LI_CAN_SLV_CONFIG_DEF_MOD_NR1
          Votes,      \* answers of the voter, or "NONE" without a voter
          MAIN_SIZE,  \* LI_CAN_SLV_MAIN_NODE_MAX_NOF_MSG_OBJ
          MON_SIZE,   \* LI_CAN_SLV_MON_NODE_MAX_NOF_MSG_OBJ
          MON_TX_MAX  \* CAN_CONFIG_SYNC_MON_MAX_NR_OF_TX_OBJ

ASSUME TypesAssumption == /\ Types # {} /\ Types \subseteq [rx : 0 .. OBJS, tx : 0 .. OBJS]
                          /\ Retyped \in [Types -> Types]
ASSUME SizesAssumption == /\ MAX \in Nat \ {0} /\ OBJS \in Nat \ {0}
                          /\ MON_TX_MAX \in Nat
                          /\ MAIN_SIZE \in Nat /\ MAIN_SIZE > 10
                          /\ MON_SIZE \in Nat /\ MON_SIZE > 4
ASSUME NumbersAssumption == Numbers \subseteq Nat \ {0, 1} /\ DEF_NR \in Nat \ {0, 1}
ASSUME VotesAssumption == Votes \subseteq {"NONE", "VALID", "VALID_BUT_SET_SILENT"}

VARIABLES started,   \* lcsa_start has set the node operational
          occupied,  \* table positions with a type
          counted,   \* can_config_nr_of_modules
          moduleNr,  \* module_nr, by table position
          type,      \* rx_obj and tx_obj
          silent,    \* can_config_module_silent
          sendReg,   \* send_reg: the <<table_pos, obj>> whose flag is set
          main, mon,             \* the used objects: the frames each takes
          rxMain, rxMon, txMon,  \* rx_msg_obj_main, rx_msg_obj_mon, tx_msg_obj_mon
          lookMain, lookRx, lookTx, \* table_pos by object: main rx, mon rx, mon tx
          ctrl,      \* can_config_async_ctrl_rx_objs
          job,       \* the module being added: [pos, tx, rx] done, or Idle
          half,      \* history: modules whose adding failed at a data object
          missed,    \* history: modules whose last change found no control object
          left,      \* history: numbers that a change of number has given up
          strayed    \* history: a half-added module got another number

table   == <<occupied, counted, moduleNr, type, silent>>
nodes   == <<main, mon>>
objects == <<rxMain, rxMon, txMon>>
lookups == <<lookMain, lookRx, lookTx>>
hist    == <<half, missed, left, strayed>>
vars    == <<started, table, sendReg, nodes, objects, lookups, ctrl, job, hist>>

Positions  == 0 .. MAX - 1
Modules    == 0 .. occupied - 1
Flags(m)   == {m} \X (0 .. type[m].tx - 1)
Idle       == [pos |-> -1, tx |-> 0, rx |-> 0]
BROADCAST  == 1
AllNumbers == Numbers \cup {DEF_NR + i : i \in Positions} \cup {DEF_NR, BROADCAST}

\* The fixed objects (li_can_slv_config_defines.h:45-68).
PROCESS == 0
SYS     == 2
SYS2    == 3
ASYNC   == 6
TX_SYNC == 10

Request == <<"request", BROADCAST, 0>>
Frames  == {"request", "system", "async", "control", "rx", "tx"}
             \X AllNumbers \X (0 .. OBJS - 1)

\* f with the value v at x.
With(f, x, v) == [y \in DOMAIN f \cup {x} |-> IF y = x THEN v ELSE f[y]]

TypeOK ==
  /\ started \in BOOLEAN
  /\ occupied \in 0 .. MAX /\ counted \in 0 .. occupied
  /\ moduleNr \in [Positions -> AllNumbers]
  /\ type \in [Positions -> Types]
  /\ silent \in [Positions -> {"SILENT", "AWAKE"}]
  /\ sendReg \subseteq Positions \X (0 .. OBJS - 1)
  /\ DOMAIN main \subseteq 0 .. MAIN_SIZE - 1
  /\ \A o \in DOMAIN main : main[o] \subseteq Frames
  /\ DOMAIN mon \subseteq 0 .. MON_SIZE - 1
  /\ \A o \in DOMAIN mon : mon[o] \subseteq Frames
  /\ rxMain \in [Positions -> [0 .. OBJS - 1 -> 0 .. MAIN_SIZE - 1]]
  /\ rxMon \in [Positions -> [0 .. OBJS - 1 -> 0 .. MON_SIZE - 1]]
  /\ txMon \in [Positions -> [0 .. OBJS - 1 -> 0 .. MON_SIZE - 1]]
  /\ DOMAIN lookMain \subseteq DOMAIN main
  /\ (DOMAIN lookRx) \cup (DOMAIN lookTx) \subseteq DOMAIN mon
  /\ ctrl \in [Positions -> 0 .. MAIN_SIZE - 1]
  /\ job \in [pos : Positions, tx : 0 .. OBJS, rx : 0 .. OBJS] \cup {Idle}
  /\ half \subseteq Positions /\ missed \subseteq Positions /\ left \subseteq AllNumbers
  /\ strayed \in BOOLEAN

\* li_can_slv_init: the fixed objects of both controllers.
Init ==
  /\ started = FALSE
  /\ occupied = 0 /\ counted = 0
  /\ moduleNr = [m \in Positions |-> DEF_NR]
  /\ type = [m \in Positions |-> CHOOSE t \in Types : TRUE]
  /\ silent = [m \in Positions |-> "AWAKE"]
  /\ sendReg = {}
  /\ main = [o \in {PROCESS, SYS, SYS2, ASYNC, TX_SYNC} |->
               CASE o = PROCESS       -> {Request}
                 [] o \in {SYS, SYS2} -> {<<"system", BROADCAST, 0>>}
                 [] o = ASYNC         -> {<<"control", BROADCAST, 0>>}
                 [] o = TX_SYNC       -> {}]
  /\ mon = [o \in {1, 4} |->
              IF o = 1 THEN {Request} ELSE {<<"system", BROADCAST, 0>>}]
  /\ rxMain = [m \in Positions |-> [i \in 0 .. OBJS - 1 |-> 0]]
  /\ rxMon = rxMain /\ txMon = rxMain
  /\ lookMain = [o \in {} |-> 0] /\ lookRx = lookMain /\ lookTx = lookMain
  /\ ctrl = [m \in Positions |-> 0]
  /\ job = Idle
  /\ half = {} /\ missed = {} /\ left = {} /\ strayed = FALSE

(***************************************************************************)
(* can_main_hw_get_next_free_msg_obj: the lowest object that is not used;  *)
(* the size stands for none.                                               *)
(***************************************************************************)
Free(node, size) == CHOOSE o \in 0 .. size :
                      /\ o \notin DOMAIN node
                      /\ \A p \in 0 .. o - 1 : p \in DOMAIN node

\* The loop runs one object too far.
MutantFull(node, size) == Free(node, size) > size

Full(node, size) == Free(node, size) = size

(***************************************************************************)
(* The acceptance mask of the system messages and the asynchronous data:   *)
(* a bit of the identifier is compared unless one of the numbers has it;   *)
(* a bit is named by its weight.                                           *)
(***************************************************************************)
Weights == {1, 2, 4, 8, 16, 32, 64}
Bits(n) == {w \in Weights : ((n - 1) \div w) % 2 = 1}

\* The disjunction and the conjunction of the numbers are swapped.
MutantAccepted(nrs) == {n \in AllNumbers : \A k \in nrs : Bits(n) \subseteq Bits(k)}

Accepted(nrs) == {n \in AllNumbers : Bits(n) \subseteq UNION {Bits(k) : k \in nrs}}

\* The main controller after the control object o of number n and the three
\* objects with a mask have been defined.
Listening(node, o, n, nrs) ==
  LET own  == With(node, o, {<<"control", n, 0>>})
      data == With(own, ASYNC, {<<"async", k, 0>> : k \in Accepted(nrs)})
      msgs == {<<"system", k, 0>> : k \in Accepted(nrs)}
  IN  With(With(data, SYS, msgs), SYS2, msgs)

\* can_config_get_async_ctrl_rx_obj keeps the object for the dispatcher.  The
\* mutant keeps the first one.
MutantControl(m, o) == [ctrl EXCEPT ![m] = IF @ = 0 THEN o ELSE @]

Control(m, o) == [ctrl EXCEPT ![m] = o]

\* can_config_set_module_silent_awake: it only switches on.
MutantSwitched(m, state, flags) ==
  IF state = "AWAKE" THEN flags \cup Flags(m) ELSE flags

Switched(m, state, flags) ==
  IF state = "AWAKE" THEN flags \cup Flags(m) ELSE flags \ Flags(m)

(***************************************************************************)
(* can_config_add_module, before the node is started: nothing comes        *)
(* between the steps of one call, which are cut at the objects because it  *)
(* may return at each of them.  The position is taken from the beginning,  *)
(* the module is counted at the end.                                       *)
(***************************************************************************)
Declared(i, n) == IF \E j \in 0 .. i - 1 : moduleNr[j] = n THEN DEF_NR + i ELSE n

AddModule(n, t) ==
  /\ ~ started /\ job = Idle /\ occupied < MAX
  /\ occupied' = occupied + 1
  /\ moduleNr' = [moduleNr EXCEPT ![occupied] = Declared(occupied, n)]
  /\ type' = [type EXCEPT ![occupied] = t]
  /\ job' = [pos |-> occupied, tx |-> 0, rx |-> 0]
  /\ UNCHANGED <<started, counted, silent, sendReg, nodes, objects, lookups, ctrl, hist>>

GiveUp == job' = Idle /\ half' = half \cup {job.pos}

\* A transmit object: its flag, and an object of the monitor controller that
\* hears it.
AddTx ==
  LET m == job.pos
      i == job.tx
      o == Free(mon, MON_SIZE)
  IN  /\ job # Idle /\ i < type[m].tx
      /\ sendReg' = sendReg \cup {<<m, i>>}
      /\ \/ /\ Full(mon, MON_SIZE)
            /\ GiveUp
            /\ UNCHANGED <<mon, txMon, lookTx>>
         \/ /\ ~ Full(mon, MON_SIZE)
            /\ txMon' = [txMon EXCEPT ![m][i] = o]
            /\ mon' = With(mon, o, {<<"tx", moduleNr[m], i>>})
            /\ \/ /\ Cardinality(DOMAIN lookTx) >= MON_TX_MAX
                  /\ GiveUp /\ UNCHANGED lookTx
               \/ /\ Cardinality(DOMAIN lookTx) < MON_TX_MAX
                  /\ lookTx' = With(lookTx, o, m)
                  /\ job' = [job EXCEPT !.tx = @ + 1] /\ UNCHANGED half
      /\ UNCHANGED <<started, table, main, rxMain, rxMon, lookMain, lookRx, ctrl,
                     missed, left, strayed>>

\* A receive object: an object of each controller.
AddRx ==
  LET m == job.pos
      i == job.rx
      o == Free(main, MAIN_SIZE)
      p == Free(mon, MON_SIZE)
  IN  /\ job # Idle /\ job.tx = type[m].tx /\ i < type[m].rx
      /\ \/ /\ Full(main, MAIN_SIZE)
            /\ GiveUp
            /\ UNCHANGED <<nodes, rxMain, rxMon, lookMain, lookRx>>
         \/ /\ ~ Full(main, MAIN_SIZE)
            /\ rxMain' = [rxMain EXCEPT ![m][i] = o]
            /\ main' = With(main, o, {<<"rx", moduleNr[m], i>>})
            /\ lookMain' = With(lookMain, o, m)
            /\ \/ /\ Full(mon, MON_SIZE)
                  /\ GiveUp /\ UNCHANGED <<mon, rxMon, lookRx>>
               \/ /\ ~ Full(mon, MON_SIZE)
                  /\ rxMon' = [rxMon EXCEPT ![m][i] = p]
                  /\ mon' = With(mon, p, {<<"rx", moduleNr[m], i>>})
                  /\ lookRx' = With(lookRx, p, m)
                  /\ job' = [job EXCEPT !.rx = @ + 1] /\ UNCHANGED half
      /\ UNCHANGED <<started, table, sendReg, txMon, lookTx, ctrl, missed, left,
                     strayed>>

\* The control object and the masks; the array of control objects is indexed
\* with the number of modules counted so far.
AddControl ==
  LET m == job.pos
      o == Free(main, MAIN_SIZE)
  IN  /\ job # Idle /\ job.tx = type[m].tx /\ job.rx = type[m].rx
      /\ counted' = counted + 1
      /\ job' = Idle
      /\ \/ /\ Full(main, MAIN_SIZE)
            /\ missed' = missed \cup {m}
            /\ UNCHANGED <<main, ctrl, sendReg>>
         \/ /\ ~ Full(main, MAIN_SIZE)
            /\ ctrl' = Control(counted, o)
            /\ main' = Listening(main, o, moduleNr[m], {moduleNr[k] : k \in 0 .. m})
            /\ sendReg' = Switched(m, silent[m], sendReg)
            /\ UNCHANGED missed
      /\ UNCHANGED <<started, occupied, moduleNr, type, silent, mon, objects, lookups,
                     half, left, strayed>>

\* lcsa_start; after it the messages of the master and the calls of the
\* application.  A slave without modules does nothing more.
Start ==
  /\ ~ started /\ job = Idle /\ occupied # 0
  /\ started' = TRUE
  /\ UNCHANGED <<table, sendReg, nodes, objects, lookups, ctrl, job, hist>>

(***************************************************************************)
(* li_can_slv_config_change_module_nr_and_identifiers, with the vote: the  *)
(* data objects of the position are defined again, a further control       *)
(* object is taken.  An object that was never assigned is object 0.        *)
(***************************************************************************)
\* Every object gets the first identifier.
MutantRedefined(node, objs, k, kind, n) ==
  [o \in DOMAIN node \cup {objs[i] : i \in 0 .. k - 1} |->
     IF \E i \in 0 .. k - 1 : objs[i] = o THEN {<<kind, n, 0>>} ELSE node[o]]

Redefined(node, objs, k, kind, n) ==
  LET uses(o) == {i \in 0 .. k - 1 : objs[i] = o}
  IN  [o \in DOMAIN node \cup {objs[i] : i \in 0 .. k - 1} |->
         IF uses(o) = {} THEN node[o]
         ELSE {<<kind, n, CHOOSE i \in uses(o) : \A j \in uses(o) : j <= i>>}]

Voted(m, vote) == CASE vote = "VALID"                -> "AWAKE"
                    [] vote = "VALID_BUT_SET_SILENT" -> "SILENT"
                    [] OTHER                         -> silent[m]

ChangeModuleNr(m, n, vote) ==
  LET data == Redefined(main, rxMain[m], type[m].rx, "rx", n)
      o    == Free(data, MAIN_SIZE)
      nrs  == {IF k = m THEN n ELSE moduleNr[k] : k \in 0 .. counted - 1}
  IN  /\ started
      /\ moduleNr' = [moduleNr EXCEPT ![m] = n]
      /\ mon' = Redefined(Redefined(mon, txMon[m], type[m].tx, "tx", n),
                          rxMon[m], type[m].rx, "rx", n)
      /\ \/ /\ Full(data, MAIN_SIZE)
            /\ main' = data
            /\ sendReg' = sendReg \cup Flags(m)
            /\ missed' = missed \cup {m}
            /\ UNCHANGED <<silent, ctrl>>
         \/ /\ ~ Full(data, MAIN_SIZE)
            /\ main' = Listening(data, o, n, nrs)
            /\ ctrl' = Control(m, o)
            /\ silent' = [silent EXCEPT ![m] = Voted(m, vote)]
            /\ sendReg' = Switched(m, Voted(m, vote), sendReg)
            /\ missed' = missed \ {m}
      /\ left' = left \cup {moduleNr[m]}
      /\ strayed' = (strayed \/ m \in half)
      /\ UNCHANGED <<started, occupied, counted, type, objects, lookups, job, half>>

\* can_config_change_module_type: no object is taken or given back; the flags
\* of the modules counted and awake are set again.
ChangeModuleType(m) ==
  /\ started
  /\ type' = [type EXCEPT ![m] = Retyped[@]]
  /\ sendReg' = UNION {{k} \X (0 .. type'[k].tx - 1) :
                         k \in {k \in 0 .. counted - 1 : silent[k] = "AWAKE"}}
  /\ UNCHANGED <<started, occupied, counted, moduleNr, silent, nodes, objects, lookups,
                 ctrl, job, hist>>

SetSilentAwake(m, state) ==
  /\ started
  /\ silent' = [silent EXCEPT ![m] = state]
  /\ sendReg' = Switched(m, state, sendReg)
  /\ UNCHANGED <<started, occupied, counted, moduleNr, type, nodes, objects, lookups,
                 ctrl, job, hist>>

-----------------------------------------------------------------------------
Add    == \/ \E n \in Numbers, t \in Types : AddModule(n, t)
          \/ AddTx
          \/ AddRx
          \/ AddControl
Number == \E m \in Modules, n \in Numbers, v \in Votes : ChangeModuleNr(m, n, v)
Type   == \E m \in Modules : ChangeModuleType(m)
Switch == \E m \in Modules, s \in {"SILENT", "AWAKE"} : SetSilentAwake(m, s)

Next == Add \/ Start \/ Number \/ Type \/ Switch

Spec == Init /\ [][Next]_vars

-----------------------------------------------------------------------------
Takers(node, f) == {o \in DOMAIN node : f \in node[o]}
Whole(m)        == m \in Modules \ half
Alone(m)        == \A k \in Modules \ {m} : moduleNr[k] # moduleNr[m]

\* Every data frame of a module is taken by exactly one object of each
\* controller that has to hear it, and the handler finds the module: after
\* every sequence of new numbers, the failed ones too, and beside modules whose
\* adding failed; as long as none of those is given another number.
DataRouted ==
  job = Idle /\ ~ strayed =>
    \A m \in Modules : Whole(m) /\ Alone(m) =>
      /\ \A i \in 0 .. type[m].rx - 1 :
           /\ Takers(main, <<"rx", moduleNr[m], i>>) = {rxMain[m][i]}
           /\ lookMain[rxMain[m][i]] = m
           /\ Takers(mon, <<"rx", moduleNr[m], i>>) = {rxMon[m][i]}
           /\ lookRx[rxMon[m][i]] = m
      /\ \A i \in 0 .. type[m].tx - 1 :
           /\ Takers(mon, <<"tx", moduleNr[m], i>>) = {txMon[m][i]}
           /\ lookTx[txMon[m][i]] = m

\* The master reaches every module under its number and all of them under the
\* broadcast number, whatever the others are renumbered to: the mask lets all
\* numbers pass.  Not a module whose own last change failed, nor one that is
\* not counted because the adding of an earlier one failed.
SystemReached ==
  job = Idle =>
    /\ <<"system", BROADCAST, 0>> \in main[SYS] \cap main[SYS2]
    /\ \A m \in 0 .. counted - 1 : Whole(m) /\ m \notin missed =>
         /\ <<"system", moduleNr[m], 0>> \in main[SYS] \cap main[SYS2]
         /\ <<"async", moduleNr[m], 0>> \in main[ASYNC]

\* A controller hands a frame to the first object that takes it; the
\* dispatcher drops a control frame whose object is not in its list
\* (io_can_async_handler.c:97).
Dispatched(n) ==
  LET takers == Takers(main, <<"control", n, 0>>)
  IN  \E o \in takers : /\ \A p \in takers : o <= p
                        /\ \E k \in Positions : o = ctrl[k]

\* The control frames of a module reach the dispatcher as long as no module was
\* ever moved away from that number and no adding failed: neither the objects
\* that other numbers have left behind nor a change of another module hides the
\* one in the dispatcher's list.  Not those of a module whose own last change
\* found no object.
ControlReached ==
  job = Idle /\ half = {} =>
    \A m \in Modules \ missed : moduleNr[m] \notin left => Dispatched(moduleNr[m])

\* A silent module has a transmit flag set only if a call for it failed
\* half-way: the flags set in between are cleared again.
SilentUnlessFailed ==
  job = Idle =>
    \A f \in sendReg : silent[f[1]] = "SILENT" => f[1] \in missed \cup half
=============================================================================
