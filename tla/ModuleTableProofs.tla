-------------------------- MODULE ModuleTableProofs ---------------------------
(***************************************************************************)
(* For any number of table positions and objects, all module types and     *)
(* every sequence of operations, with messages between any two accesses of *)
(* the application's calls: a silent module sends nothing, a module nobody *)
(* silenced sends all its objects, each goes out under the module's        *)
(* number; the modules a call is at work on and those a message has met a  *)
(* call on excepted.                                                       *)
(***************************************************************************)
EXTENDS ModuleTable, WellFoundedInduction, TLAPS

(***************************************************************************)
(* The types.  send_end is a position in the array of flags because the    *)
(* objects of a position are fewer than OBJS; after a new type it is the   *)
(* greatest one whose flag is set, which exists.  TaskShape says what the  *)
(* application's call is at.                                               *)
(***************************************************************************)
TaskShape ==
  \/ task = Idle
  \/ /\ task.pos \in Modules
     /\ task.call \in {"NUMBER", "SWITCH"}
     /\ task.call = "SWITCH" => task.state # "NONE"
     /\ task.state = "NONE" => task.at \notin {"set", "decide"}
     /\ task.at \in {"id", "mark", "argument"} => task.state = "NONE"
     /\ task.at \in {"argument", "set", "decide"} => task.next = 0
     /\ task.at \in {"id", "load", "store", "mark"} => task.next < OBJS

TypeInv == TypeOK /\ TaskShape

LEMMA ModulesArePositions == ASSUME TypeOK PROVE Modules \subseteq Positions
  BY SizesAssumption DEF TypeOK, Modules, Positions

\* A set of numbers has a least one.
LEMMA LeastNumber ==
  ASSUME NEW T, T \subseteq Nat, T # {}
  PROVE  \E x \in T : \A y \in T : x <= y
<1> DEFINE less == OpToRel(<, Nat)
<1>1. IsWellFoundedOn(less, Nat)
  BY NatLessThanWellFounded
<1>2. \A x, y \in Nat : <<y, x>> \notin less => x <= y
  BY DEF OpToRel
<1> HIDE DEF less
<1>3. PICK x \in T : \A y \in T : ~ (<<y, x>> \in less)
  BY <1>1, WFMin, Zenon
<1> QED
  BY <1>2, <1>3

\* A bounded one has a greatest one.
LEMMA GreatestNumber ==
  ASSUME NEW b \in Nat, NEW T, T \subseteq 0 .. b, T # {}
  PROVE  \E x \in T : \A y \in T : y <= x
<1> DEFINE D == {b - y : y \in T}
<1>1. D \subseteq Nat /\ D # {}
  <2>1. \A y \in T : b - y \in Nat
    OBVIOUS
  <2> QED
    BY <2>1
<1>2. PICK d \in D : \A e \in D : d <= e
  <2> HIDE DEF D
  <2> QED
    BY <1>1, LeastNumber
<1>3. PICK x \in T : d = b - x
  OBVIOUS
<1>4. ASSUME NEW y \in T PROVE y <= x
  <2>1. b - x <= b - y
    BY <1>2, <1>3
  <2> QED
    BY <2>1
<1> QED
  BY <1>4

\* The flags of different objects of the table fit the array.
LEMMA BitRange ==
  ASSUME NEW m \in Positions, NEW k \in 0 .. OBJS - 1
  PROVE  OBJS * m + k \in 0 .. OBJS * MAX - 1
<1> USE SizesAssumption DEF Positions
<1>1. OBJS * m \in Nat /\ OBJS * (MAX - 1 - m) \in Nat
  BY MAX - 1 - m \in Nat
<1>2. OBJS * MAX = OBJS * m + OBJS * (MAX - 1 - m) + OBJS
  OBVIOUS
<1> QED
  BY <1>1, <1>2

LEMMA FirstBit == OBJS * MAX \in Nat /\ 0 \in 0 .. OBJS * MAX - 1
<1>1. 0 \in Positions /\ 0 \in 0 .. OBJS - 1
  BY SizesAssumption DEF Positions
<1>2. OBJS * 0 + 0 \in 0 .. OBJS * MAX - 1
  BY <1>1, BitRange
<1>3. OBJS * MAX \in Nat
  BY SizesAssumption
<1> QED
  BY <1>2, <1>3, SizesAssumption

LEMMA LastBitRange ==
  ASSUME sendEnd \in 0 .. OBJS * MAX - 1, NEW m \in Positions, NEW n \in 0 .. OBJS
  PROVE  LastBit(m, n) \in 0 .. OBJS * MAX - 1
<1>1. CASE n = 0
  BY <1>1 DEF LastBit
<1>2. CASE n # 0
  <2>1. n - 1 \in 0 .. OBJS - 1
    BY <1>2, SizesAssumption
  <2>2. LastBit(m, n) = OBJS * m + (n - 1)
    BY <1>2 DEF LastBit, Bit
  <2> QED
    BY <2>1, <2>2, BitRange
<1> QED
  BY <1>1, <1>2

\* A flag below the number of objects of a module is one of the array.
LEMMA ObjectFlag ==
  ASSUME NEW nr \in 0 .. MAX, NEW tx \in [Positions -> 0 .. OBJS], NEW f,
         f[1] \in 0 .. nr - 1, f \in {f[1]} \X (0 .. tx[f[1]] - 1)
  PROVE  f \in AllFlags
<1>1. f[1] \in Positions
  BY SizesAssumption DEF Positions
<1>2. f[2] \in 0 .. OBJS - 1
  BY <1>1, SizesAssumption
<1> QED
  BY <1>1, <1>2 DEF AllFlags

LEMMA NumberTypes ==
  /\ Numbers \subseteq AllNumbers
  /\ \A i \in Positions, n \in Numbers : Declared(i, n) \in AllNumbers
<1>1. DEF_NR + 0 = DEF_NR /\ 0 \in Positions
  BY SizesAssumption, NumbersAssumption DEF Positions
<1>2. DEF_NR \in AllNumbers
  BY <1>1 DEF AllNumbers
<1> QED
  BY <1>2 DEF AllNumbers, Declared

LEMMA IdentifierTypes ==
  ASSUME id \in [AllFlags -> AllNumbers], NEW m, NEW n, NEW nr \in AllNumbers
  PROVE  Identifiers(m, n, nr) \in [AllFlags -> AllNumbers]
BY DEF Identifiers

LEMMA FlagsAreOwn == ASSUME NEW m, NEW f \in Flags(m) PROVE f[1] = m
  BY DEF Flags

\* The flags of a module are flags of the array.
LEMMA FlagTypes ==
  ASSUME TypeOK, NEW m \in Modules, NEW f \in Flags(m)
  PROVE  f \in AllFlags /\ f[1] = m /\ f[2] \in 0 .. OBJS - 1
<1>1. f[1] = m
  BY FlagsAreOwn
<1>2. f \in AllFlags
  BY <1>1, ObjectFlag DEF TypeOK, Modules, Flags
<1> QED
  BY <1>1, <1>2 DEF AllFlags

\* Without a call of the application at work no position is excepted.
LEMMA IdlePos ==
  ASSUME TypeOK
  PROVE  /\ Idle.pos = -1 /\ -1 \notin Modules
         /\ task.pos \in Modules => task # Idle
         /\ Idle \in [call : {"NONE", "NUMBER", "SWITCH"}, pos : Positions \cup {-1},
               at : Accesses, nr : AllNumbers, state : {"NONE", "SILENT", "AWAKE"},
               next : 0 .. OBJS, reg : SUBSET AllFlags]
  BY SizesAssumption DEF Idle, TypeOK, Modules, AllNumbers, Accesses

\* While a call is at work, the fields of its record.
LEMMA AtWork ==
  ASSUME TypeInv, task # Idle
  PROVE  /\ task.pos \in Modules /\ task.pos \in Positions
         /\ task.call \in {"NUMBER", "SWITCH"}
         /\ txObj[task.pos] \in 0 .. OBJS
         /\ silent[task.pos] \in {"SILENT", "AWAKE"}
         /\ task.next \in 0 .. OBJS /\ task.nr \in AllNumbers
         /\ task.at \in {"id", "load", "store", "mark"} =>
              Object \in AllFlags /\ Bit(Object) \in 0 .. OBJS * MAX - 1
<1>1. task.pos \in Modules /\ task.pos \in Positions /\ task.next \in 0 .. OBJS
  BY ModulesArePositions DEF TypeInv, TaskShape, TypeOK
<1>2. ASSUME task.at \in {"id", "load", "store", "mark"}
      PROVE  Object \in AllFlags /\ Bit(Object) \in 0 .. OBJS * MAX - 1
  <2>1. task.next \in 0 .. OBJS - 1
    BY <1>1, <1>2, SizesAssumption DEF TypeInv, TaskShape
  <2>2. Bit(Object) \in 0 .. OBJS * MAX - 1
    BY <1>1, <2>1, BitRange DEF Bit, Object
  <2> QED
    BY <1>1, <2>1, <2>2 DEF AllFlags, Object
<1> QED
  BY <1>1, <1>2 DEF TypeInv, TaskShape, TypeOK

LEMMA InitTypes == Init => TypeInv
<1> SUFFICES ASSUME Init PROVE TypeInv
  OBVIOUS
<1>1. 0 \in AllNumbers /\ 0 \in 0 .. OBJS /\ 0 \in Positions /\ 0 \in 0 .. MAX
  BY SizesAssumption DEF AllNumbers, Positions
<1>2. 0 \in 0 .. OBJS * MAX - 1 /\ 0 \in 0 .. OBJS * MAX
  BY FirstBit
<1>3. task \in [call : {"NONE", "NUMBER", "SWITCH"}, pos : Positions \cup {-1},
               at : Accesses, nr : AllNumbers, state : {"NONE", "SILENT", "AWAKE"},
               next : 0 .. OBJS, reg : SUBSET AllFlags]
  BY <1>1 DEF Init, Idle, Accesses
<1> QED
  BY <1>1, <1>2, <1>3 DEF Init, TypeInv, TypeOK, TaskShape

\* The messages, the adding of a module and the handler of a process request.
LEMMA MessageTypes ==
  ASSUME TypeInv, Start \/ Switch \/ Number
  PROVE  TypeInv'
<1> USE DEF TypeInv, TypeOK, TaskShape
<1>0. Modules \subseteq Positions
  BY ModulesArePositions
<1>1. CASE Start
  <2>1. PICK n \in Numbers : AddModule(n)
    BY <1>1 DEF Start
  <2> DEFINE i == nrOfModules
  <2>2. i \in Positions /\ i + 1 \in 0 .. MAX
    BY <2>1, SizesAssumption DEF AddModule, Positions
  <2>3. TxObjs[i] \in 0 .. OBJS
    BY <2>2, TypesAssumption DEF Positions
  <2>4. Declared(i, n) \in AllNumbers
    BY <2>2, NumberTypes
  <2>5. id' \in [AllFlags -> AllNumbers]
    BY <2>1, <2>4, IdentifierTypes DEF AddModule
  <2>6. sendEnd' \in 0 .. OBJS * MAX - 1
    BY <2>1, <2>2, <2>3, LastBitRange DEF AddModule
  <2>7. moduleNr' \in [Positions -> AllNumbers]
    BY <2>1, <2>2, <2>4 DEF AddModule
  <2>8. {i} \X (0 .. TxObjs[i] - 1) \subseteq AllFlags
    BY <2>2, <2>3, SizesAssumption DEF AllFlags
  <2>9. sendReg' \subseteq AllFlags
    BY <2>1, <2>8 DEF AddModule
  <2>10. task = Idle /\ task' = task
    BY <2>1 DEF AddModule
  <2>11. txObj' \in [Positions -> 0 .. OBJS]
    BY <2>1, <2>3 DEF AddModule
  <2> QED
    BY <2>1, <2>2, <2>5, <2>6, <2>7, <2>9, <2>10, <2>11 DEF AddModule, hist, sending
<1>2. ASSUME NEW m \in Modules, NEW s \in {"SILENT", "AWAKE"}
      PROVE  Switched(m, s, sendReg) \subseteq AllFlags
  BY FlagTypes DEF Switched
<1>3. CASE Switch
  <2>1. PICK m \in Modules, s \in {"SILENT", "AWAKE"} : SetSilentAwake(m, s)
    BY <1>3 DEF Switch
  <2>2. sendReg' \subseteq AllFlags
    BY <1>2, <2>1 DEF SetSilentAwake
  <2> QED
    BY <1>0, <2>1, <2>2 DEF SetSilentAwake, Remember, Modules, sending
<1>4. CASE Number
  <2>1. PICK m \in Modules, n \in Numbers, v \in Votes : ChangeModuleNr(m, n, v)
    BY <1>4 DEF Number
  <2>2. m \in Positions /\ n \in AllNumbers /\ txObj[m] \in 0 .. OBJS
    BY <1>0, NumberTypes
  <2>3. id' \in [AllFlags -> AllNumbers]
    BY <2>1, <2>2, IdentifierTypes DEF ChangeModuleNr
  <2>4. sendEnd' \in 0 .. OBJS * MAX - 1
    BY <2>1, <2>2, LastBitRange DEF ChangeModuleNr
  <2>5. Voted(m, v) \in {"SILENT", "AWAKE"}
    BY <2>2 DEF Voted
  <2>6. sendReg' \subseteq AllFlags
    BY <1>2, <2>1, <2>5 DEF ChangeModuleNr
  <2> QED
    BY <1>0, <2>1, <2>2, <2>3, <2>4, <2>5, <2>6
    DEF ChangeModuleNr, Remember, Modules, sending
<1> QED
  BY <1>1, <1>3, <1>4

LEMMA TypeTypes ==
  ASSUME TypeInv, Type
  PROVE  TypeInv'
<1>1. PICK m \in Modules : ChangeModuleType(m)
  BY DEF Type
<1> DEFINE objs  == [txObj EXCEPT ![m] = NewTxObjs[m]]
           flags == UNION {{j} \X (0 .. objs[j] - 1) : j \in Awake}
           bits  == {Bit(f) : f \in flags}
<1>2. objs \in [Positions -> 0 .. OBJS]
  BY ModulesArePositions, TypesAssumption DEF TypeInv, TypeOK, Positions
<1>3. ASSUME NEW f \in flags PROVE f \in AllFlags
  <2>1. PICK j \in Awake : f \in {j} \X (0 .. objs[j] - 1)
    OBVIOUS
  <2>2. f[1] = j /\ j \in 0 .. nrOfModules - 1
    BY <2>1 DEF Awake, Modules
  <2> HIDE DEF objs
  <2> QED
    BY <1>2, <2>1, <2>2, ObjectFlag DEF TypeInv, TypeOK
<1>4. bits \subseteq 0 .. OBJS * MAX - 1
  <2> SUFFICES ASSUME NEW f \in flags PROVE Bit(f) \in 0 .. OBJS * MAX - 1
    OBVIOUS
  <2>1. f[1] \in Positions /\ f[2] \in 0 .. OBJS - 1
    BY <1>3 DEF AllFlags
  <2> QED
    BY <2>1, BitRange DEF Bit
<1>5. sendEnd' \in 0 .. OBJS * MAX - 1
  <2>1. sendEnd' = IF flags = {} THEN 0
                   ELSE CHOOSE b \in bits : \A f \in flags : Bit(f) <= b
    BY <1>1 DEF ChangeModuleType, Rebuilt
  <2>2. OBJS * MAX - 1 \in Nat /\ 0 \in 0 .. OBJS * MAX - 1
    BY FirstBit
  <2>3. CASE flags # {}
    <3>1. bits # {}
      BY <2>3
    <3>2. \E b \in bits : \A c \in bits : c <= b
      <4> HIDE DEF bits
      <4> QED
        BY <1>4, <2>2, <3>1, GreatestNumber
    <3>3. \E b \in bits : \A f \in flags : Bit(f) <= b
      BY <3>2
    <3>4. sendEnd' \in bits
      <4> HIDE DEF bits, flags
      <4> QED
        BY <2>1, <2>3, <3>3
    <3> QED
      BY <1>4, <3>4
  <2> QED
    BY <2>1, <2>2, <2>3
<1>6. id' \in [AllFlags -> AllNumbers]
  <2>1. id' = [f \in AllFlags |-> IF f \in flags THEN moduleNr[f[1]] ELSE id[f]]
    BY <1>1 DEF ChangeModuleType, Rebuilt
  <2> HIDE DEF flags
  <2> QED
    BY <2>1 DEF TypeInv, TypeOK, AllFlags
<1>7. /\ stale' \in SUBSET Positions /\ raced' \in SUBSET Positions
      /\ crossed' \in SUBSET Positions
  <2>1. m \in Positions
    BY ModulesArePositions DEF TypeInv
  <2> QED
    BY <1>1, <2>1 DEF ChangeModuleType, TypeInv, TypeOK
<1>8. sendReg' \subseteq AllFlags
  <2>1. sendReg' = flags
    BY <1>1 DEF ChangeModuleType, Rebuilt
  <2> HIDE DEF flags
  <2> QED
    BY <1>3, <2>1
<1>9. txObj' \in [Positions -> 0 .. OBJS]
  BY <1>1, <1>2 DEF ChangeModuleType
<1>10. UNCHANGED <<nrOfModules, moduleNr, silent, send, sendCurrent, task>>
  BY <1>1 DEF ChangeModuleType, sending
<1>11. critical' \in SUBSET Positions
  BY <1>1 DEF ChangeModuleType, TypeInv, TypeOK
<1> QED
  BY <1>5, <1>6, <1>7, <1>8, <1>9, <1>10, <1>11 DEF TypeInv, TypeOK, TaskShape, Modules

\* The beginning of a call of the application.
LEMMA CallTypes ==
  ASSUME TypeInv, NEW m \in Modules,
         \/ \E n \in Numbers : TaskChangeModuleNr(m, n)
         \/ \E s \in {"SILENT", "AWAKE"} : TaskSetSilentAwake(m, s)
         \/ TaskSetCritical(m)
  PROVE  TypeInv' /\ task'.pos = m
<1>1. m \in Positions
  BY ModulesArePositions DEF TypeInv
<1>2. UNCHANGED <<nrOfModules, txObj, silent, crossed, id, sendReg, sendEnd, send,
                  sendCurrent>>
  BY DEF TaskChangeModuleNr, TaskSetSilentAwake, TaskSetCritical, Call, ctrl, sending
<1>3. /\ moduleNr' \in [Positions -> AllNumbers] /\ critical' \in SUBSET Positions
      /\ stale' \in SUBSET Positions /\ raced' \in SUBSET Positions
  BY <1>1, NumberTypes
  DEF TaskChangeModuleNr, TaskSetSilentAwake, TaskSetCritical, TypeInv, TypeOK
<1>4. /\ task' \in [call : {"NONE", "NUMBER", "SWITCH"}, pos : Positions \cup {-1},
                    at : Accesses, nr : AllNumbers, state : {"NONE", "SILENT", "AWAKE"},
                    next : 0 .. OBJS, reg : SUBSET AllFlags]
      /\ task'.pos = m /\ task'.call \in {"NUMBER", "SWITCH"}
      /\ task'.call = "SWITCH" => task'.state # "NONE"
      /\ task'.at \in {"test", "set"} /\ task'.next = 0
      /\ task'.at = "set" => task'.state # "NONE"
  <2>1. ASSUME NEW n \in Numbers, TaskChangeModuleNr(m, n) PROVE <1>4!:
    <3>1. n \in AllNumbers
      BY NumberTypes
    <3> QED
      BY <1>1, <2>1, <3>1, IdlePos DEF TaskChangeModuleNr, Call, Idle, TypeInv
  <2>2. ASSUME NEW s \in {"SILENT", "AWAKE"}, TaskSetSilentAwake(m, s) PROVE <1>4!:
    BY <1>1, <2>2, IdlePos DEF TaskSetSilentAwake, Call, Idle, TypeInv, Accesses
  <2>3. CASE TaskSetCritical(m)
    BY <1>1, <2>3, IdlePos DEF TaskSetCritical, Call, Idle, TypeInv
  <2> QED
    BY <2>1, <2>2, <2>3
<1> QED
  BY <1>2, <1>3, <1>4 DEF TypeInv, TypeOK, TaskShape, Modules

\* What the accesses of a call leave alone, and its record.
LEMMA AccessFields ==
  ASSUME TypeInv, NEW here, NEW next, Access(here, next)
  PROVE  /\ task # Idle /\ task.at = here /\ task' = next
         /\ UNCHANGED <<nrOfModules, moduleNr, txObj, critical, stale, raced, crossed,
                        send, sendCurrent>>
         /\ send = {}
  BY DEF Access, hist, sending, NotSending

Accessing == TaskLoop \/ TaskIdentifier \/ TaskLoad \/ TaskStore \/ TaskMark
             \/ TaskArgument \/ TaskSet \/ TaskDecide

LEMMA AccessTypes ==
  ASSUME TypeInv, Accessing
  PROVE  TypeInv'
<1> DEFINE record == [call : {"NONE", "NUMBER", "SWITCH"}, pos : Positions \cup {-1},
                    at : Accesses, nr : AllNumbers, state : {"NONE", "SILENT", "AWAKE"},
                    next : 0 .. OBJS, reg : SUBSET AllFlags]
<1>0. /\ task # Idle /\ task \in record
      /\ UNCHANGED <<nrOfModules, moduleNr, txObj, critical, stale, raced, crossed,
                     send, sendCurrent>>
  BY AccessFields DEF Accessing, TaskLoop, TaskIdentifier, TaskLoad, TaskStore, TaskMark,
     TaskArgument, TaskSet, TaskDecide, TypeInv, TypeOK
<1>1. task' \in record /\ TaskShape'
  <2>1. CASE TaskLoop /\ task.next < txObj[task.pos]
    <3>1. task' = [task EXCEPT !.at = IF Configuring THEN "id" ELSE "load"]
      BY <2>1, AccessFields DEF TaskLoop
    <3>2. Configuring => task.state = "NONE"
      BY DEF Configuring
    <3>3. task.next < OBJS
      BY <1>0, <2>1, AtWork, SizesAssumption
    <3> QED
      BY <1>0, <3>1, <3>2, <3>3, AtWork DEF TypeInv, TaskShape, Accesses, Modules
  <2>2. CASE TaskLoop /\ ~ (task.next < txObj[task.pos]) /\ Configuring
    <3>1. task' = [task EXCEPT !.at = "argument", !.next = 0]
      BY <2>2, AccessFields DEF TaskLoop
    <3>2. task.state = "NONE" /\ 0 \in 0 .. OBJS
      BY <2>2, SizesAssumption DEF Configuring
    <3>3. task.call \in {"NUMBER", "SWITCH"} /\ task.pos \in Modules
      BY <1>0, AtWork
    <3>4. task.call # "SWITCH"
      BY <2>2 DEF Configuring
    <3>5. /\ task' \in record /\ task'.at = "argument" /\ task'.next = 0
          /\ task'.call = task.call /\ task'.pos = task.pos
          /\ task'.state = task.state
      BY <1>0, <3>1, <3>2 DEF Accesses
    <3> QED
      BY <1>0, <3>2, <3>3, <3>4, <3>5 DEF TaskShape, Modules
  <2>3. CASE TaskLoop /\ ~ (task.next < txObj[task.pos]) /\ ~ Configuring
    <3>1. task' = Idle
      BY <2>3, AccessFields DEF TaskLoop
    <3> QED
      BY <3>1, IdlePos DEF TypeInv, TaskShape
  <2>4. CASE TaskIdentifier
    <3>1. task' = [task EXCEPT !.at = "load"] /\ task.at = "id"
      BY <2>4, AccessFields DEF TaskIdentifier
    <3> QED
      BY <1>0, <3>1, AtWork DEF TypeInv, TaskShape, Accesses, Modules
  <2>5. CASE TaskLoad
    <3>1. task' = [task EXCEPT !.at = "store", !.reg = sendReg] /\ task.at = "load"
      BY <2>5, AccessFields DEF TaskLoad
    <3>2. sendReg \in SUBSET AllFlags
      BY DEF TypeInv, TypeOK
    <3> QED
      BY <1>0, <3>1, <3>2, AtWork DEF TypeInv, TaskShape, Accesses, Modules
  <2>6. CASE TaskStore
    <3>1. /\ task.at = "store"
          /\ task' = IF Configuring THEN [task EXCEPT !.at = "mark", !.reg = {}]
                     ELSE [task EXCEPT !.at = "test", !.next = @ + 1, !.reg = {}]
      BY <2>6, AccessFields DEF TaskStore
    <3>2. task.next + 1 \in 0 .. OBJS
      BY <1>0, <3>1, AtWork, SizesAssumption DEF TypeInv, TaskShape
    <3>3. Configuring => task.state = "NONE"
      BY DEF Configuring
    <3>4. CASE Configuring
      BY <1>0, <3>1, <3>3, <3>4, AtWork DEF TypeInv, TaskShape, Accesses, Modules
    <3>5. CASE ~ Configuring
      BY <1>0, <3>1, <3>2, <3>5, AtWork DEF TypeInv, TaskShape, Accesses, Modules
    <3> QED
      BY <3>4, <3>5
  <2>7. CASE TaskMark
    <3>1. task' = [task EXCEPT !.at = "test", !.next = @ + 1] /\ task.at = "mark"
      BY <2>7, AccessFields DEF TaskMark
    <3>2. task.next + 1 \in 0 .. OBJS
      BY <1>0, <3>1, AtWork, SizesAssumption DEF TypeInv, TaskShape
    <3> QED
      BY <1>0, <3>1, <3>2, AtWork DEF TypeInv, TaskShape, Accesses, Modules
  <2>8. CASE TaskArgument
    <3>1. /\ task' = [task EXCEPT !.at = "set", !.state = silent[task.pos]]
          /\ task.at = "argument"
      BY <2>8, AccessFields DEF TaskArgument
    <3> QED
      BY <1>0, <3>1, AtWork DEF TypeInv, TaskShape, Accesses, Modules
  <2>9. CASE TaskSet
    <3>1. task' = [task EXCEPT !.at = "decide"] /\ task.at = "set"
      BY <2>9, AccessFields DEF TaskSet
    <3> QED
      BY <1>0, <3>1, AtWork DEF TypeInv, TaskShape, Accesses, Modules
  <2>10. CASE TaskDecide
    <3>1. /\ task' = [task EXCEPT !.at = "test", !.state = silent[task.pos]]
          /\ task.at = "decide"
      BY <2>10, AccessFields DEF TaskDecide
    <3> QED
      BY <1>0, <3>1, AtWork DEF TypeInv, TaskShape, Accesses, Modules
  <2> QED
    BY <2>1, <2>2, <2>3, <2>4, <2>5, <2>6, <2>7, <2>8, <2>9, <2>10 DEF Accessing
<1>2. sendReg' \in SUBSET AllFlags
  <2>1. CASE TaskStore
    <3>1. task.reg \subseteq AllFlags
      BY <1>0
    <3>2. Object \in AllFlags
      BY <1>0, <2>1, AtWork, AccessFields DEF TaskStore
    <3> QED
      BY <2>1, <3>1, <3>2 DEF TaskStore
  <2>2. CASE ~ TaskStore
    BY <2>2 DEF Accessing, TaskLoop, TaskIdentifier, TaskLoad, TaskMark, TaskArgument,
       TaskSet, TaskDecide, ctrl, TypeInv, TypeOK
  <2> QED
    BY <2>1, <2>2
<1>3. id' \in [AllFlags -> AllNumbers] /\ sendEnd' \in 0 .. OBJS * MAX - 1
  <2>1. CASE TaskIdentifier
    BY <1>0, <2>1, AtWork DEF TaskIdentifier, TypeInv, TypeOK
  <2>2. CASE TaskMark
    <3>1. Bit(Object) \in 0 .. OBJS * MAX - 1
      BY <1>0, <2>2, AtWork, AccessFields DEF TaskMark
    <3> QED
      BY <2>2, <3>1 DEF TaskMark, TypeInv, TypeOK
  <2>3. CASE ~ TaskIdentifier /\ ~ TaskMark
    BY <2>3 DEF Accessing, TaskLoop, TaskStore, TaskLoad, TaskArgument,
       TaskSet, TaskDecide, ctrl, TypeInv, TypeOK
  <2> QED
    BY <2>1, <2>2, <2>3
<1>4. silent' \in [Positions -> {"SILENT", "AWAKE"}]
  <2>1. CASE TaskSet
    <3>1. task.state \in {"SILENT", "AWAKE"}
      BY <1>0, <2>1, AccessFields DEF TaskSet, TypeInv, TaskShape
    <3> QED
      BY <1>0, <2>1, <3>1, AtWork DEF TaskSet, TypeInv, TypeOK
  <2>2. CASE ~ TaskSet
    BY <2>2 DEF Accessing, TaskLoop, TaskIdentifier, TaskLoad, TaskStore, TaskMark,
       TaskArgument, TaskDecide, TypeInv, TypeOK
  <2> QED
    BY <2>1, <2>2
<1> QED
  BY <1>0, <1>1, <1>2, <1>3, <1>4 DEF TypeInv, TypeOK

\* One step per group of operations.
LEMMA StepTypes ==
  ASSUME TypeInv, [Next]_vars
  PROVE  TypeInv'
<1>1. CASE Start \/ Switch \/ Number
  BY <1>1, MessageTypes
<1>2. CASE Type
  BY <1>2, TypeTypes
<1>3. CASE Task
  BY <1>3, CallTypes, AccessTypes DEF Task, Accessing
<1>4. CASE ProcessRequest
  BY <1>4, FirstBit
  DEF ProcessRequest, table, hist, ctrl, TypeInv, TypeOK, TaskShape, Modules
<1>5. CASE SkipBit
  <2>1. sendCurrent' \in 0 .. OBJS * MAX
    BY <1>5, SizesAssumption DEF SkipBit, TypeInv, TypeOK
  <2> QED
    BY <1>5, <2>1 DEF SkipBit, table, hist, ctrl, TypeInv, TypeOK, TaskShape, Modules
<1>6. CASE SendObject
  <2>1. PICK f \in send : Bit(f) = sendCurrent
    BY <1>6 DEF SendObject, Current
  <2>2. f[1] \in Positions /\ f[2] \in 0 .. OBJS - 1
    BY DEF AllFlags, TypeInv, TypeOK
  <2>3. sendCurrent \in 0 .. OBJS * MAX - 1
    BY <2>1, <2>2, BitRange DEF Bit
  <2>4. sendCurrent' \in 0 .. OBJS * MAX
    BY <1>6, <2>3, SizesAssumption DEF SendObject
  <2> QED
    BY <1>6, <2>4 DEF SendObject, table, hist, ctrl, TypeInv, TypeOK, TaskShape, Modules
<1>7. CASE Spin \/ UNCHANGED vars
  BY <1>7 DEF Spin, vars, table, hist, ctrl, sending, TypeInv, TypeOK, TaskShape, Modules
<1> QED
  BY <1>1, <1>2, <1>3, <1>4, <1>5, <1>6, <1>7 DEF Next, Loop

LEMMA TypesInvariant == Spec => []TypeInv
  BY InitTypes, StepTypes, PTL DEF Spec

\* Every reachable state of the module table, the transmit control and the
\* application's call has the types TypeOK names; send_end and the loop's index
\* stay inside the array.
THEOREM TypeCorrect == Spec => []TypeOK
<1>1. TypeInv => TypeOK
  BY DEF TypeInv
<1> QED
  BY <1>1, TypesInvariant, PTL


-----------------------------------------------------------------------------
(***************************************************************************)
(* The flags.  What the array of flags keeps has to hold of the copy the   *)
(* application's call has loaded, too: it will be the array.  A flag may   *)
(* be that of a silent module only while a call is at work on the module   *)
(* or a message met one; a call of can_config_sync_off or                  *)
(* can_config_sync_on has cleared or set the flags of the objects before   *)
(* the next one, and does what the state of its module says.               *)
(***************************************************************************)
Masks == IF task.at = "store" THEN {sendReg, task.reg} ELSE {sendReg}

Switching == task.call # "NONE" /\ task.state # "NONE"
             /\ task.at \in {"test", "load", "store"}

\* The call's loop is inside the objects of its module.
TaskWithin ==
  task.pos \in Modules \ crossed =>
    /\ task.next <= txObj[task.pos]
    /\ task.at \in {"id", "load", "store", "mark"} => task.next < txObj[task.pos]

\* The state the call acts upon is that of its module.
StateTaken ==
  task.pos \in Modules \ Disputed =>
    /\ task.at = "decide" \/ (task.at = "set" /\ task.call = "NUMBER")
         => task.state = silent[task.pos]
    /\ Switching => \/ task.state = silent[task.pos]
                    \/ task.state = "SILENT" /\ task.pos \in critical

AreObjects(F) ==
  \A f \in F : f[1] \in Modules /\ (f[1] \in crossed \/ f \in Flags(f[1]))

AreAwake(F) ==
  \A f \in F : f[1] \in Disputed \cup {task.pos} \/ silent[f[1]] = "AWAKE"

HoldsAwake(F) ==
  \A m \in Awake \ (critical \cup Disputed \cup BeingSwitched) : Flags(m) \subseteq F

\* What the loop of the call has passed is done.
LoopDone(F) ==
  task.pos \in Modules \ Disputed /\ Switching =>
    \A i \in 0 .. task.next - 1 :
      /\ silent[task.pos] = "SILENT" => <<task.pos, i>> \notin F
      /\ silent[task.pos] = "AWAKE" /\ task.pos \notin critical => <<task.pos, i>> \in F

MasksInv == \A F \in Masks : AreObjects(F) /\ AreAwake(F) /\ HoldsAwake(F) /\ LoopDone(F)
FlagsInv == TaskWithin /\ StateTaken /\ MasksInv /\ AreObjects(send) /\ AreAwake(send)

LEMMA InitFlags == Init => FlagsInv
  BY SizesAssumption
  DEF Init, FlagsInv, TaskWithin, StateTaken, MasksInv, Masks, AreObjects, AreAwake,
      HoldsAwake, LoopDone, Modules, Awake, Idle

\* Where a flag belongs to another module, switching m changes nothing.
LEMMA SwitchedOthers ==
  ASSUME NEW m, NEW s, NEW F, NEW f, f[1] # m
  PROVE  f \in Switched(m, s, F) <=> f \in F
<1>1. f \notin Flags(m)
  BY FlagsAreOwn
<1> QED
  BY <1>1 DEF Switched

LEMMA RememberOthers ==
  ASSUME NEW set, NEW m, NEW met, NEW k
  PROVE  /\ k # m => (k \in Remember(set, m, met) <=> k \in set)
         /\ met => m \in Remember(set, m, met)
  BY DEF Remember

\* A message makes module m silent or awake, possibly with a new number.
LEMMA SwitchFlags ==
  ASSUME TypeInv, FlagsInv, NEW m \in Modules, NEW s \in {"SILENT", "AWAKE"},
         send = {}, silent' = [silent EXCEPT ![m] = s],
         sendReg' = Switched(m, s, sendReg), raced' = Remember(raced, m, Meets(m)),
         critical' = critical \ {m},
         UNCHANGED <<nrOfModules, txObj, crossed, task, send>>
  PROVE  FlagsInv'
<1>1. /\ m \in Positions /\ silent'[m] = s /\ Modules' = Modules
      /\ \A k \in Modules : k # m => silent'[k] = silent[k]
      /\ \A k : Flags(k)' = Flags(k)
  BY ModulesArePositions DEF TypeInv, TypeOK, Modules, Flags
<1>2. \A k : k # m => (k \in Disputed' <=> k \in Disputed)
  BY RememberOthers DEF Disputed
<1>3. Meets(m) => m \in Disputed'
  BY RememberOthers DEF Disputed
<1>4. task.at = "store" => m \in Disputed'
  BY <1>3 DEF Meets
<1>5. task.pos = m => m \in Disputed'
  BY <1>3 DEF Meets
<1>6. ASSUME NEW F \in Masks'
      PROVE  F = sendReg' \/ (task.at = "store" /\ F = task.reg /\ F \in Masks)
  BY DEF Masks
<1>7. sendReg \in Masks
  BY DEF Masks
<1>8. ASSUME NEW F \in Masks' PROVE AreObjects(F)'
  <2> SUFFICES ASSUME NEW f \in F
               PROVE  f[1] \in Modules /\ (f[1] \in crossed \/ f \in Flags(f[1]))
    BY <1>1 DEF AreObjects
  <2>1. CASE f \in Flags(m)
    BY <2>1, FlagsAreOwn
  <2>2. CASE f \notin Flags(m)
    <3>1. f \in sendReg \/ (F \in Masks)
      BY <1>6, <2>2 DEF Switched
    <3> QED
      BY <1>7, <3>1 DEF FlagsInv, MasksInv, AreObjects
  <2> QED
    BY <2>1, <2>2
<1>9. ASSUME NEW F \in Masks' PROVE AreAwake(F)'
  <2> SUFFICES ASSUME NEW f \in F
               PROVE  f[1] \in Disputed' \cup {task.pos} \/ silent'[f[1]] = "AWAKE"
    BY DEF AreAwake
  <2>1. CASE f[1] # m
    <3>1. f \in sendReg \/ F \in Masks
      BY <1>6, <2>1, SwitchedOthers
    <3>2. f[1] \in Modules /\ (f[1] \in Disputed \cup {task.pos} \/ silent[f[1]] = "AWAKE")
      BY <1>7, <3>1 DEF FlagsInv, MasksInv, AreAwake, AreObjects
    <3> QED
      BY <1>1, <1>2, <2>1, <3>2
  <2>2. CASE f[1] = m /\ s = "AWAKE"
    BY <1>1, <2>2
  <2>3. CASE f[1] = m /\ s # "AWAKE"
    <3>1. CASE F # sendReg'
      BY <1>4, <1>6, <2>3, <3>1
    <3>2. CASE F = sendReg'
      <4>1. f \in sendReg /\ f \notin Flags(m)
        BY <2>3, <3>2 DEF Switched
      <4>2. m \in crossed
        BY <1>7, <2>3, <4>1 DEF FlagsInv, MasksInv, AreObjects
      <4> QED
        BY <2>3, <4>2 DEF Disputed
    <3> QED
      BY <3>1, <3>2
  <2> QED
    BY <2>1, <2>2, <2>3
<1>10. ASSUME NEW F \in Masks' PROVE HoldsAwake(F)'
  <2> SUFFICES ASSUME NEW k \in Awake' \ (critical' \cup Disputed' \cup BeingSwitched),
                      NEW f \in Flags(k)
               PROVE  f \in F
    BY <1>1 DEF HoldsAwake, BeingSwitched
  <2>0. k \in Modules /\ silent'[k] = "AWAKE" /\ f[1] = k
    BY <1>1, FlagsAreOwn DEF Awake
  <2>1. CASE k # m
    <3>1. k \in Awake \ (critical \cup Disputed \cup BeingSwitched)
      BY <1>1, <1>2, <2>0, <2>1 DEF Awake
    <3>2. f \in sendReg /\ (F \in Masks => f \in F)
      BY <1>7, <3>1 DEF FlagsInv, MasksInv, HoldsAwake
    <3> QED
      BY <1>6, <2>0, <2>1, <3>2, SwitchedOthers
  <2>2. CASE k = m
    BY <1>1, <1>4, <1>6, <2>0, <2>2 DEF Switched
  <2> QED
    BY <2>1, <2>2
<1>11. ASSUME NEW F \in Masks' PROVE LoopDone(F)'
  <2> SUFFICES ASSUME task.pos \in Modules \ Disputed', Switching,
                      NEW i \in 0 .. task.next - 1
               PROVE  /\ silent'[task.pos] = "SILENT" => <<task.pos, i>> \notin F
                      /\ silent'[task.pos] = "AWAKE" /\ task.pos \notin critical'
                           => <<task.pos, i>> \in F
    BY <1>1 DEF LoopDone, Switching
  <2>1. task.pos # m /\ task.pos \notin Disputed /\ silent'[task.pos] = silent[task.pos]
    BY <1>1, <1>2, <1>5
  <2>2. <<task.pos, i>> \in Switched(m, s, sendReg) <=> <<task.pos, i>> \in sendReg
    BY <2>1, SwitchedOthers
  <2>3. LoopDone(sendReg) /\ (F \in Masks => LoopDone(F))
    BY <1>7 DEF FlagsInv, MasksInv
  <2> QED
    BY <1>6, <2>1, <2>2, <2>3 DEF LoopDone
<1>12. StateTaken'
  BY <1>1, <1>2, <1>5 DEF FlagsInv, StateTaken, Switching
<1>13. TaskWithin'
  BY <1>1 DEF FlagsInv, TaskWithin
<1> QED
  BY <1>8, <1>9, <1>10, <1>11, <1>12, <1>13
  DEF FlagsInv, MasksInv, AreObjects, AreAwake

\* A change of type builds the flags again; what a call has loaded stays.
LEMMA TypeFlags ==
  ASSUME TypeInv, FlagsInv, NEW m \in Modules, ChangeModuleType(m)
  PROVE  FlagsInv'
<1> DEFINE objs == [txObj EXCEPT ![m] = NewTxObjs[m]]
           atWork == IF task.at = "store" THEN Modules ELSE {task.pos}
<1>1. /\ send = {} /\ txObj' = objs /\ sendReg' = Rebuilt(m, objs)
      /\ raced' = (raced \cup {m}) \cap atWork
      /\ crossed' = (crossed \cup {m}) \cap atWork
      /\ critical' = critical \ (Modules \ atWork)
      /\ UNCHANGED <<nrOfModules, silent, send, task>>
  BY DEF ChangeModuleType, NotSending, sending
<1>0. task.pos \in Modules => (task.pos \in critical' <=> task.pos \in critical)
  BY <1>1
<1>2. /\ m \in Positions /\ Modules' = Modules /\ Awake' = Awake
      /\ \A k \in Modules : k # m => Flags(k)' = Flags(k)
  BY <1>1, ModulesArePositions DEF TypeInv, TypeOK, Modules, Flags, Awake
<1>3. \A f : f \in sendReg' <=> f[1] \in Awake /\ f \in Flags(f[1])'
  BY <1>1, <1>2 DEF Rebuilt, Flags
<1>4. ASSUME task.pos \in Modules, task.pos \notin Disputed'
      PROVE  task.pos # m /\ task.pos \notin Disputed
  BY <1>1, <1>4 DEF Disputed
<1>5. ASSUME NEW k \in Modules, task.at = "store"
      PROVE  /\ k \in crossed' <=> k \in crossed \/ k = m
             /\ k \in Disputed' <=> k \in Disputed \/ k = m
  BY <1>1, <1>5 DEF Disputed
<1>6. ASSUME NEW F \in Masks'
      PROVE  F = sendReg' \/ (task.at = "store" /\ F = task.reg /\ F \in Masks)
  BY <1>1 DEF Masks
<1>7. ASSUME NEW F \in Masks' PROVE AreObjects(F)'
  <2> SUFFICES ASSUME NEW f \in F
               PROVE  f[1] \in Modules /\ (f[1] \in crossed' \/ f \in Flags(f[1])')
    BY <1>2 DEF AreObjects
  <2>1. CASE F = sendReg'
    BY <1>3, <2>1 DEF Awake
  <2>2. CASE task.at = "store" /\ F \in Masks
    <3>1. f[1] \in Modules /\ (f[1] \in crossed \/ f \in Flags(f[1]))
      BY <2>2 DEF FlagsInv, MasksInv, AreObjects
    <3> QED
      BY <1>2, <1>5, <2>2, <3>1
  <2> QED
    BY <1>6, <2>1, <2>2
<1>8. ASSUME NEW F \in Masks' PROVE AreAwake(F)'
  <2> SUFFICES ASSUME NEW f \in F
               PROVE  f[1] \in Disputed' \cup {task.pos} \/ silent[f[1]] = "AWAKE"
    BY <1>1 DEF AreAwake
  <2>1. CASE F = sendReg'
    BY <1>3, <2>1 DEF Awake
  <2>2. CASE task.at = "store" /\ F \in Masks
    <3>1. f[1] \in Modules /\ (f[1] \in Disputed \cup {task.pos} \/ silent[f[1]] = "AWAKE")
      BY <2>2 DEF FlagsInv, MasksInv, AreObjects, AreAwake
    <3> QED
      BY <1>5, <2>2, <3>1
  <2> QED
    BY <1>6, <2>1, <2>2
<1>9. ASSUME NEW F \in Masks' PROVE HoldsAwake(F)'
  <2> SUFFICES ASSUME NEW k \in Awake \ (critical' \cup Disputed' \cup BeingSwitched),
                      NEW f \in Flags(k)'
               PROVE  f \in F
    BY <1>1, <1>2 DEF HoldsAwake, BeingSwitched
  <2>0. k \in Modules /\ f[1] = k
    BY DEF Awake, Flags
  <2>1. CASE F = sendReg'
    BY <1>3, <2>0, <2>1
  <2>2. CASE task.at = "store" /\ F \in Masks
    <3>1. k # m /\ k \notin Disputed /\ k \notin critical
      BY <1>1, <1>5, <2>0, <2>2
    <3>2. f \in Flags(k)
      BY <1>2, <2>0, <3>1
    <3> QED
      BY <2>2, <3>1, <3>2 DEF FlagsInv, MasksInv, HoldsAwake
  <2> QED
    BY <1>6, <2>1, <2>2
<1>10. ASSUME NEW F \in Masks' PROVE LoopDone(F)'
  <2> SUFFICES ASSUME task.pos \in Modules, task.pos \notin Disputed', Switching,
                      NEW i \in 0 .. task.next - 1
               PROVE  /\ silent[task.pos] = "SILENT" => <<task.pos, i>> \notin F
                      /\ silent[task.pos] = "AWAKE" /\ task.pos \notin critical
                           => <<task.pos, i>> \in F
    BY <1>1, <1>2, <1>0 DEF LoopDone, Switching
  <2>1. task.pos # m /\ task.pos \notin Disputed
    BY <1>4
  <2>2. CASE F = sendReg'
    <3>1. task.next <= txObj[task.pos] /\ txObj[task.pos] \in Nat /\ task.next \in Nat
      <4>1. task.pos \in Positions /\ task.pos \notin crossed
        BY <2>1, ModulesArePositions DEF TypeInv, Disputed
      <4>2. txObj[task.pos] \in 0 .. OBJS /\ task.next \in 0 .. OBJS
        BY <4>1 DEF TypeInv, TypeOK
      <4> QED
        BY <4>1, <4>2, SizesAssumption DEF FlagsInv, TaskWithin
    <3>2. <<task.pos, i>> \in Flags(task.pos)
      BY <3>1 DEF Flags
    <3>3. <<task.pos, i>> \in Flags(task.pos)'
      <4>1. txObj'[task.pos] = txObj[task.pos] /\ task' = task
        BY <1>1, <2>1, ModulesArePositions DEF TypeInv, TypeOK
      <4> QED
        BY <3>2, <4>1 DEF Flags
    <3>4. <<task.pos, i>>[1] = task.pos
      OBVIOUS
    <3>5. <<task.pos, i>> \in F <=> task.pos \in Awake
      BY <1>1, <1>3, <2>2, <3>3, <3>4
    <3> QED
      BY <3>5 DEF Awake
  <2>3. CASE task.at = "store" /\ F \in Masks
    BY <2>1, <2>3 DEF FlagsInv, MasksInv, LoopDone
  <2> QED
    BY <1>6, <2>2, <2>3
<1>11. StateTaken'
  <2> SUFFICES ASSUME task.pos \in Modules, task.pos \notin Disputed'
               PROVE  StateTaken'
    BY <1>1, <1>2 DEF StateTaken
  <2> QED
    BY <1>1, <1>2, <1>4 DEF FlagsInv, StateTaken, Switching
<1>12. TaskWithin'
  <2> SUFFICES ASSUME task.pos \in Modules, task.pos \notin crossed'
               PROVE  TaskWithin'
    BY <1>1, <1>2 DEF TaskWithin
  <2>1. task.pos # m /\ task.pos \notin crossed
    BY <1>1
  <2>2. txObj'[task.pos] = txObj[task.pos]
    BY <1>1, <2>1, ModulesArePositions DEF TypeInv, TypeOK
  <2> QED
    BY <1>1, <2>1, <2>2 DEF FlagsInv, TaskWithin
<1> QED
  BY <1>1, <1>7, <1>8, <1>9, <1>10, <1>11, <1>12
  DEF FlagsInv, MasksInv, AreObjects, AreAwake

\* A module is added while no call is at work.
LEMMA AddFlags ==
  ASSUME TypeInv, FlagsInv, Start
  PROVE  FlagsInv'
<1>1. PICK n \in Numbers : AddModule(n)
  BY DEF Start
<1>0. PICK i : i = nrOfModules
  OBVIOUS
<1> DEFINE added == {i} \X (0 .. TxObjs[i] - 1)
<1>2. /\ i \in Positions /\ nrOfModules' = i + 1 /\ send = {} /\ task = Idle
      /\ txObj' = [txObj EXCEPT ![i] = TxObjs[i]] /\ TxObjs[i] \in 0 .. OBJS
      /\ sendReg' = IF silent[i] = "AWAKE" THEN sendReg \cup added
                                           ELSE sendReg \ added
      /\ UNCHANGED <<silent, critical, raced, crossed, send, task>>
  <2>1. i \in Positions
    BY <1>0, <1>1, SizesAssumption DEF AddModule, TypeInv, TypeOK, Positions
  <2>2. TxObjs[i] \in 0 .. OBJS
    BY <2>1, TypesAssumption DEF Positions
  <2> QED
    BY <1>0, <1>1, <2>1, <2>2 DEF AddModule, NotSending, hist, sending
<1>3. Modules' = Modules \cup {i} /\ i \notin Modules
  BY <1>0, <1>2 DEF Modules, Positions, TypeInv, TypeOK
<1>4. /\ \A k \in Modules : Flags(k)' = Flags(k)
      /\ Flags(i)' = added
  <2>1. txObj'[i] = TxObjs[i] /\ \A k \in Modules : txObj'[k] = txObj[k]
    BY <1>2, <1>3, ModulesArePositions DEF TypeInv, TypeOK
  <2> QED
    BY <2>1 DEF Flags
<1>5. Masks = {sendReg} /\ Masks' = {sendReg'}
  BY <1>2 DEF Masks, Idle
<1>6. task.pos = -1 /\ task.pos \notin Modules'
  BY <1>2, SizesAssumption DEF Idle, Modules, Positions
<1>7. ASSUME NEW f \in sendReg'
      PROVE  \/ f \in added /\ f[1] = i /\ silent[i] = "AWAKE"
             \/ f \in sendReg /\ f[1] \in Modules
  BY <1>2, <1>5 DEF FlagsInv, MasksInv, AreObjects
<1>8. AreObjects(sendReg)'
  <2> SUFFICES ASSUME NEW f \in sendReg'
               PROVE  f[1] \in Modules' /\ (f[1] \in crossed \/ f \in Flags(f[1])')
    BY <1>2 DEF AreObjects
  <2> QED
    BY <1>3, <1>4, <1>5, <1>7 DEF FlagsInv, MasksInv, AreObjects
<1>9. AreAwake(sendReg)'
  <2> SUFFICES ASSUME NEW f \in sendReg'
               PROVE  f[1] \in Disputed \cup {task.pos} \/ silent[f[1]] = "AWAKE"
    BY <1>2 DEF AreAwake, Disputed
  <2> QED
    BY <1>5, <1>7 DEF FlagsInv, MasksInv, AreAwake
<1>10. HoldsAwake(sendReg)'
  <2> SUFFICES ASSUME NEW k \in Modules', silent[k] = "AWAKE", k \notin critical,
                      k \notin Disputed, k \notin BeingSwitched, NEW f \in Flags(k)'
               PROVE  f \in sendReg'
    BY <1>2 DEF HoldsAwake, Disputed, BeingSwitched, Awake
  <2>1. CASE k = i
    BY <1>2, <1>4, <2>1
  <2>2. CASE k \in Modules
    <3>1. f \in sendReg
      BY <1>4, <1>5, <2>2 DEF FlagsInv, MasksInv, HoldsAwake, Awake
    <3>2. f[1] = k
      BY DEF Flags
    <3>3. f \notin added
      BY <1>3, <2>2, <3>2
    <3> QED
      BY <1>2, <3>1, <3>3
  <2> QED
    BY <1>3, <2>1, <2>2
<1>11. LoopDone(sendReg)' /\ StateTaken' /\ TaskWithin'
  BY <1>2, <1>6 DEF LoopDone, StateTaken, TaskWithin
<1> QED
  BY <1>2, <1>5, <1>8, <1>9, <1>10, <1>11 DEF FlagsInv, MasksInv, AreObjects, AreAwake

\* The record of a call that begins.
LEMMA CallBegins ==
  ASSUME NEW m, \/ \E n \in Numbers : TaskChangeModuleNr(m, n)
                \/ \E s \in {"SILENT", "AWAKE"} : TaskSetSilentAwake(m, s)
                \/ TaskSetCritical(m)
  PROVE  /\ send = {} /\ task = Idle
         /\ UNCHANGED <<nrOfModules, txObj, silent, crossed, id, sendReg, sendEnd, send>>
         /\ task'.pos = m /\ task'.next = 0
         /\ \/ /\ task'.call = "NUMBER" /\ task'.at = "test" /\ task'.state = "NONE"
               /\ raced' = raced /\ critical' = critical
               /\ \E n \in Numbers : task'.nr = n /\ TaskChangeModuleNr(m, n)
            \/ /\ task'.call = "SWITCH"
               /\ raced' = raced \ {m} /\ critical' \in {critical, critical \cup {m}}
               /\ \/ task'.at = "set"
                  \/ task'.at = "test" /\ task'.state = "SILENT" /\ m \in critical'
               /\ moduleNr' = moduleNr /\ stale' = stale
<1>1. ASSUME NEW n \in Numbers, TaskChangeModuleNr(m, n)
      PROVE  /\ task' = [[Idle EXCEPT !.nr = n] EXCEPT !.call = "NUMBER", !.pos = m]
             /\ raced' = raced /\ critical' = critical
             /\ send = {} /\ task = Idle
             /\ UNCHANGED <<nrOfModules, txObj, silent, crossed, id, sendReg, sendEnd, send>>
  BY <1>1 DEF TaskChangeModuleNr, Call, NotSending, ctrl, sending
<1>2. ASSUME NEW s \in {"SILENT", "AWAKE"}, TaskSetSilentAwake(m, s)
      PROVE  /\ task' = [[Idle EXCEPT !.at = "set", !.state = s]
                           EXCEPT !.call = "SWITCH", !.pos = m]
             /\ raced' = raced \ {m} /\ critical' = critical
             /\ moduleNr' = moduleNr /\ stale' = stale
             /\ send = {} /\ task = Idle
             /\ UNCHANGED <<nrOfModules, txObj, silent, crossed, id, sendReg, sendEnd, send>>
  BY <1>2 DEF TaskSetSilentAwake, Call, NotSending, ctrl, sending
<1>3. ASSUME TaskSetCritical(m)
      PROVE  /\ task' = [[Idle EXCEPT !.state = "SILENT"]
                           EXCEPT !.call = "SWITCH", !.pos = m]
             /\ raced' = raced \ {m} /\ critical' = critical \cup {m}
             /\ moduleNr' = moduleNr /\ stale' = stale
             /\ send = {} /\ task = Idle
             /\ UNCHANGED <<nrOfModules, txObj, silent, crossed, id, sendReg, sendEnd, send>>
  BY <1>3 DEF TaskSetCritical, Call, NotSending, ctrl, sending
<1>4. CASE \E n \in Numbers : TaskChangeModuleNr(m, n)
  <2>1. PICK n \in Numbers : TaskChangeModuleNr(m, n)
    BY <1>4
  <2>2. /\ task'.pos = m /\ task'.next = 0 /\ task'.call = "NUMBER"
        /\ task'.at = "test" /\ task'.state = "NONE" /\ task'.nr = n
    BY <1>1, <2>1 DEF Idle
  <2> QED
    BY <1>1, <2>1, <2>2
<1>5. CASE \E s \in {"SILENT", "AWAKE"} : TaskSetSilentAwake(m, s)
  <2>1. PICK s \in {"SILENT", "AWAKE"} : TaskSetSilentAwake(m, s)
    BY <1>5
  <2>2. /\ task'.pos = m /\ task'.next = 0 /\ task'.call = "SWITCH" /\ task'.at = "set"
    BY <1>2, <2>1 DEF Idle
  <2> QED
    BY <1>2, <2>1, <2>2
<1>6. CASE TaskSetCritical(m)
  <2>1. /\ task'.pos = m /\ task'.next = 0 /\ task'.call = "SWITCH"
        /\ task'.at = "test" /\ task'.state = "SILENT"
    BY <1>3, <1>6 DEF Idle
  <2> QED
    BY <1>3, <1>6, <2>1
<1> QED
  BY <1>4, <1>5, <1>6

LEMMA CallFlags ==
  ASSUME TypeInv, FlagsInv, NEW m \in Modules,
         \/ \E n \in Numbers : TaskChangeModuleNr(m, n)
         \/ \E s \in {"SILENT", "AWAKE"} : TaskSetSilentAwake(m, s)
         \/ TaskSetCritical(m)
  PROVE  FlagsInv'
<1>1. /\ send = {} /\ task = Idle
      /\ UNCHANGED <<nrOfModules, txObj, silent, crossed, sendReg, send>>
      /\ task'.pos = m /\ task'.next = 0
      /\ critical \subseteq critical'
      /\ task'.at \in {"test", "set"}
      /\ \/ task'.call = "NUMBER" /\ task'.at = "test" /\ task'.state = "NONE"
            /\ raced' = raced
         \/ /\ task'.call = "SWITCH" /\ raced' = raced \ {m}
            /\ \/ task'.at = "set"
               \/ task'.at = "test" /\ task'.state = "SILENT" /\ m \in critical'
  BY CallBegins
<1>2. Masks = {sendReg} /\ Masks' = {sendReg}
  BY <1>1 DEF Masks, Idle
<1>3. Modules' = Modules /\ \A k : Flags(k)' = Flags(k)
  BY <1>1 DEF Modules, Flags
<1>4. \A k : k # m => (k \in Disputed' <=> k \in Disputed)
  BY <1>1 DEF Disputed
<1>5. Idle.pos \notin Modules /\ Idle.call = "NONE"
  BY IdlePos DEF TypeInv, Idle
<1>6. AreObjects(sendReg)'
  BY <1>1, <1>2, <1>3 DEF FlagsInv, MasksInv, AreObjects
<1>7. AreAwake(sendReg)'
  <2> SUFFICES ASSUME NEW f \in sendReg
               PROVE  f[1] \in Disputed' \cup {m} \/ silent[f[1]] = "AWAKE"
    BY <1>1 DEF AreAwake
  <2>1. f[1] \in Disputed \/ silent[f[1]] = "AWAKE"
    BY <1>1, <1>2, <1>5 DEF FlagsInv, MasksInv, AreAwake, AreObjects
  <2> QED
    BY <1>4, <2>1
<1>8. HoldsAwake(sendReg)'
  <2> SUFFICES ASSUME NEW k \in Awake \ (critical \cup Disputed' \cup BeingSwitched')
               PROVE  Flags(k) \subseteq sendReg
    BY <1>1, <1>3 DEF HoldsAwake, Awake
  <2>1. k \notin Disputed
    BY <1>1, <1>4 DEF BeingSwitched, Disputed
  <2>2. BeingSwitched = {}
    BY <1>1, <1>5 DEF BeingSwitched
  <2> QED
    BY <1>2, <2>1, <2>2 DEF FlagsInv, MasksInv, HoldsAwake
<1>9. LoopDone(sendReg)'
  BY <1>1 DEF LoopDone
<1>10. StateTaken'
  BY <1>1 DEF StateTaken, Switching
<1>11. TaskWithin'
  <2>1. 0 <= txObj[m]
    BY ModulesArePositions, SizesAssumption DEF TypeInv, TypeOK
  <2> QED
    BY <1>1, <2>1 DEF TaskWithin
<1> QED
  BY <1>1, <1>2, <1>3, <1>6, <1>7, <1>8, <1>9, <1>10, <1>11
  DEF FlagsInv, MasksInv, AreObjects, AreAwake

\* What each access does to the call's record, which copy of the flags there
\* is before and after it, and what else it changes.
LEMMA AccessSteps ==
  ASSUME TypeInv, Accessing
  PROVE  /\ task # Idle /\ send = {}
         /\ UNCHANGED <<nrOfModules, moduleNr, txObj, critical, stale, raced, crossed, send>>
         /\ \/ /\ TaskLoop /\ task.at = "test" /\ task.next < txObj[task.pos]
               /\ task' = [task EXCEPT !.at = IF Configuring THEN "id" ELSE "load"]
            \/ /\ TaskLoop /\ task.at = "test" /\ ~ (task.next < txObj[task.pos])
               /\ Configuring /\ task' = [task EXCEPT !.at = "argument", !.next = 0]
            \/ /\ TaskLoop /\ task.at = "test" /\ ~ (task.next < txObj[task.pos])
               /\ ~ Configuring /\ task' = Idle
            \/ TaskIdentifier /\ task.at = "id" /\ task' = [task EXCEPT !.at = "load"]
            \/ /\ TaskLoad /\ task.at = "load"
               /\ task' = [task EXCEPT !.at = "store", !.reg = sendReg]
            \/ /\ TaskStore /\ task.at = "store" /\ Configuring
               /\ task' = [task EXCEPT !.at = "mark", !.reg = {}]
            \/ /\ TaskStore /\ task.at = "store" /\ ~ Configuring
               /\ task' = [task EXCEPT !.at = "test", !.next = @ + 1, !.reg = {}]
            \/ /\ TaskMark /\ task.at = "mark"
               /\ task' = [task EXCEPT !.at = "test", !.next = @ + 1]
            \/ /\ TaskArgument /\ task.at = "argument"
               /\ task' = [task EXCEPT !.at = "set", !.state = silent[task.pos]]
            \/ TaskSet /\ task.at = "set" /\ task' = [task EXCEPT !.at = "decide"]
            \/ /\ TaskDecide /\ task.at = "decide"
               /\ task' = [task EXCEPT !.at = "test", !.state = silent[task.pos]]
         /\ TaskSet \/ silent' = silent
         /\ TaskStore \/ sendReg' = sendReg
         /\ TaskIdentifier \/ id' = id
<1>1. CASE TaskLoop
  BY <1>1, AccessFields DEF TaskLoop, ctrl
<1>2. CASE TaskIdentifier
  BY <1>2, AccessFields DEF TaskIdentifier
<1>3. CASE TaskLoad
  BY <1>3, AccessFields DEF TaskLoad, ctrl
<1>4. CASE TaskStore
  BY <1>4, AccessFields DEF TaskStore
<1>5. CASE TaskMark
  BY <1>5, AccessFields DEF TaskMark
<1>6. CASE TaskArgument
  BY <1>6, AccessFields DEF TaskArgument, ctrl
<1>7. CASE TaskSet
  BY <1>7, AccessFields DEF TaskSet, ctrl
<1>8. CASE TaskDecide
  BY <1>8, AccessFields DEF TaskDecide, ctrl
<1> QED
  BY <1>1, <1>2, <1>3, <1>4, <1>5, <1>6, <1>7, <1>8 DEF Accessing

\* The fields a record keeps or gets.
LEMMA RecordFields ==
  ASSUME TypeOK
  PROVE  /\ \A a : /\ [task EXCEPT !.at = a].at = a
                   /\ [task EXCEPT !.at = a].pos = task.pos
                   /\ [task EXCEPT !.at = a].call = task.call
                   /\ [task EXCEPT !.at = a].nr = task.nr
                   /\ [task EXCEPT !.at = a].state = task.state
                   /\ [task EXCEPT !.at = a].next = task.next
                   /\ [task EXCEPT !.at = a].reg = task.reg
         /\ \A x : /\ [task EXCEPT !.next = x].at = task.at
                   /\ [task EXCEPT !.next = x].pos = task.pos
                   /\ [task EXCEPT !.next = x].call = task.call
                   /\ [task EXCEPT !.next = x].nr = task.nr
                   /\ [task EXCEPT !.next = x].state = task.state
                   /\ [task EXCEPT !.next = x].next = x
                   /\ [task EXCEPT !.next = x].reg = task.reg
  BY DEF TypeOK

\* A step of a call that leaves module, state and progress as they are.
LEMMA QuietFlags ==
  ASSUME TypeInv, FlagsInv,
         UNCHANGED <<nrOfModules, txObj, silent, critical, raced, crossed, sendReg, send>>,
         task'.pos = task.pos, task'.call = task.call, task'.state = task.state,
         task'.next = task.next, Masks' \subseteq Masks,
         task'.at \notin {"set", "decide"},
         Switching' => Switching,
         task.pos \notin crossed => task.next < txObj[task.pos]
  PROVE  FlagsInv'
<1>1. Modules' = Modules /\ (\A k : Flags(k)' = Flags(k)) /\ Disputed' = Disputed
      /\ BeingSwitched' = BeingSwitched /\ Awake' = Awake
  BY DEF Modules, Flags, Disputed, BeingSwitched, Awake
<1>2. ASSUME NEW F, AreObjects(F) PROVE AreObjects(F)'
  BY <1>1, <1>2 DEF AreObjects
<1>3. ASSUME NEW F, AreAwake(F) PROVE AreAwake(F)'
  BY <1>1, <1>3 DEF AreAwake
<1>4. ASSUME NEW F, HoldsAwake(F) PROVE HoldsAwake(F)'
  BY <1>1, <1>4 DEF HoldsAwake
<1>5. ASSUME NEW F, LoopDone(F) PROVE LoopDone(F)'
  BY <1>1, <1>5 DEF LoopDone
<1>6. MasksInv'
  BY <1>2, <1>3, <1>4, <1>5 DEF FlagsInv, MasksInv
<1>7. AreObjects(send)' /\ AreAwake(send)'
  BY <1>1 DEF FlagsInv, AreObjects, AreAwake
<1>8. StateTaken'
  BY <1>1 DEF FlagsInv, StateTaken
<1>9. TaskWithin'
  BY <1>1 DEF FlagsInv, TaskWithin
<1> QED
  BY <1>6, <1>7, <1>8, <1>9 DEF FlagsInv

\* A step of a call that is not switching afterwards, or at its first object.
LEMMA StartingFlags ==
  ASSUME TypeInv, FlagsInv, task.pos \in Modules,
         UNCHANGED <<nrOfModules, txObj, critical, raced, crossed, sendReg, send>>,
         send = {}, task'.pos = task.pos, task'.call = task.call,
         task'.at \in {"test", "argument", "set", "decide"},
         Masks = {sendReg},
         ~ Switching' \/ task'.next = 0,
         task.pos \notin crossed => task'.next <= txObj[task.pos],
         \A k \in Modules : k # task.pos => silent'[k] = silent[k],
         task.pos \notin Disputed /\ task.call = "NUMBER"
           => silent'[task.pos] = silent[task.pos],
         task.pos \notin Disputed /\ (task'.at = "decide" \/ Switching'
           \/ (task'.at = "set" /\ task.call = "NUMBER"))
           => task'.state = silent'[task.pos]
  PROVE  FlagsInv'
<1>1. Modules' = Modules /\ (\A k : Flags(k)' = Flags(k)) /\ Disputed' = Disputed
      /\ BeingSwitched' = BeingSwitched /\ Masks' = {sendReg}
  BY DEF Modules, Flags, Disputed, BeingSwitched, Masks
<1>2. AreObjects(sendReg)'
  BY <1>1 DEF FlagsInv, MasksInv, AreObjects
<1>3. AreAwake(sendReg)'
  <2> SUFFICES ASSUME NEW f \in sendReg
               PROVE  f[1] \in Disputed \cup {task.pos} \/ silent'[f[1]] = "AWAKE"
    BY <1>1 DEF AreAwake
  <2> QED
    BY DEF FlagsInv, MasksInv, AreAwake, AreObjects
<1>4. HoldsAwake(sendReg)'
  <2> SUFFICES ASSUME NEW k \in Modules, silent'[k] = "AWAKE", k \notin critical,
                      k \notin Disputed, k \notin BeingSwitched
               PROVE  Flags(k) \subseteq sendReg
    BY <1>1 DEF HoldsAwake, Awake
  <2>1. k = task.pos => task.call # "SWITCH"
    BY DEF BeingSwitched
  <2>2. task.call \in {"NUMBER", "SWITCH"}
    BY IdlePos, AtWork DEF TypeInv
  <2>3. silent[k] = "AWAKE"
    BY <2>1, <2>2
  <2> QED
    BY <2>3 DEF FlagsInv, MasksInv, HoldsAwake, Awake
<1>5. LoopDone(sendReg)'
  BY DEF LoopDone
<1>6. StateTaken'
  BY <1>1 DEF StateTaken
<1>7. TaskWithin'
  BY <1>1 DEF TaskWithin
<1> QED
  BY <1>1, <1>2, <1>3, <1>4, <1>5, <1>6, <1>7
  DEF FlagsInv, MasksInv, AreObjects, AreAwake

\* A call that switched its module ends: its loop has passed all objects.
LEMMA EndFlags ==
  ASSUME TypeInv, FlagsInv, task # Idle, task' = Idle, send = {}, task.at = "test",
         ~ Configuring, ~ (task.next < txObj[task.pos]),
         UNCHANGED <<nrOfModules, txObj, silent, critical, raced, crossed, sendReg, send>>
  PROVE  FlagsInv'
<1> DEFINE m == task.pos
<1>1. /\ m \in Modules /\ m \in Positions /\ txObj[m] \in 0 .. OBJS
      /\ task.next \in 0 .. OBJS /\ silent[m] \in {"SILENT", "AWAKE"}
      /\ task.call \in {"NUMBER", "SWITCH"}
  BY AtWork
<1>2. /\ Modules' = Modules /\ \A k : Flags(k)' = Flags(k)
      /\ Disputed' = Disputed /\ Awake' = Awake
  BY DEF Modules, Flags, Disputed, Awake
<1>3. Masks = {sendReg} /\ Masks' = {sendReg}
  BY DEF Masks, Idle
<1>4. task'.pos \notin Modules /\ BeingSwitched' = {}
  BY IdlePos DEF BeingSwitched, Idle, TypeInv
<1>5. Switching
  BY <1>1 DEF Switching, Configuring, TypeInv, TaskShape
<1>6. \A i \in 0 .. txObj[m] - 1 : i \in 0 .. task.next - 1
  BY <1>1, SizesAssumption
<1>7. AreObjects(sendReg)'
  BY <1>2, <1>3 DEF FlagsInv, MasksInv, AreObjects
<1>8. AreAwake(sendReg)'
  <2> SUFFICES ASSUME NEW f \in sendReg, f[1] \notin Disputed
               PROVE  silent[f[1]] = "AWAKE"
    BY <1>2 DEF AreAwake
  <2>1. f[1] = m \/ silent[f[1]] = "AWAKE"
    BY <1>3 DEF FlagsInv, MasksInv, AreAwake
  <2>2. f \in Flags(f[1])
    BY <1>3 DEF FlagsInv, MasksInv, AreObjects, Disputed
  <2>3. ASSUME f[1] = m PROVE silent[m] # "SILENT"
    <3>1. f = <<m, f[2]>> /\ f[2] \in 0 .. txObj[m] - 1
      BY <2>2, <2>3 DEF Flags
    <3>2. f[2] \in 0 .. task.next - 1
      BY <1>6, <3>1
    <3>3. LoopDone(sendReg)
      BY <1>3 DEF FlagsInv, MasksInv
    <3> QED
      BY <1>1, <1>5, <2>3, <3>1, <3>2, <3>3 DEF LoopDone
  <2> QED
    BY <1>1, <2>1, <2>3
<1>9. HoldsAwake(sendReg)'
  <2> SUFFICES ASSUME NEW k \in Awake, k \notin critical, k \notin Disputed,
                      NEW f \in Flags(k)
               PROVE  f \in sendReg
    BY <1>2, <1>4 DEF HoldsAwake
  <2>1. CASE k = m
    <3>1. f = <<m, f[2]>> /\ f[2] \in 0 .. txObj[m] - 1
      BY <2>1 DEF Flags
    <3>2. f[2] \in 0 .. task.next - 1
      BY <1>6, <3>1
    <3>3. LoopDone(sendReg) /\ silent[m] = "AWAKE"
      BY <1>3, <2>1 DEF FlagsInv, MasksInv, Awake
    <3> QED
      BY <1>1, <1>5, <2>1, <3>1, <3>2, <3>3 DEF LoopDone
  <2>2. CASE k # m
    BY <1>3, <2>2 DEF FlagsInv, MasksInv, HoldsAwake, BeingSwitched
  <2> QED
    BY <2>1, <2>2
<1>10. LoopDone(sendReg)' /\ StateTaken' /\ TaskWithin'
  BY <1>2, <1>4 DEF LoopDone, StateTaken, TaskWithin
<1> QED
  BY <1>3, <1>7, <1>8, <1>9, <1>10 DEF FlagsInv, MasksInv, AreObjects, AreAwake

\* The store of send_reg: the flags loaded, with that of the object.
LEMMA StoreFlags ==
  ASSUME TypeInv, FlagsInv, task # Idle, TaskStore, task.at = "store", send = {},
         task'.pos = task.pos, task'.call = task.call, task'.state = task.state,
         \/ Configuring /\ task'.at = "mark" /\ task'.next = task.next
         \/ ~ Configuring /\ task'.at = "test" /\ task'.next = task.next + 1,
         UNCHANGED <<nrOfModules, txObj, silent, critical, raced, crossed, send>>
  PROVE  FlagsInv'
<1> DEFINE m == task.pos
<1>1. /\ m \in Modules /\ m \in Positions /\ txObj[m] \in 0 .. OBJS
      /\ task.next \in 0 .. OBJS /\ silent[m] \in {"SILENT", "AWAKE"}
      /\ task.call \in {"NUMBER", "SWITCH"}
  BY AtWork
<1>2. /\ Modules' = Modules /\ \A k : Flags(k)' = Flags(k)
      /\ Disputed' = Disputed /\ Awake' = Awake /\ BeingSwitched' = BeingSwitched
  BY DEF Modules, Flags, Disputed, Awake, BeingSwitched
<1>3. task.reg \in Masks /\ Masks' = {sendReg'}
  BY DEF Masks
<1>4. /\ AreObjects(task.reg) /\ AreAwake(task.reg)
      /\ HoldsAwake(task.reg) /\ LoopDone(task.reg)
  BY <1>3 DEF FlagsInv, MasksInv
<1>5. Object = <<m, task.next>> /\ Object[1] = m
  BY DEF Object
<1>6. sendReg' = IF task.state = "SILENT" THEN task.reg \ {Object}
                                          ELSE task.reg \cup {Object}
  BY DEF TaskStore
<1>7. m \notin crossed => Object \in Flags(m) /\ task.next + 1 <= txObj[m]
                                              /\ task.next < txObj[m]
  BY <1>1, <1>5, SizesAssumption DEF FlagsInv, TaskWithin, Flags
<1>8. AreObjects(sendReg)'
  <2> SUFFICES ASSUME NEW f \in sendReg'
               PROVE  f[1] \in Modules /\ (f[1] \in crossed \/ f \in Flags(f[1]))
    BY <1>2 DEF AreObjects
  <2> QED
    BY <1>1, <1>4, <1>5, <1>6, <1>7 DEF AreObjects
<1>9. AreAwake(sendReg)'
  <2> SUFFICES ASSUME NEW f \in sendReg'
               PROVE  f[1] \in Disputed \cup {m} \/ silent[f[1]] = "AWAKE"
    BY <1>2 DEF AreAwake
  <2> QED
    BY <1>4, <1>5, <1>6 DEF AreAwake
<1>10. HoldsAwake(sendReg)'
  <2> SUFFICES ASSUME NEW k \in Awake, k \notin critical, k \notin Disputed,
                      k \notin BeingSwitched, NEW f \in Flags(k)
               PROVE  f \in sendReg'
    BY <1>2 DEF HoldsAwake
  <2>1. f \in task.reg
    BY <1>4 DEF HoldsAwake
  <2>2. ASSUME f = Object PROVE task.state # "SILENT"
    <3>1. k = m
      BY <1>5, <2>2, FlagsAreOwn
    <3>2. task.state # "SILENT" \/ Switching
      BY <1>1 DEF Switching
    <3> QED
      BY <1>1, <3>1, <3>2 DEF FlagsInv, StateTaken, Awake
  <2> QED
    BY <1>6, <2>1, <2>2
<1>11. LoopDone(sendReg)'
  <2> SUFFICES ASSUME m \notin Disputed, task.state # "NONE", ~ Configuring,
                      task'.next = task.next + 1, NEW i \in 0 .. task.next
               PROVE  /\ silent[m] = "SILENT" => <<m, i>> \notin sendReg'
                      /\ silent[m] = "AWAKE" /\ m \notin critical => <<m, i>> \in sendReg'
    <3>1. Switching' => task.state # "NONE" /\ task'.at = "test"
      BY DEF Switching
    <3>2. task.state # "NONE" => ~ Configuring
      BY DEF Configuring
    <3>3. task.next + 1 - 1 = task.next
      BY <1>1
    <3> QED
      BY <1>1, <1>2, <3>1, <3>2, <3>3 DEF LoopDone
  <2>1. Switching
    BY <1>1 DEF Switching
  <2>2. task.state = silent[m] \/ (task.state = "SILENT" /\ m \in critical)
    BY <1>1, <2>1 DEF FlagsInv, StateTaken
  <2>3. CASE i = task.next
    BY <1>5, <1>6, <2>2, <2>3
  <2>4. CASE i # task.next
    <3>1. i \in 0 .. task.next - 1
      BY <1>1, <2>4
    <3>2. <<m, i>> # Object
      BY <1>5, <2>4
    <3> QED
      BY <1>1, <1>4, <1>6, <2>1, <2>2, <3>1, <3>2 DEF LoopDone
  <2> QED
    BY <2>3, <2>4
<1>12. StateTaken'
  BY <1>2 DEF FlagsInv, StateTaken, Switching
<1>13. TaskWithin'
  BY <1>1, <1>2, <1>7 DEF FlagsInv, TaskWithin
<1> QED
  BY <1>3, <1>8, <1>9, <1>10, <1>11, <1>12, <1>13
  DEF FlagsInv, MasksInv, AreObjects, AreAwake

LEMMA AccessFlags ==
  ASSUME TypeInv, FlagsInv, Accessing
  PROVE  FlagsInv'
<1>0. /\ task # Idle /\ send = {} /\ task \in [call : {"NONE", "NUMBER", "SWITCH"},
               pos : Positions \cup {-1},
               at : Accesses, nr : AllNumbers, state : {"NONE", "SILENT", "AWAKE"},
               next : 0 .. OBJS, reg : SUBSET AllFlags]
      /\ UNCHANGED <<nrOfModules, txObj, critical, raced, crossed, send>>
  BY AccessSteps DEF TypeInv, TypeOK
<1>1. /\ task.pos \in Modules /\ task.pos \in Positions /\ txObj[task.pos] \in 0 .. OBJS
      /\ silent[task.pos] \in {"SILENT", "AWAKE"} /\ task.next \in 0 .. OBJS
      /\ task.call \in {"NUMBER", "SWITCH"}
  BY <1>0, AtWork
<1>2. 0 <= txObj[task.pos]
  BY <1>1, SizesAssumption
<1>3. CASE TaskLoop /\ task.at = "test" /\ task.next < txObj[task.pos]
           /\ task' = [task EXCEPT !.at = IF Configuring THEN "id" ELSE "load"]
  <2>1. /\ task'.pos = task.pos /\ task'.call = task.call /\ task'.state = task.state
        /\ task'.next = task.next /\ task'.at \in {"id", "load"}
    BY <1>0, <1>3
  <2>2. Masks' = {sendReg'} /\ Masks = {sendReg}
    BY <1>3, <2>1 DEF Masks
  <2>3. silent' = silent /\ sendReg' = sendReg
    BY <1>3 DEF TaskLoop, ctrl
  <2>4. Switching' => Switching
    BY <1>3, <2>1 DEF Switching
  <2> QED
    BY <1>0, <1>3, <2>1, <2>2, <2>3, <2>4, QuietFlags
<1>4. CASE TaskLoop /\ task.at = "test" /\ Configuring
           /\ task' = [task EXCEPT !.at = "argument", !.next = 0]
  <2>1. /\ task'.pos = task.pos /\ task'.call = task.call /\ task'.next = 0
        /\ task'.at = "argument"
    BY <1>0, <1>4
  <2>2. Masks = {sendReg} /\ ~ Switching'
    BY <1>4, <2>1 DEF Masks, Switching
  <2>3. silent' = silent /\ sendReg' = sendReg
    BY <1>4 DEF TaskLoop, ctrl
  <2> QED
    BY <1>0, <1>1, <1>2, <2>1, <2>2, <2>3, StartingFlags
<1>5. CASE TaskLoop /\ task.at = "test" /\ ~ (task.next < txObj[task.pos])
           /\ ~ Configuring /\ task' = Idle
  <2>1. silent' = silent /\ sendReg' = sendReg
    BY <1>5 DEF TaskLoop, ctrl
  <2> QED
    BY <1>0, <1>5, <2>1, EndFlags
<1>6. CASE TaskIdentifier /\ task.at = "id" /\ task' = [task EXCEPT !.at = "load"]
  <2>1. /\ task'.pos = task.pos /\ task'.call = task.call /\ task'.state = task.state
        /\ task'.next = task.next /\ task'.at = "load"
    BY <1>0, <1>6
  <2>2. silent' = silent /\ sendReg' = sendReg
    BY <1>6 DEF TaskIdentifier
  <2>3. Masks' = {sendReg'} /\ Masks = {sendReg}
    BY <1>6, <2>1 DEF Masks
  <2>4. ~ Switching'
    BY <1>0, <1>6, <2>1 DEF Switching, TypeInv, TaskShape
  <2>5. task.pos \notin crossed => task.next < txObj[task.pos]
    BY <1>1, <1>6 DEF FlagsInv, TaskWithin
  <2> QED
    BY <1>0, <1>1, <2>1, <2>2, <2>3, <2>4, <2>5, QuietFlags
<1>7. CASE TaskLoad /\ task.at = "load"
           /\ task' = [task EXCEPT !.at = "store", !.reg = sendReg]
  <2>1. /\ task'.pos = task.pos /\ task'.call = task.call /\ task'.state = task.state
        /\ task'.next = task.next /\ task'.at = "store" /\ task'.reg = sendReg
    BY <1>0, <1>7
  <2>2. silent' = silent /\ sendReg' = sendReg
    BY <1>7 DEF TaskLoad, ctrl
  <2>3. Masks' = {sendReg} /\ Masks = {sendReg}
    BY <1>7, <2>1, <2>2 DEF Masks
  <2>4. Switching' => Switching
    BY <1>7, <2>1 DEF Switching
  <2>5. task.pos \notin crossed => task.next < txObj[task.pos]
    BY <1>1, <1>7 DEF FlagsInv, TaskWithin
  <2> QED
    BY <1>0, <1>1, <2>1, <2>2, <2>3, <2>4, <2>5, QuietFlags
<1>8. CASE TaskStore /\ task.at = "store" /\ Configuring
           /\ task' = [task EXCEPT !.at = "mark", !.reg = {}]
  <2>1. /\ task'.pos = task.pos /\ task'.call = task.call /\ task'.state = task.state
        /\ task'.next = task.next /\ task'.at = "mark"
    BY <1>0, <1>8
  <2>2. silent' = silent
    BY <1>8 DEF TaskStore
  <2> QED
    BY <1>0, <1>8, <2>1, <2>2, StoreFlags
<1>9. CASE TaskStore /\ task.at = "store" /\ ~ Configuring
           /\ task' = [task EXCEPT !.at = "test", !.next = @ + 1, !.reg = {}]
  <2>1. /\ task'.pos = task.pos /\ task'.call = task.call /\ task'.state = task.state
        /\ task'.next = task.next + 1 /\ task'.at = "test"
    BY <1>0, <1>9
  <2>2. silent' = silent
    BY <1>9 DEF TaskStore
  <2> QED
    BY <1>0, <1>9, <2>1, <2>2, StoreFlags
<1>10. CASE TaskMark /\ task.at = "mark"
            /\ task' = [task EXCEPT !.at = "test", !.next = @ + 1]
  <2>1. /\ task'.pos = task.pos /\ task'.call = task.call /\ task'.state = task.state
        /\ task'.next = task.next + 1 /\ task'.at = "test"
    BY <1>0, <1>10
  <2>2. silent' = silent /\ sendReg' = sendReg
    BY <1>10 DEF TaskMark
  <2>3. Masks = {sendReg} /\ ~ Switching'
    BY <1>0, <1>10, <2>1 DEF Masks, Switching, TypeInv, TaskShape
  <2>4. task.pos \notin crossed => task.next + 1 <= txObj[task.pos]
    <3>1. task.pos \notin crossed => task.next < txObj[task.pos]
      BY <1>1, <1>10 DEF FlagsInv, TaskWithin
    <3> QED
      BY <1>1, <3>1, SizesAssumption
  <2> QED
    BY <1>0, <1>1, <2>1, <2>2, <2>3, <2>4, StartingFlags
<1>11. CASE TaskArgument /\ task.at = "argument"
            /\ task' = [task EXCEPT !.at = "set", !.state = silent[task.pos]]
  <2>1. /\ task'.pos = task.pos /\ task'.call = task.call
        /\ task'.state = silent[task.pos]
        /\ task'.next = task.next /\ task'.at = "set"
    BY <1>0, <1>11
  <2>2. silent' = silent /\ sendReg' = sendReg
    BY <1>11 DEF TaskArgument, ctrl
  <2>3. Masks = {sendReg} /\ task.next = 0
    BY <1>0, <1>11 DEF Masks, TypeInv, TaskShape
  <2> QED
    BY <1>0, <1>1, <1>2, <2>1, <2>2, <2>3, StartingFlags
<1>12. CASE TaskSet /\ task.at = "set" /\ task' = [task EXCEPT !.at = "decide"]
  <2>1. /\ task'.pos = task.pos /\ task'.call = task.call /\ task'.state = task.state
        /\ task'.next = task.next /\ task'.at = "decide"
    BY <1>0, <1>12
  <2>2. /\ silent' = [silent EXCEPT ![task.pos] = task.state] /\ sendReg' = sendReg
        /\ silent'[task.pos] = task.state
        /\ \A k \in Modules : k # task.pos => silent'[k] = silent[k]
    BY <1>1, <1>12, ModulesArePositions DEF TaskSet, ctrl, TypeInv, TypeOK
  <2>3. Masks = {sendReg} /\ task.next = 0 /\ ~ Switching'
    BY <1>0, <1>12, <2>1 DEF Masks, Switching, TypeInv, TaskShape
  <2>4. task.pos \notin Disputed /\ task.call = "NUMBER"
          => task.state = silent[task.pos]
    BY <1>1, <1>12 DEF FlagsInv, StateTaken
  <2> QED
    BY <1>0, <1>1, <1>2, <2>1, <2>2, <2>3, <2>4, StartingFlags
<1>13. CASE TaskDecide /\ task.at = "decide"
            /\ task' = [task EXCEPT !.at = "test", !.state = silent[task.pos]]
  <2>1. /\ task'.pos = task.pos /\ task'.call = task.call
        /\ task'.state = silent[task.pos]
        /\ task'.next = task.next /\ task'.at = "test"
    BY <1>0, <1>13
  <2>2. silent' = silent /\ sendReg' = sendReg
    BY <1>13 DEF TaskDecide, ctrl
  <2>3. Masks = {sendReg} /\ task.next = 0
    BY <1>0, <1>13 DEF Masks, TypeInv, TaskShape
  <2> QED
    BY <1>0, <1>1, <1>2, <2>1, <2>2, <2>3, StartingFlags
<1> QED
  BY <1>3, <1>4, <1>5, <1>6, <1>7, <1>8, <1>9, <1>10, <1>11, <1>12, <1>13, AccessSteps

\* The handler of a process request sends flags that were set.
LEMMA SendingFlags ==
  ASSUME FlagsInv, UNCHANGED <<table, ctrl, task>>, send' \subseteq send \/ send' = sendReg
  PROVE  FlagsInv'
<1>1. /\ UNCHANGED <<nrOfModules, txObj, silent, critical, raced, crossed, sendReg, task>>
      /\ Modules' = Modules /\ (\A k : Flags(k)' = Flags(k)) /\ Disputed' = Disputed
      /\ BeingSwitched' = BeingSwitched /\ Awake' = Awake /\ Masks' = Masks
      /\ (Switching' <=> Switching)
  BY DEF table, hist, ctrl, Modules, Flags, Disputed, BeingSwitched, Awake, Masks,
     Switching
<1>2. \A F : (AreObjects(F) => AreObjects(F)') /\ (AreAwake(F) => AreAwake(F)')
  BY <1>1 DEF AreObjects, AreAwake
<1>3. \A F : (HoldsAwake(F) => HoldsAwake(F)') /\ (LoopDone(F) => LoopDone(F)')
  BY <1>1 DEF HoldsAwake, LoopDone
<1>4. MasksInv'
  BY <1>1, <1>2, <1>3 DEF FlagsInv, MasksInv
<1>5. sendReg \in Masks
  BY DEF Masks
<1>6. \A f \in send' : /\ f[1] \in Modules /\ (f[1] \in crossed \/ f \in Flags(f[1]))
                       /\ f[1] \in Disputed \cup {task.pos} \/ silent[f[1]] = "AWAKE"
  BY <1>5 DEF FlagsInv, MasksInv, AreObjects, AreAwake
<1>7. AreObjects(send)' /\ AreAwake(send)'
  BY <1>1, <1>6 DEF AreObjects, AreAwake
<1>8. StateTaken' /\ TaskWithin'
  BY <1>1 DEF FlagsInv, StateTaken, TaskWithin
<1> QED
  BY <1>4, <1>7, <1>8 DEF FlagsInv

\* One step per group of operations.
LEMMA StepFlags ==
  ASSUME TypeInv, FlagsInv, [Next]_vars
  PROVE  FlagsInv'
<1>1. CASE Start
  BY <1>1, AddFlags
<1>2. CASE Switch
  <2>1. PICK m \in Modules, s \in {"SILENT", "AWAKE"} : SetSilentAwake(m, s)
    BY <1>2 DEF Switch
  <2>2. /\ send = {} /\ silent' = [silent EXCEPT ![m] = s]
        /\ sendReg' = Switched(m, s, sendReg) /\ raced' = Remember(raced, m, Meets(m))
        /\ critical' = critical \ {m}
        /\ UNCHANGED <<nrOfModules, txObj, crossed, task, send>>
    BY <2>1 DEF SetSilentAwake, NotSending, sending
  <2> QED
    BY <2>2, SwitchFlags
<1>3. CASE Number
  <2>1. PICK m \in Modules, n \in Numbers, v \in Votes : ChangeModuleNr(m, n, v)
    BY <1>3 DEF Number
  <2>2. Voted(m, v) \in {"SILENT", "AWAKE"}
    BY ModulesArePositions DEF Voted, TypeInv, TypeOK
  <2>3. /\ send = {} /\ silent' = [silent EXCEPT ![m] = Voted(m, v)]
        /\ sendReg' = Switched(m, Voted(m, v), sendReg)
        /\ raced' = Remember(raced, m, Meets(m))
        /\ critical' = critical \ {m}
        /\ UNCHANGED <<nrOfModules, txObj, crossed, task, send>>
    BY <2>1 DEF ChangeModuleNr, NotSending, sending
  <2> QED
    BY <2>2, <2>3, SwitchFlags
<1>4. CASE Type
  BY <1>4, TypeFlags DEF Type
<1>5. CASE Task
  BY <1>5, CallFlags, AccessFlags DEF Task, Accessing
<1>6. CASE ProcessRequest
  BY <1>6, SendingFlags DEF ProcessRequest
<1>7. CASE Loop
  BY <1>7, SendingFlags DEF Loop, SkipBit, SendObject
<1>8. CASE Spin \/ UNCHANGED vars
  BY <1>8, SendingFlags DEF Spin, vars, sending
<1> QED
  BY <1>1, <1>2, <1>3, <1>4, <1>5, <1>6, <1>7, <1>8 DEF Next

LEMMA FlagsInvariant == Spec => []FlagsInv
<1>1. FlagsInv /\ TypeInv /\ [Next]_vars => FlagsInv'
  BY StepFlags
<1> QED
  BY <1>1, InitFlags, TypesInvariant, PTL DEF Spec

\* Whatever is done to a silent module and to the others, by the master or by
\* the application, the answer to a process request never holds an object of
\* it, unless a call of the application is at work on it or has met a message.
THEOREM SilenceKept == Spec => SilentSendsNothing
<1>1. FlagsInv /\ [Next]_vars =>
        (SendObject => \A f \in Current :
           f[1] \notin Disputed \cup {task.pos} => silent[f[1]] = "AWAKE")
  BY DEF FlagsInv, AreAwake, Current
<1> QED
  BY <1>1, FlagsInvariant, PTL DEF Spec, SilentSendsNothing

\* A module that is awake sends all its objects when asked to, though the
\* interrupt comes while the application renumbers it or switches another.
THEOREM AwakeAnswersInFull == Spec => AwakeSendsAll
<1>1. FlagsInv /\ [Next]_vars =>
        (ProcessRequest =>
          \A m \in Awake \ (critical \cup Disputed \cup BeingSwitched) :
            Flags(m) \subseteq send')
  BY DEF FlagsInv, MasksInv, Masks, HoldsAwake, ProcessRequest
<1> QED
  BY <1>1, FlagsInvariant, PTL DEF Spec, AwakeSendsAll

-----------------------------------------------------------------------------
(***************************************************************************)
(* The numbers.  A flag that is set may be sent, and an awake module may   *)
(* get a type at any time, so that every identifier of a module's objects  *)
(* has to be right, not only those of set flags; of the module being       *)
(* renumbered those the call's loop has passed, which takes that the       *)
(* number of the call still is the module's.                               *)
(***************************************************************************)
Settled(m, f) ==
  m = task.pos /\ Configuring /\ task.at # "argument" =>
    f[2] < task.next \/ (f[2] = task.next /\ task.at \notin {"test", "id"})

Numbered == \A m \in Modules \ stale : \A f \in Flags(m) :
              Settled(m, f) => id[f] = moduleNr[m]

CallNumber == task.call = "NUMBER" /\ task.pos \notin stale =>
                moduleNr[task.pos] = task.nr

NumberInv == Numbered /\ CallNumber

LEMMA InitNumbers == Init => NumberInv
  BY DEF Init, NumberInv, Numbered, CallNumber, Modules, Idle

LEMMA AddNumbers ==
  ASSUME TypeInv, NumberInv, Start
  PROVE  NumberInv'
<1>1. PICK n \in Numbers : AddModule(n)
  BY DEF Start
<1>0. PICK i : i = nrOfModules
  OBVIOUS
<1>2. /\ i \in Positions /\ nrOfModules' = i + 1 /\ task = Idle
      /\ txObj' = [txObj EXCEPT ![i] = TxObjs[i]] /\ TxObjs[i] \in 0 .. OBJS
      /\ moduleNr' = [moduleNr EXCEPT ![i] = Declared(i, n)]
      /\ id' = Identifiers(i, TxObjs[i], Declared(i, n))
      /\ UNCHANGED <<stale, task>>
  <2>1. i \in Positions
    BY <1>0, <1>1, SizesAssumption DEF AddModule, TypeInv, TypeOK, Positions
  <2>2. TxObjs[i] \in 0 .. OBJS
    BY <2>1, TypesAssumption DEF Positions
  <2> QED
    BY <1>0, <1>1, <2>1, <2>2 DEF AddModule, hist
<1>3. Modules' = Modules \cup {i} /\ i \notin Modules
  BY <1>0, <1>2 DEF Modules, Positions, TypeInv, TypeOK
<1>4. Idle.pos \notin Modules' /\ Idle.call = "NONE" /\ Idle.pos \notin Modules
  BY <1>2, <1>3, IdlePos, SizesAssumption DEF Idle, Positions, TypeInv
<1>5. ASSUME NEW k \in Modules', k \notin stale, NEW f \in Flags(k)'
      PROVE  id'[f] = moduleNr'[k]
  <2>1. f[1] = k /\ f[2] \in 0 .. txObj'[k] - 1
    BY DEF Flags
  <2>2. CASE k = i
    <3>1. txObj'[i] = TxObjs[i] /\ moduleNr'[i] = Declared(i, n)
      BY <1>2 DEF TypeInv, TypeOK
    <3>2. f \in AllFlags /\ f[2] < TxObjs[i]
      <4>1. f \in {i} \X (0 .. TxObjs[i] - 1)
        BY <2>2, <3>1 DEF Flags
      <4> QED
        BY <1>2, <4>1, SizesAssumption DEF AllFlags
    <3> QED
      BY <1>2, <2>1, <2>2, <3>1, <3>2 DEF Identifiers
  <2>3. CASE k # i
    <3>1. k \in Modules /\ txObj'[k] = txObj[k] /\ moduleNr'[k] = moduleNr[k]
      BY <1>2, <1>3, <2>3, ModulesArePositions DEF TypeInv, TypeOK
    <3>2. f \in Flags(k)
      BY <3>1 DEF Flags
    <3>3. f \in AllFlags
      BY <3>1, <3>2, FlagTypes DEF TypeInv
    <3>4. Settled(k, f)
      BY <1>2, <1>4, <3>1 DEF Settled
    <3>5. id[f] = moduleNr[k]
      BY <1>5, <3>1, <3>2, <3>4 DEF NumberInv, Numbered
    <3> QED
      BY <1>2, <2>1, <2>3, <3>1, <3>3, <3>5 DEF Identifiers
  <2> QED
    BY <2>2, <2>3
<1> QED
  BY <1>2, <1>4, <1>5 DEF NumberInv, Numbered, CallNumber

LEMMA NumberNumbers ==
  ASSUME TypeInv, NumberInv, Number
  PROVE  NumberInv'
<1>1. PICK m \in Modules, n \in Numbers, v \in Votes : ChangeModuleNr(m, n, v)
  BY DEF Number
<1>2. /\ m \in Positions /\ moduleNr' = [moduleNr EXCEPT ![m] = n]
      /\ id' = Identifiers(m, txObj[m], n)
      /\ stale' = Remember(stale, m, Renumbered(m))
      /\ UNCHANGED <<nrOfModules, txObj, task>>
  BY <1>1, ModulesArePositions DEF ChangeModuleNr, TypeInv
<1>3. /\ moduleNr'[m] = n /\ Modules' = Modules
      /\ \A k \in Modules : k # m => moduleNr'[k] = moduleNr[k]
      /\ \A k : Flags(k)' = Flags(k)
  BY <1>2 DEF TypeInv, TypeOK, Modules, Flags
<1>4. \A k : k # m => (k \in stale' <=> k \in stale)
  BY <1>2, RememberOthers
<1>5. ASSUME NEW k \in Modules, k \notin stale', NEW f \in Flags(k), Settled(k, f)
      PROVE  id'[f] = moduleNr'[k]
  <2>1. f[1] = k /\ f \in AllFlags
    BY FlagTypes DEF TypeInv
  <2>2. CASE k = m
    <3>1. f[2] < txObj[m]
      <4>1. f[2] \in 0 .. txObj[m] - 1 /\ txObj[m] \in 0 .. OBJS
        BY <1>2, <2>2 DEF Flags, TypeInv, TypeOK
      <4> QED
        BY <4>1, SizesAssumption
    <3> QED
      BY <1>2, <1>3, <2>1, <2>2, <3>1 DEF Identifiers
  <2>3. CASE k # m
    <3>1. id[f] = moduleNr[k]
      BY <1>4, <1>5, <2>3 DEF NumberInv, Numbered
    <3> QED
      BY <1>2, <1>3, <2>1, <2>3, <3>1 DEF Identifiers
  <2> QED
    BY <2>2, <2>3
<1>6. Numbered'
  <2>1. \A k, f : Settled(k, f)' => Settled(k, f)
    BY <1>2 DEF Settled, Configuring
  <2> QED
    BY <1>3, <1>5, <2>1 DEF Numbered
<1>7. CallNumber'
  <2> SUFFICES ASSUME task.call = "NUMBER", task.pos \notin stale'
               PROVE  moduleNr'[task.pos] = task.nr
    BY <1>2 DEF CallNumber
  <2>1. task.pos \in Modules
    BY IdlePos, AtWork DEF TypeInv, Idle
  <2>2. task.pos # m
    BY <1>2, RememberOthers DEF Renumbered
  <2> QED
    BY <1>3, <1>4, <2>1, <2>2 DEF NumberInv, CallNumber
<1> QED
  BY <1>6, <1>7 DEF NumberInv

LEMMA TypeNumbers ==
  ASSUME TypeInv, NumberInv, NEW m \in Modules, ChangeModuleType(m)
  PROVE  NumberInv'
<1> DEFINE objs == [txObj EXCEPT ![m] = NewTxObjs[m]]
<1>1. /\ txObj' = objs
      /\ id' = [f \in AllFlags |-> IF f \in Rebuilt(m, objs) THEN moduleNr[f[1]] ELSE id[f]]
      /\ stale' = {j \in stale : silent[j] = "SILENT" \/ Renumbered(j)} \cup ({m} \ Awake)
      /\ UNCHANGED <<nrOfModules, moduleNr, silent, task>>
  BY DEF ChangeModuleType
<1>2. /\ m \in Positions /\ Modules' = Modules
      /\ \A k \in Modules : k # m => txObj'[k] = txObj[k]
      /\ txObj' \in [Positions -> 0 .. OBJS]
  BY <1>1, ModulesArePositions, TypesAssumption DEF TypeInv, TypeOK, Modules, Positions
<1>3. ASSUME NEW k \in Modules, k \notin stale', NEW f \in Flags(k)', Settled(k, f)
      PROVE  id'[f] = moduleNr[k]
  <2>1. f[1] = k
    BY DEF Flags
  <2>2. f \in AllFlags
    <3>1. f \in {f[1]} \X (0 .. txObj'[f[1]] - 1) /\ f[1] \in 0 .. nrOfModules - 1
      BY <2>1 DEF Flags, Modules
    <3> QED
      BY <1>2, <3>1, ObjectFlag DEF TypeInv, TypeOK
  <2>3. CASE k \in Awake
    <3>1. f \in Rebuilt(m, objs)
      BY <1>1, <2>3 DEF Rebuilt, Flags
    <3> QED
      BY <1>1, <2>1, <2>2, <3>1
  <2>4. CASE k \notin Awake
    <3>1. k # m /\ silent[k] = "SILENT"
      BY <1>1, <1>3, <2>4, ModulesArePositions DEF Awake, TypeInv, TypeOK
    <3>2. k \notin stale
      BY <1>1, <1>3, <3>1
    <3>3. f \notin Rebuilt(m, objs)
      BY <2>1, <2>4 DEF Rebuilt
    <3>4. f \in Flags(k)
      BY <1>2, <3>1 DEF Flags
    <3>5. id[f] = moduleNr[k]
      BY <1>3, <3>2, <3>4 DEF NumberInv, Numbered
    <3> QED
      BY <1>1, <2>2, <3>3, <3>5
  <2> QED
    BY <2>3, <2>4
<1>4. Numbered'
  <2>1. \A k, f : Settled(k, f)' => Settled(k, f)
    BY <1>1 DEF Settled, Configuring
  <2> QED
    BY <1>1, <1>2, <1>3, <2>1 DEF Numbered
<1>5. CallNumber'
  BY <1>1 DEF NumberInv, CallNumber, Renumbered
<1> QED
  BY <1>4, <1>5 DEF NumberInv

LEMMA CallNumbers ==
  ASSUME TypeInv, NumberInv, NEW m \in Modules,
         \/ \E n \in Numbers : TaskChangeModuleNr(m, n)
         \/ \E s \in {"SILENT", "AWAKE"} : TaskSetSilentAwake(m, s)
         \/ TaskSetCritical(m)
  PROVE  NumberInv'
<1>1. /\ task = Idle /\ UNCHANGED <<nrOfModules, txObj, silent, id>>
      /\ task'.pos = m /\ task'.next = 0
  BY CallBegins
<1>2. Modules' = Modules /\ (\A k : Flags(k)' = Flags(k)) /\ m \in Positions
  BY <1>1, ModulesArePositions DEF Modules, Flags, TypeInv
<1>3. \A k \in Modules \ stale : \A f \in Flags(k) : id[f] = moduleNr[k]
  BY <1>1, IdlePos DEF NumberInv, Numbered, Settled, TypeInv
<1>4. CASE task'.call = "NUMBER"
  <2>1. PICK n \in Numbers : task'.nr = n /\ TaskChangeModuleNr(m, n)
    BY <1>4, CallBegins, Zenon
  <2>2. task'.at = "test" /\ task'.state = "NONE"
    BY <1>4, CallBegins
  <2>3. moduleNr' = [moduleNr EXCEPT ![m] = n] /\ stale' = stale \ {m}
    BY <2>1 DEF TaskChangeModuleNr
  <2>4. /\ moduleNr'[m] = n
        /\ \A k \in Modules : k # m => moduleNr'[k] = moduleNr[k]
    BY <1>2, <2>3 DEF TypeInv, TypeOK
  <2>5. ASSUME NEW k \in Modules, k \notin stale', NEW f \in Flags(k), Settled(k, f)'
        PROVE  id[f] = moduleNr'[k]
    <3>1. k # m
      <4>1. f[2] \in Nat
        BY FlagTypes, SizesAssumption DEF TypeInv
      <4>2. ~ (f[2] < 0)
        BY <4>1
      <4> QED
        BY <1>1, <1>4, <2>2, <2>5, <4>2 DEF Settled, Configuring
    <3> QED
      BY <1>3, <2>3, <2>4, <2>5, <3>1
  <2>6. Numbered'
    BY <1>1, <1>2, <2>5 DEF Numbered
  <2>7. CallNumber'
    BY <1>1, <2>1, <2>4 DEF CallNumber
  <2> QED
    BY <2>6, <2>7 DEF NumberInv
<1>5. CASE task'.call # "NUMBER"
  <2>1. moduleNr' = moduleNr /\ stale' = stale
    BY <1>5, CallBegins
  <2> QED
    BY <1>1, <1>2, <1>3, <1>5, <2>1 DEF NumberInv, Numbered, CallNumber
<1> QED
  BY <1>4, <1>5

\* A step of a call that gives no identifier and passes no object.
LEMMA QuietNumbers ==
  ASSUME NumberInv, UNCHANGED <<nrOfModules, txObj, moduleNr, stale, id>>,
         \A m \in Modules : \A f \in Flags(m) : Settled(m, f)' => Settled(m, f),
         \/ task'.call = "NONE"
         \/ task'.pos = task.pos /\ task'.call = task.call /\ task'.nr = task.nr
  PROVE  NumberInv'
<1>1. Modules' = Modules /\ \A k : Flags(k)' = Flags(k)
  BY DEF Modules, Flags
<1>2. Numbered'
  BY <1>1 DEF NumberInv, Numbered
<1>3. CallNumber'
  BY DEF NumberInv, CallNumber
<1> QED
  BY <1>2, <1>3 DEF NumberInv

LEMMA AccessNumbers ==
  ASSUME TypeInv, NumberInv, Accessing
  PROVE  NumberInv'
<1>0. /\ task # Idle /\ task \in [call : {"NONE", "NUMBER", "SWITCH"},
               pos : Positions \cup {-1},
               at : Accesses, nr : AllNumbers, state : {"NONE", "SILENT", "AWAKE"},
               next : 0 .. OBJS, reg : SUBSET AllFlags]
      /\ UNCHANGED <<nrOfModules, moduleNr, txObj, stale>>
  BY AccessSteps DEF TypeInv, TypeOK
<1>1. /\ task.pos \in Modules /\ task.pos \in Positions /\ txObj[task.pos] \in 0 .. OBJS
      /\ task.next \in 0 .. OBJS /\ task.call \in {"NUMBER", "SWITCH"}
      /\ silent[task.pos] # "NONE"
  BY <1>0, AtWork
<1>2. ASSUME NEW m \in Modules, NEW f \in Flags(m)
      PROVE  f[1] = m /\ f \in AllFlags /\ f[2] \in 0 .. OBJS - 1
             /\ f[2] \in 0 .. txObj[m] - 1
  BY FlagTypes DEF Flags, TypeInv
<1>3. CASE TaskLoop /\ task.at = "test" /\ task.next < txObj[task.pos]
           /\ task' = [task EXCEPT !.at = IF Configuring THEN "id" ELSE "load"]
  <2>1. /\ task'.pos = task.pos /\ task'.call = task.call /\ task'.state = task.state
        /\ task'.next = task.next /\ task'.nr = task.nr
        /\ task'.at = IF Configuring THEN "id" ELSE "load"
    BY <1>0, <1>3
  <2>2. id' = id
    BY <1>3 DEF TaskLoop, ctrl
  <2>3. \A m, f : Settled(m, f)' => Settled(m, f)
    BY <1>3, <2>1 DEF Settled, Configuring
  <2> QED
    BY <1>0, <2>1, <2>2, <2>3, QuietNumbers
<1>4. CASE TaskLoop /\ task.at = "test" /\ ~ (task.next < txObj[task.pos])
           /\ Configuring /\ task' = [task EXCEPT !.at = "argument", !.next = 0]
  <2>1. /\ task'.pos = task.pos /\ task'.call = task.call /\ task'.nr = task.nr
    BY <1>0, <1>4
  <2>2. id' = id
    BY <1>4 DEF TaskLoop, ctrl
  <2>3. ASSUME NEW m \in Modules, NEW f \in Flags(m) PROVE Settled(m, f)
    <3>1. m = task.pos => f[2] < task.next
      BY <1>1, <1>2, <1>4, SizesAssumption
    <3> QED
      BY <3>1 DEF Settled
  <2> QED
    BY <1>0, <2>1, <2>2, <2>3, QuietNumbers
<1>5. CASE TaskLoop /\ ~ Configuring /\ task' = Idle
  <2>1. id' = id /\ task'.call = "NONE"
    BY <1>5 DEF TaskLoop, ctrl, Idle
  <2>2. \A m, f : Settled(m, f)
    BY <1>5 DEF Settled
  <2> QED
    BY <1>0, <2>1, <2>2, QuietNumbers
<1>6. CASE TaskIdentifier /\ task.at = "id" /\ task' = [task EXCEPT !.at = "load"]
  <2>1. /\ task'.pos = task.pos /\ task'.call = task.call /\ task'.state = task.state
        /\ task'.next = task.next /\ task'.at = "load" /\ task'.nr = task.nr
    BY <1>0, <1>6
  <2>2. id' = [id EXCEPT ![Object] = task.nr] /\ Object = <<task.pos, task.next>>
    BY <1>6 DEF TaskIdentifier, Object
  <2>3. Configuring /\ task.call = "NUMBER"
    BY <1>0, <1>1, <1>6 DEF Configuring, TypeInv, TaskShape
  <2>4. ASSUME NEW m \in Modules, m \notin stale, NEW f \in Flags(m), Settled(m, f)'
        PROVE  id'[f] = moduleNr[m]
    <3>1. CASE m = task.pos /\ f[2] = task.next
      <4>1. f = Object
        BY <1>2, <2>2, <3>1 DEF Flags
      <4>2. moduleNr[m] = task.nr
        BY <2>3, <2>4, <3>1 DEF NumberInv, CallNumber
      <4> QED
        BY <1>2, <2>2, <4>1, <4>2 DEF TypeInv, TypeOK
    <3>2. CASE ~ (m = task.pos /\ f[2] = task.next)
      <4>1. f # Object
        BY <1>2, <2>2, <3>2
      <4>2. Settled(m, f)
        BY <2>1, <2>4, <3>2, <1>6 DEF Settled, Configuring
      <4>3. id[f] = moduleNr[m]
        BY <2>4, <4>2 DEF NumberInv, Numbered
      <4> QED
        BY <1>2, <2>2, <4>1, <4>3 DEF TypeInv, TypeOK
    <3> QED
      BY <3>1, <3>2
  <2>5. Modules' = Modules /\ \A k : Flags(k)' = Flags(k)
    BY <1>0 DEF Modules, Flags
  <2>6. Numbered'
    BY <1>0, <2>4, <2>5 DEF Numbered
  <2> QED
    BY <1>0, <2>1, <2>6 DEF NumberInv, CallNumber
<1>7. CASE TaskLoad /\ task.at = "load"
           /\ task' = [task EXCEPT !.at = "store", !.reg = sendReg]
  <2>1. /\ task'.pos = task.pos /\ task'.call = task.call /\ task'.state = task.state
        /\ task'.next = task.next /\ task'.at = "store" /\ task'.nr = task.nr
    BY <1>0, <1>7
  <2>2. id' = id
    BY <1>7 DEF TaskLoad, ctrl
  <2>3. \A m, f : Settled(m, f)' => Settled(m, f)
    BY <1>7, <2>1 DEF Settled, Configuring
  <2> QED
    BY <1>0, <2>1, <2>2, <2>3, QuietNumbers
<1>8. CASE TaskStore /\ task.at = "store" /\ Configuring
           /\ task' = [task EXCEPT !.at = "mark", !.reg = {}]
  <2>1. /\ task'.pos = task.pos /\ task'.call = task.call /\ task'.state = task.state
        /\ task'.next = task.next /\ task'.at = "mark" /\ task'.nr = task.nr
    BY <1>0, <1>8
  <2>2. id' = id
    BY <1>8 DEF TaskStore
  <2>3. \A m, f : Settled(m, f)' => Settled(m, f)
    BY <1>8, <2>1 DEF Settled, Configuring
  <2> QED
    BY <1>0, <2>1, <2>2, <2>3, QuietNumbers
<1>9. CASE TaskStore /\ ~ Configuring
           /\ task' = [task EXCEPT !.at = "test", !.next = @ + 1, !.reg = {}]
  <2>1. /\ task'.pos = task.pos /\ task'.call = task.call /\ task'.nr = task.nr
    BY <1>0, <1>9
  <2>2. id' = id
    BY <1>9 DEF TaskStore
  <2>3. \A m, f : Settled(m, f)
    BY <1>9 DEF Settled
  <2> QED
    BY <1>0, <2>1, <2>2, <2>3, QuietNumbers
<1>10. CASE TaskMark /\ task.at = "mark"
            /\ task' = [task EXCEPT !.at = "test", !.next = @ + 1]
  <2>1. /\ task'.pos = task.pos /\ task'.call = task.call /\ task'.state = task.state
        /\ task'.next = task.next + 1 /\ task'.at = "test" /\ task'.nr = task.nr
    BY <1>0, <1>10
  <2>2. id' = id
    BY <1>10 DEF TaskMark
  <2>3. ASSUME NEW m \in Modules, NEW f \in Flags(m), Settled(m, f)'
        PROVE  Settled(m, f)
    <3>1. f[2] < task.next + 1 => f[2] < task.next \/ f[2] = task.next
      BY <1>1, <1>2, SizesAssumption
    <3> QED
      BY <1>10, <2>1, <2>3, <3>1 DEF Settled, Configuring
  <2> QED
    BY <1>0, <2>1, <2>2, <2>3, QuietNumbers
<1>11. CASE TaskArgument /\ task.at = "argument"
            /\ task' = [task EXCEPT !.at = "set", !.state = silent[task.pos]]
  <2>1. task'.pos = task.pos /\ task'.call = task.call /\ task'.nr = task.nr
    BY <1>0, <1>11
  <2>2. id' = id
    BY <1>11 DEF TaskArgument, ctrl
  <2>3. \A m, f : Settled(m, f)
    BY <1>11 DEF Settled
  <2> QED
    BY <1>0, <2>1, <2>2, <2>3, QuietNumbers
<1>12. CASE \/ TaskSet /\ task.at = "set" /\ task' = [task EXCEPT !.at = "decide"]
            \/ TaskDecide /\ task.at = "decide"
                 /\ task' = [task EXCEPT !.at = "test", !.state = silent[task.pos]]
  <2>1. task'.pos = task.pos /\ task'.call = task.call /\ task'.nr = task.nr
    BY <1>0, <1>12
  <2>2. id' = id
    BY <1>12 DEF TaskSet, TaskDecide, ctrl
  <2>3. \A m, f : Settled(m, f)
    BY <1>0, <1>12 DEF Settled, Configuring, TypeInv, TaskShape
  <2> QED
    BY <1>0, <2>1, <2>2, <2>3, QuietNumbers
<1> QED
  BY <1>3, <1>4, <1>5, <1>6, <1>7, <1>8, <1>9, <1>10, <1>11, <1>12, AccessSteps

\* What moves neither numbers nor identifiers nor the call.
LEMMA OtherNumbers ==
  ASSUME NumberInv, UNCHANGED <<nrOfModules, moduleNr, txObj, stale, id, task>>
  PROVE  NumberInv'
  BY DEF NumberInv, Numbered, CallNumber, Modules, Flags, Settled, Configuring

\* One step per group of operations.
LEMMA StepNumbers ==
  ASSUME TypeInv, NumberInv, [Next]_vars
  PROVE  NumberInv'
<1>1. CASE Start
  BY <1>1, AddNumbers
<1>2. CASE Switch
  BY <1>2, OtherNumbers DEF Switch, SetSilentAwake
<1>3. CASE Number
  BY <1>3, NumberNumbers
<1>4. CASE Type
  BY <1>4, TypeNumbers DEF Type
<1>5. CASE Task
  BY <1>5, CallNumbers, AccessNumbers DEF Task, Accessing
<1>6. CASE ProcessRequest \/ Loop \/ Spin \/ UNCHANGED vars
  BY <1>6, OtherNumbers
  DEF ProcessRequest, Loop, SkipBit, SendObject, Spin, vars, table, hist, ctrl
<1> QED
  BY <1>1, <1>2, <1>3, <1>4, <1>5, <1>6 DEF Next

LEMMA NumbersInvariant == Spec => []NumberInv
<1>1. NumberInv /\ TypeInv /\ [Next]_vars => NumberInv'
  BY StepNumbers
<1> QED
  BY <1>1, InitNumbers, TypesInvariant, PTL DEF Spec

\* Numbers, redeclared at start-up, changed by the master or object by object
\* by the application, and types in any order: each frame goes out under its
\* module's number, but for the cases named in SentUnderOwnNumber.
THEOREM SentUnderNumber == Spec => SentUnderOwnNumber
<1>1. TypeInv /\ FlagsInv /\ NumberInv /\ [Next]_vars =>
        (SendObject => \A f \in Current :
           f[1] \notin stale \cup crossed \cup {task.pos} => id[f] = moduleNr[f[1]])
  <2> SUFFICES ASSUME NumberInv, FlagsInv, NEW f \in Current,
                      f[1] \notin stale, f[1] \notin crossed, f[1] # task.pos
               PROVE  id[f] = moduleNr[f[1]]
    OBVIOUS
  <2>1. f[1] \in Modules /\ f \in Flags(f[1])
    BY DEF FlagsInv, AreObjects, Current
  <2>2. Settled(f[1], f)
    BY DEF Settled
  <2> QED
    BY <2>1, <2>2 DEF NumberInv, Numbered
<1> QED
  BY <1>1, FlagsInvariant, NumbersInvariant, TypesInvariant, PTL
  DEF Spec, SentUnderOwnNumber
=============================================================================
