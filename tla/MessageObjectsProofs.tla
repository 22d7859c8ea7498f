------------------------ MODULE MessageObjectsProofs --------------------------
(***************************************************************************)
(* The message objects, for every table, all types and any number of       *)
(* objects.                                                                *)
(*                                                                         *)
(*  - A silent module keeps transmit flags only after a call for it failed *)
(*    half-way: flags are set below the number of transmit objects of an   *)
(*    occupied position, and a module is only switched off once the node   *)
(*    is started, hence after the last one has been added.                 *)
(*  - The types: a free object is one of the controller's that is not      *)
(*    used, and no data object is a fixed one but the process request's.   *)
(*  - The masks let all numbers pass: they are only written together, from *)
(*    all the numbers.                                                     *)
(*  - A control object is written once, at a position of its own.          *)
(*  - The routes of the data frames, kind by kind and controller by        *)
(*    controller: lemmas without state say what a step may do to them.     *)
(***************************************************************************)
EXTENDS MessageObjects, WellFoundedInduction, TLAPS

States == {"SILENT", "AWAKE"}

Shapes == /\ occupied \in 0 .. MAX /\ counted \in 0 .. occupied
          /\ type \in [Positions -> Types]
          /\ silent \in [Positions -> States]
          /\ job \in [pos : Int, tx : Nat, rx : Nat]

\* The module being added is one of the table, and not yet counted.
Adding == job # Idle => /\ ~ started
                        /\ job.pos \in Modules
                        /\ counted < occupied

BeforeStart == ~ started => \A m \in Positions : silent[m] = "AWAKE"

FlagsBelow == \A f \in sendReg : f[1] \in Modules /\ f \in Flags(f[1])

Excused == \A f \in sendReg : silent[f[1]] = "SILENT" => f[1] \in missed \cup half

IInv == Shapes /\ Adding /\ BeforeStart /\ FlagsBelow /\ Excused

LEMMA InitIInv == Init => IInv
<1> SUFFICES ASSUME Init PROVE IInv
    OBVIOUS
<1>1. (CHOOSE t \in Types : TRUE) \in Types
  BY TypesAssumption
<1>2. Shapes
  BY <1>1, SizesAssumption DEF Init, Shapes, States, Idle
<1>3. Adding /\ BeforeStart /\ FlagsBelow /\ Excused
  BY DEF Init, Adding, BeforeStart, FlagsBelow, Excused
<1> QED BY <1>2, <1>3 DEF IInv

\* The flags of a module are pairs that begin with it.
LEMMA FlagsAreOwn == ASSUME NEW m, NEW f \in Flags(m) PROVE f[1] = m
BY DEF Flags

LEMMA AddModuleStep ==
  ASSUME IInv, NEW n \in Numbers, NEW t \in Types, AddModule(n, t) PROVE IInv'
<1> USE DEF AddModule, IInv, hist
<1>1. Shapes'
  BY SizesAssumption DEF Shapes, Positions
<1>2. Adding'
  BY SizesAssumption DEF Shapes, Adding, Idle, Modules
<1>3. BeforeStart'
  BY DEF BeforeStart
<1>4. FlagsBelow'
  <2> SUFFICES ASSUME NEW f \in sendReg PROVE f[1] \in Modules' /\ f \in Flags(f[1])'
      BY DEF FlagsBelow
  <2>1. f[1] \in Modules /\ f \in Flags(f[1])
    BY DEF FlagsBelow
  <2>2. type'[f[1]] = type[f[1]]
    BY <2>1, SizesAssumption DEF Shapes, Modules, Positions
  <2> QED BY <2>1, <2>2 DEF Flags, Modules, Shapes
<1>5. Excused'
  BY DEF Excused
<1> QED BY <1>1, <1>2, <1>3, <1>4, <1>5

LEMMA AddTxStep == ASSUME IInv, AddTx PROVE IInv'
<1> USE DEF IInv, table
<1> DEFINE m == job.pos
           i == job.tx
<1>1. /\ ~ started /\ m \in Modules /\ i \in Nat /\ counted < occupied
      /\ i < type[m].tx /\ sendReg' = sendReg \cup {<<m, i>>}
      /\ half \subseteq half'
      /\ UNCHANGED <<started, occupied, counted, moduleNr, type, silent, missed>>
  BY DEF AddTx, Adding, GiveUp, Shapes
<1>2. m \in Positions
  BY <1>1, SizesAssumption DEF Modules, Positions, Shapes
<1>3. type[m].tx \in Int
  BY <1>2, TypesAssumption, SizesAssumption DEF Shapes
<1>4. job' \in [pos : Int, tx : Nat, rx : Nat]
  BY DEF AddTx, GiveUp, Idle, Shapes
<1>10. Shapes' /\ BeforeStart'
  BY <1>1, <1>4 DEF Shapes, BeforeStart
<1>5. job' = Idle \/ (job'.pos = m /\ job'.tx = i + 1)
  <2>1. job' = Idle \/ job' = [job EXCEPT !.tx = @ + 1]
    BY DEF AddTx, GiveUp
  <2> QED BY <2>1 DEF Shapes
<1>6. Adding'
  BY <1>1, <1>5 DEF Adding, Modules
<1>7. <<m, i>> \in Flags(m)
  BY <1>1, <1>3 DEF Flags
<1>8. FlagsBelow'
  BY <1>1, <1>7 DEF FlagsBelow, Flags, Modules
<1>9. Excused'
  BY <1>1, <1>2 DEF Excused, BeforeStart
<1> QED BY <1>6, <1>8, <1>9, <1>10

\* A receive object and its failures leave the flags alone.
LEMMA AddRxStep == ASSUME IInv, AddRx PROVE IInv'
<1> USE DEF IInv, table
<1>1. /\ ~ started /\ job.pos \in Modules /\ counted < occupied
      /\ half \subseteq half'
      /\ UNCHANGED <<started, occupied, counted, moduleNr, type, silent, sendReg, missed>>
  BY DEF AddRx, Adding, GiveUp, Shapes
<1>2. job' = Idle \/ job' = [job EXCEPT !.rx = @ + 1]
  BY DEF AddRx, GiveUp
<1>3. /\ job' \in [pos : Int, tx : Nat, rx : Nat]
      /\ job' = Idle \/ job'.pos = job.pos
  BY <1>2 DEF Idle, Shapes
<1>4. Shapes' /\ BeforeStart' /\ FlagsBelow' /\ Excused'
  BY <1>1, <1>3 DEF Shapes, BeforeStart, FlagsBelow, Excused, Flags, Modules
<1>5. Adding'
  BY <1>1, <1>3 DEF Adding, Modules
<1> QED BY <1>4, <1>5

\* The module is awake: switching sets its flags once more.
LEMMA AddControlStep == ASSUME IInv, AddControl PROVE IInv'
<1> USE DEF IInv, table
<1> DEFINE m == job.pos
<1>1. /\ ~ started /\ m \in Modules /\ counted < occupied
      /\ counted' = counted + 1 /\ job' = Idle
      /\ missed \subseteq missed'
      /\ UNCHANGED <<started, occupied, type, silent, half>>
  BY DEF AddControl, Adding
<1>2. m \in Positions
  BY <1>1, SizesAssumption DEF Modules, Positions, Shapes
<1>3. sendReg' \in {sendReg, sendReg \cup Flags(m)}
  BY <1>1, <1>2 DEF AddControl, Switched, BeforeStart
<1>4. Shapes' /\ Adding' /\ BeforeStart'
  BY <1>1 DEF Shapes, Adding, BeforeStart, Idle
<1>5. FlagsBelow'
  BY <1>1, <1>3, FlagsAreOwn DEF FlagsBelow, Flags, Modules
<1>6. Excused'
  BY <1>1, <1>2, <1>3, FlagsAreOwn DEF Excused, BeforeStart
<1> QED BY <1>4, <1>5, <1>6

LEMMA StartStep == ASSUME IInv, Start PROVE IInv'
BY DEF Start, IInv, Shapes, Adding, BeforeStart, FlagsBelow, Excused, Flags,
       Modules, table, hist

\* Switching a module on gives it all its flags, switching it off takes them.
LEMMA SwitchedFlags ==
  ASSUME NEW m \in Modules, NEW state \in States, FlagsBelow
  PROVE  \A f \in Switched(m, state, sendReg) :
           /\ f[1] \in Modules /\ f \in Flags(f[1])
           /\ f \in sendReg \/ f[1] = m
           /\ state = "SILENT" => f[1] # m
<1>1. \A f \in Flags(m) : f[1] = m
  BY FlagsAreOwn
<1> QED BY <1>1 DEF Switched, FlagsBelow, States

LEMMA ChangeModuleNrStep ==
  ASSUME IInv, NEW m \in Modules, NEW n \in Numbers, NEW vote \in Votes,
         ChangeModuleNr(m, n, vote)
  PROVE  IInv'
<1> USE DEF IInv
<1>1. /\ started
      /\ UNCHANGED <<started, occupied, counted, type, job, half>>
  BY DEF ChangeModuleNr
<1>2. m \in Positions
  BY SizesAssumption DEF Modules, Positions, Shapes
<1>3. \/ /\ sendReg' = sendReg \cup Flags(m)
         /\ missed' = missed \cup {m} /\ silent' = silent
      \/ /\ silent' = [silent EXCEPT ![m] = Voted(m, vote)]
         /\ sendReg' = Switched(m, Voted(m, vote), sendReg)
         /\ missed' = missed \ {m}
  BY DEF ChangeModuleNr
<1>4. Voted(m, vote) \in States
  BY <1>2 DEF Voted, Shapes, States
<1>5. /\ Adding' /\ BeforeStart' /\ Shapes'
  BY <1>1, <1>2, <1>3, <1>4 DEF Adding, BeforeStart, Shapes, Modules
<1>6. FlagsBelow' /\ Excused'
  <2>1. CASE sendReg' = sendReg \cup Flags(m) /\ missed' = missed \cup {m} /\ silent' = silent
    BY <1>1, <2>1, FlagsAreOwn DEF FlagsBelow, Excused, Flags, Modules
  <2>2. CASE /\ silent' = [silent EXCEPT ![m] = Voted(m, vote)]
             /\ sendReg' = Switched(m, Voted(m, vote), sendReg)
             /\ missed' = missed \ {m}
    <3>1. \A f \in sendReg' : /\ f[1] \in Modules /\ f \in Flags(f[1])
                              /\ f \in sendReg \/ f[1] = m
                              /\ Voted(m, vote) = "SILENT" => f[1] # m
      BY <1>4, <2>2, SwitchedFlags
    <3>2. silent'[m] = Voted(m, vote)
      BY <1>2, <2>2 DEF Shapes
    <3>3. \A k \in Positions : k # m => silent'[k] = silent[k]
      BY <2>2 DEF Shapes
    <3>4. Modules \subseteq Positions
      BY SizesAssumption DEF Modules, Positions, Shapes
    <3>5. FlagsBelow'
      BY <1>1, <3>1 DEF FlagsBelow, Flags, Modules
    <3>6. Excused'
      BY <1>1, <2>2, <3>1, <3>2, <3>3, <3>4 DEF Excused
    <3> QED BY <3>5, <3>6
  <2> QED BY <1>3, <2>1, <2>2
<1> QED BY <1>5, <1>6

\* Only modules that are counted and awake get flags.
LEMMA ChangeModuleTypeStep ==
  ASSUME IInv, NEW m \in Modules, ChangeModuleType(m) PROVE IInv'
<1> USE DEF IInv, hist
<1>1. /\ started
      /\ UNCHANGED <<started, occupied, counted, silent, job, half, missed>>
  BY DEF ChangeModuleType
<1>2. m \in Positions
  BY SizesAssumption DEF Modules, Positions, Shapes
<1>3. type' \in [Positions -> Types]
  BY <1>2, TypesAssumption DEF ChangeModuleType, Shapes
<1>4. Shapes' /\ Adding' /\ BeforeStart'
  BY <1>1, <1>3 DEF Shapes, Adding, BeforeStart, Modules
<1>5. sendReg' = UNION {{k} \X (0 .. type'[k].tx - 1) :
                          k \in {k \in 0 .. counted - 1 : silent[k] = "AWAKE"}}
  BY DEF ChangeModuleType
<1>6. ASSUME NEW f \in sendReg'
      PROVE  /\ f[1] \in Modules /\ silent[f[1]] = "AWAKE"
             /\ f \in {f[1]} \X (0 .. type'[f[1]].tx - 1)
  <2>1. PICK k \in 0 .. counted - 1 :
               silent[k] = "AWAKE" /\ f \in {k} \X (0 .. type'[k].tx - 1)
    BY <1>5
  <2>2. f[1] = k
    BY <2>1
  <2>3. k \in Modules
    BY SizesAssumption DEF Shapes, Modules
  <2> QED BY <2>1, <2>2, <2>3
<1>7. FlagsBelow' /\ Excused'
  BY <1>1, <1>6 DEF FlagsBelow, Excused, Flags, Modules
<1> QED BY <1>4, <1>7

LEMMA SetSilentAwakeStep ==
  ASSUME IInv, NEW m \in Modules, NEW state \in States, SetSilentAwake(m, state)
  PROVE  IInv'
<1> USE DEF IInv, hist
<1>1. /\ started
      /\ UNCHANGED <<started, occupied, counted, type, job, half, missed>>
      /\ silent' = [silent EXCEPT ![m] = state]
      /\ sendReg' = Switched(m, state, sendReg)
  BY DEF SetSilentAwake
<1>2. Modules \subseteq Positions
  BY SizesAssumption DEF Modules, Positions, Shapes
<1>3. Shapes' /\ Adding' /\ BeforeStart'
  BY <1>1, <1>2 DEF Shapes, Adding, BeforeStart, Modules
<1>4. \A f \in sendReg' : /\ f[1] \in Modules /\ f \in Flags(f[1])
                          /\ f \in sendReg \/ f[1] = m
                          /\ state = "SILENT" => f[1] # m
  BY <1>1, SwitchedFlags
<1>5. FlagsBelow'
  BY <1>1, <1>4 DEF FlagsBelow, Flags, Modules
<1>6. silent'[m] = state /\ \A k \in Positions : k # m => silent'[k] = silent[k]
  BY <1>1, <1>2 DEF Shapes
<1>7. Excused'
  BY <1>1, <1>2, <1>4, <1>6 DEF Excused
<1> QED BY <1>3, <1>5, <1>7

LEMMA NextIInv == IInv /\ [Next]_vars => IInv'
<1> SUFFICES ASSUME IInv, [Next]_vars PROVE IInv'
    OBVIOUS
<1>1. CASE Add
  BY <1>1, AddModuleStep, AddTxStep, AddRxStep, AddControlStep DEF Add
<1>2. CASE Start
  BY <1>2, StartStep
<1>3. CASE Number
  BY <1>3, ChangeModuleNrStep DEF Number
<1>4. CASE Type
  BY <1>4, ChangeModuleTypeStep DEF Type
<1>5. CASE Switch
  BY <1>5, SetSilentAwakeStep DEF Switch, States
<1>6. CASE UNCHANGED vars
  BY <1>6 DEF vars, table, hist, IInv, Shapes, Adding, BeforeStart, FlagsBelow,
              Excused, Flags, Modules
<1> QED BY <1>1, <1>2, <1>3, <1>4, <1>5, <1>6 DEF Next

\* Whatever runs out and whichever call fails, a silent module has a transmit
\* flag set only if a call for this very module failed half-way: for every
\* number of modules, all types and objects of any number.
THEOREM SilentKept == Spec => []SilentUnlessFailed
<1>1. IInv => SilentUnlessFailed
  BY DEF IInv, Excused, SilentUnlessFailed
<1> QED BY InitIInv, NextIInv, <1>1, PTL DEF Spec

-----------------------------------------------------------------------------
(***************************************************************************)
(* The types.  A free object, if there is one, is an object of the         *)
(* controller that is not used; what the objects take are frames.          *)
(***************************************************************************)

\* A set of numbers has a least one.
LEMMA LeastNumber ==
  ASSUME NEW T, T \subseteq Nat, T # {}
  PROVE  \E x \in T : \A y \in T : x <= y
<1> DEFINE less == OpToRel(<, Nat)
<1>1. IsWellFoundedOn(less, Nat)
  BY NatLessThanWellFounded
<1>2. \A x, y \in Nat : <<y, x>> \notin less => x <= y
  BY DEF OpToRel
<1> HIDE DEF less
<1>3. PICK x \in T : \A y \in T : ~ (<<y, x>> \in less)
  BY <1>1, WFMin, Zenon
<1> QED
  BY <1>2, <1>3

\* A bounded one has a greatest one.
LEMMA GreatestNumber ==
  ASSUME NEW b \in Nat, NEW T, T \subseteq 0 .. b, T # {}
  PROVE  \E x \in T : \A y \in T : y <= x
<1> DEFINE D == {b - y : y \in T}
<1>1. D \subseteq Nat /\ D # {}
  <2>1. \A y \in T : b - y \in Nat
    OBVIOUS
  <2> QED
    BY <2>1
<1>2. PICK d \in D : \A e \in D : d <= e
  <2> HIDE DEF D
  <2> QED
    BY <1>1, LeastNumber
<1>3. PICK x \in T : d = b - x
  OBVIOUS
<1>4. ASSUME NEW y \in T PROVE y <= x
  <2>1. b - x <= b - y
    BY <1>2, <1>3
  <2> QED
    BY <2>1
<1> QED
  BY <1>4

\* The search for a free object finds one that is not used, or the size.
LEMMA FreeObject ==
  ASSUME NEW size \in Nat, NEW node, DOMAIN node \subseteq 0 .. size - 1
  PROVE  /\ Free(node, size) \in 0 .. size
         /\ Free(node, size) \notin DOMAIN node
         /\ ~ Full(node, size) => Free(node, size) \in 0 .. size - 1
<1> DEFINE unused == {o \in 0 .. size : o \notin DOMAIN node}
<1>1. size \in unused
  OBVIOUS
<1>2. PICK o \in unused : \A p \in unused : o <= p
  <2>1. unused \subseteq Nat /\ unused # {}
    BY <1>1
  <2> HIDE DEF unused
  <2> QED
    BY <2>1, LeastNumber
<1>3. \A p \in 0 .. o - 1 : p \in DOMAIN node
  <2> SUFFICES ASSUME NEW p \in 0 .. o - 1, p \notin DOMAIN node PROVE FALSE
    OBVIOUS
  <2>1. o \in 0 .. size /\ p \in unused
    OBVIOUS
  <2>2. o <= p
    BY <1>2, <2>1
  <2> QED
    BY <2>1, <2>2
<1>4. \E q \in 0 .. size : /\ q \notin DOMAIN node
                           /\ \A p \in 0 .. q - 1 : p \in DOMAIN node
  BY <1>2, <1>3
<1>5. Free(node, size) \in 0 .. size /\ Free(node, size) \notin DOMAIN node
  BY <1>4 DEF Free
<1> QED
  BY <1>5 DEF Full

NodeType(node, size) == /\ DOMAIN node \subseteq 0 .. size - 1
                        /\ \A o \in DOMAIN node : node[o] \subseteq Frames

ObjType(objs, size) == objs \in [Positions -> [0 .. OBJS - 1 -> 0 .. size - 1]]

\* What writing one object does, and giving it the next place of a module.
LEMMA WithObject ==
  ASSUME NEW node, NEW o, NEW v, NEW new, new = With(node, o, v)
  PROVE  /\ DOMAIN new = DOMAIN node \cup {o}
         /\ new[o] = v
         /\ \A p \in DOMAIN node \ {o} : new[p] = node[p]
BY DEF With

LEMMA WithType ==
  ASSUME NEW size, NEW node, NodeType(node, size), NEW o \in 0 .. size - 1,
         NEW v, v \subseteq Frames
  PROVE  NodeType(With(node, o, v), size)
<1> DEFINE new == With(node, o, v)
<1>1. /\ DOMAIN new = DOMAIN node \cup {o}
      /\ new[o] = v
      /\ \A p \in DOMAIN node \ {o} : new[p] = node[p]
  BY DEF With
<1> HIDE DEF new
<1>2. NodeType(new, size)
  BY <1>1 DEF NodeType
<1> QED
  BY <1>2 DEF new

LEMMA PlacedType ==
  ASSUME NEW size, NEW objs, ObjType(objs, size), NEW m \in Positions,
         NEW i \in 0 .. OBJS - 1, NEW o \in 0 .. size - 1
  PROVE  ObjType([objs EXCEPT ![m][i] = o], size)
<1>1. objs[m] \in [0 .. OBJS - 1 -> 0 .. size - 1]
  BY DEF ObjType
<1>2. [objs[m] EXCEPT ![i] = o] \in [0 .. OBJS - 1 -> 0 .. size - 1]
  BY <1>1
<1> QED
  BY <1>2 DEF ObjType

\* What defining the data objects of a position again does.
IsRedefined(new, node, objs, k, kind, n) ==
  /\ DOMAIN new = DOMAIN node \cup {objs[i] : i \in 0 .. k - 1}
  /\ \A o \in DOMAIN new :
       \/ /\ o \in DOMAIN node /\ new[o] = node[o]
          /\ \A i \in 0 .. k - 1 : objs[i] # o
       \/ \E i \in 0 .. k - 1 : objs[i] = o /\ new[o] = {<<kind, n, i>>}

LEMMA RedefinedObjects ==
  ASSUME NEW node, NEW objs, NEW k \in 0 .. OBJS, NEW kind, NEW n
  PROVE  IsRedefined(Redefined(node, objs, k, kind, n), node, objs, k, kind, n)
<1> DEFINE new     == Redefined(node, objs, k, kind, n)
           uses(o) == {i \in 0 .. k - 1 : objs[i] = o}
<1>1. DOMAIN new = DOMAIN node \cup {objs[i] : i \in 0 .. k - 1}
  BY DEF Redefined
<1>2. ASSUME NEW o \in DOMAIN new
      PROVE  \/ /\ o \in DOMAIN node /\ new[o] = node[o]
                /\ \A i \in 0 .. k - 1 : objs[i] # o
             \/ \E i \in 0 .. k - 1 : objs[i] = o /\ new[o] = {<<kind, n, i>>}
  <2>1. new[o] = IF uses(o) = {} THEN node[o]
                 ELSE {<<kind, n, CHOOSE i \in uses(o) : \A j \in uses(o) : j <= i>>}
    BY <1>1, <1>2 DEF Redefined
  <2>2. CASE uses(o) = {}
    BY <1>1, <1>2, <2>1, <2>2
  <2>3. CASE uses(o) # {}
    <3>1. k \in Nat /\ uses(o) \subseteq 0 .. k
      BY SizesAssumption
    <3>2. \E i \in uses(o) : \A j \in uses(o) : j <= i
      <4> HIDE DEF uses
      <4> QED
        BY <2>3, <3>1, GreatestNumber
    <3> DEFINE i == CHOOSE i \in uses(o) : \A j \in uses(o) : j <= i
    <3>3. i \in uses(o)
      <4> HIDE DEF uses
      <4> QED
        BY <3>2
    <3>4. new[o] = {<<kind, n, i>>}
      BY <2>1, <2>3
    <3> HIDE DEF i, new
    <3> QED
      BY <3>3, <3>4
  <2> QED
    BY <2>2, <2>3
<1> HIDE DEF new
<1>3. IsRedefined(new, node, objs, k, kind, n)
  BY <1>1, <1>2, Zenon DEF IsRedefined
<1> QED
  BY <1>3 DEF new

\* The objects of a position, how many of them, their kind and number.
Redefinable(size, objs, k, kind, n) ==
  /\ objs \in [0 .. OBJS - 1 -> 0 .. size - 1] /\ k \in 0 .. OBJS
  /\ kind \in {"rx", "tx"} /\ n \in AllNumbers

LEMMA RedefinedType ==
  ASSUME NEW size, NEW node, NodeType(node, size),
         NEW objs, NEW k, NEW kind, NEW n, Redefinable(size, objs, k, kind, n),
         NEW new, IsRedefined(new, node, objs, k, kind, n)
  PROVE  NodeType(new, size) /\ DOMAIN node \subseteq DOMAIN new
<1>1. /\ DOMAIN new = DOMAIN node \cup {objs[i] : i \in 0 .. k - 1}
      /\ \A o \in DOMAIN new :
           \/ o \in DOMAIN node /\ new[o] = node[o]
           \/ \E i \in 0 .. k - 1 : objs[i] = o /\ new[o] = {<<kind, n, i>>}
  BY DEF IsRedefined
<1>2. \A i \in 0 .. k - 1 : i \in 0 .. OBJS - 1 /\ objs[i] \in 0 .. size - 1
  BY SizesAssumption DEF Redefinable
<1>3. \A i \in 0 .. OBJS - 1 : {<<kind, n, i>>} \subseteq Frames
  BY DEF Redefinable, Frames
<1>4. DOMAIN new \subseteq 0 .. size - 1
  BY <1>1, <1>2 DEF NodeType
<1>5. ASSUME NEW o \in DOMAIN new PROVE new[o] \subseteq Frames
  <2>1. CASE o \in DOMAIN node /\ new[o] = node[o]
    BY <2>1 DEF NodeType
  <2>2. CASE \E i \in 0 .. k - 1 : objs[i] = o /\ new[o] = {<<kind, n, i>>}
    BY <1>2, <1>3, <2>2
  <2> QED
    BY <1>1, <2>1, <2>2, Zenon
<1> QED
  BY <1>1, <1>4, <1>5 DEF NodeType

Fixed == {PROCESS, SYS, SYS2, ASYNC, TX_SYNC}

\* What a control object and the new masks do to the main controller.
IsListening(new, node, o, n, nrs) ==
  /\ DOMAIN new = DOMAIN node \cup {o, ASYNC, SYS, SYS2}
  /\ new[o] = {<<"control", n, 0>>}
  /\ new[SYS] = {<<"system", k, 0>> : k \in Accepted(nrs)}
  /\ new[SYS2] = {<<"system", k, 0>> : k \in Accepted(nrs)}
  /\ new[ASYNC] = {<<"async", k, 0>> : k \in Accepted(nrs)}
  /\ \A p \in DOMAIN node \ {o, ASYNC, SYS, SYS2} : new[p] = node[p]

LEMMA ListeningObjects ==
  ASSUME NEW node, NEW o, o \notin {ASYNC, SYS, SYS2}, NEW n, NEW nrs
  PROVE  IsListening(Listening(node, o, n, nrs), node, o, n, nrs)
<1> DEFINE new  == Listening(node, o, n, nrs)
           own  == With(node, o, {<<"control", n, 0>>})
           acc  == {<<"async", k, 0>> : k \in Accepted(nrs)}
           msgs == {<<"system", k, 0>> : k \in Accepted(nrs)}
           data == With(own, ASYNC, acc)
           sys  == With(data, SYS, msgs)
<1>1. new = With(sys, SYS2, msgs)
  BY DEF Listening
<1>2. own = With(node, o, {<<"control", n, 0>>}) /\ data = With(own, ASYNC, acc)
      /\ sys = With(data, SYS, msgs)
  OBVIOUS
<1> HIDE DEF own, data, sys, new
<1>3. /\ DOMAIN own = DOMAIN node \cup {o}
      /\ own[o] = {<<"control", n, 0>>}
      /\ \A p \in DOMAIN node \ {o} : own[p] = node[p]
  BY <1>2 DEF With
<1> HIDE DEF acc, msgs
<1>4. /\ DOMAIN data = DOMAIN own \cup {ASYNC}
      /\ data[ASYNC] = acc
      /\ \A p \in DOMAIN own \ {ASYNC} : data[p] = own[p]
  BY <1>2 DEF With
<1>5. /\ DOMAIN sys = DOMAIN data \cup {SYS}
      /\ sys[SYS] = msgs
      /\ \A p \in DOMAIN data \ {SYS} : sys[p] = data[p]
  BY <1>2 DEF With
<1>6. /\ DOMAIN new = DOMAIN sys \cup {SYS2}
      /\ new[SYS2] = msgs
      /\ \A p \in DOMAIN sys \ {SYS2} : new[p] = sys[p]
  BY <1>1 DEF With
<1>7. DOMAIN new = DOMAIN node \cup {o, ASYNC, SYS, SYS2}
  BY <1>3, <1>4, <1>5, <1>6
<1>8. new[SYS] = msgs /\ new[SYS2] = msgs /\ new[ASYNC] = acc
  BY <1>4, <1>5, <1>6 DEF SYS, SYS2, ASYNC
<1>9. new[o] = {<<"control", n, 0>>}
  BY <1>3, <1>4, <1>5, <1>6
<1>10. \A p \in DOMAIN node \ {o, ASYNC, SYS, SYS2} : new[p] = node[p]
  BY <1>3, <1>4, <1>5, <1>6
<1> QED
  BY <1>7, <1>8, <1>9, <1>10 DEF IsListening, new, msgs, acc

LEMMA ListeningType ==
  ASSUME NEW node, NodeType(node, MAIN_SIZE), NEW o \in 0 .. MAIN_SIZE - 1,
         NEW n \in AllNumbers, NEW nrs, NEW new, IsListening(new, node, o, n, nrs)
  PROVE  NodeType(new, MAIN_SIZE)
<1> DEFINE acc  == {<<"async", k, 0>> : k \in Accepted(nrs)}
           msgs == {<<"system", k, 0>> : k \in Accepted(nrs)}
<1>1. /\ DOMAIN new = DOMAIN node \cup {o, ASYNC, SYS, SYS2}
      /\ new[o] = {<<"control", n, 0>>}
      /\ new[SYS] = msgs /\ new[SYS2] = msgs /\ new[ASYNC] = acc
      /\ \A p \in DOMAIN node \ {o, ASYNC, SYS, SYS2} : new[p] = node[p]
  BY DEF IsListening
<1>2. Accepted(nrs) \subseteq AllNumbers /\ 0 \in 0 .. OBJS - 1
  BY SizesAssumption DEF Accepted
<1>3. {<<"control", n, 0>>} \subseteq Frames /\ msgs \subseteq Frames /\ acc \subseteq Frames
  BY <1>2 DEF Frames
<1>4. {ASYNC, SYS, SYS2} \subseteq 0 .. MAIN_SIZE - 1
  BY SizesAssumption DEF ASYNC, SYS, SYS2
<1> HIDE DEF acc, msgs
<1>5. DOMAIN new \subseteq 0 .. MAIN_SIZE - 1
  BY <1>1, <1>4 DEF NodeType
<1>6. ASSUME NEW p \in DOMAIN new PROVE new[p] \subseteq Frames
  <2>1. p \in {o, ASYNC, SYS, SYS2} \/ p \in DOMAIN node \ {o, ASYNC, SYS, SYS2}
    BY <1>1, <1>6
  <2> QED
    BY <1>1, <1>3, <2>1 DEF NodeType
<1> QED
  BY <1>5, <1>6 DEF NodeType

-----------------------------------------------------------------------------
(***************************************************************************)
(* Where the objects are: the fixed objects stay fixed, what an object of  *)
(* the main controller is looked up for is a receive object of a module.   *)
(***************************************************************************)
Kinds == /\ moduleNr \in [Positions -> AllNumbers]
         /\ ctrl \in [Positions -> 0 .. MAIN_SIZE - 1]
         /\ job \in [pos : Positions, tx : 0 .. OBJS, rx : 0 .. OBJS] \cup {Idle}
         /\ half \subseteq Modules /\ missed \subseteq Modules

Controllers == /\ NodeType(main, MAIN_SIZE) /\ NodeType(mon, MON_SIZE)
               /\ ObjType(rxMain, MAIN_SIZE)
               /\ ObjType(rxMon, MON_SIZE) /\ ObjType(txMon, MON_SIZE)
               /\ DOMAIN lookRx \subseteq DOMAIN mon
               /\ DOMAIN lookTx \subseteq DOMAIN mon

Placed == /\ Fixed \subseteq DOMAIN main
          /\ DOMAIN lookMain \subseteq DOMAIN main \ Fixed
          /\ \A m \in Positions, i \in 0 .. OBJS - 1 :
               rxMain[m][i] \in DOMAIN lookMain \cup {PROCESS}

\* The module being added is the last one, and its adding has not failed yet.
LastAdded == job # Idle => job.pos = occupied - 1 /\ job.pos \notin half

OInv == IInv /\ Kinds /\ Controllers /\ Placed /\ LastAdded

LEMMA InitOInv == Init => OInv
<1> SUFFICES ASSUME Init PROVE OInv
    OBVIOUS
<1>1. Kinds /\ LastAdded
  BY SizesAssumption, NumbersAssumption DEF Init, Kinds, LastAdded, AllNumbers, Modules
<1>2. 0 \in 0 .. OBJS - 1 /\ 0 \in 0 .. MAIN_SIZE - 1 /\ 0 \in 0 .. MON_SIZE - 1
  BY SizesAssumption
<1>3. ObjType(rxMain, MAIN_SIZE) /\ ObjType(rxMon, MON_SIZE) /\ ObjType(txMon, MON_SIZE)
  BY <1>2 DEF Init, ObjType
<1>4. /\ Request \in Frames /\ <<"system", BROADCAST, 0>> \in Frames
      /\ <<"control", BROADCAST, 0>> \in Frames
  BY <1>2 DEF Request, Frames, AllNumbers
<1>5. /\ DOMAIN main = Fixed
      /\ \A o \in Fixed : main[o] \in {{Request}, {<<"system", BROADCAST, 0>>},
                                       {<<"control", BROADCAST, 0>>}, {}}
  BY DEF Init, Fixed, PROCESS, SYS, SYS2, ASYNC, TX_SYNC
<1>6. Fixed \subseteq 0 .. MAIN_SIZE - 1
  BY SizesAssumption DEF Fixed, PROCESS, SYS, SYS2, ASYNC, TX_SYNC
<1>7. NodeType(main, MAIN_SIZE)
  BY <1>4, <1>5, <1>6 DEF NodeType
<1>8. NodeType(mon, MON_SIZE)
  <2>1. /\ DOMAIN mon = {1, 4}
        /\ \A o \in {1, 4} : mon[o] \in {{Request}, {<<"system", BROADCAST, 0>>}}
    BY DEF Init
  <2>2. {1, 4} \subseteq 0 .. MON_SIZE - 1
    BY SizesAssumption
  <2> QED
    BY <1>4, <2>1, <2>2 DEF NodeType
<1>9. DOMAIN lookMain = {} /\ DOMAIN lookRx = {} /\ DOMAIN lookTx = {}
  BY DEF Init
<1>10. Placed
  BY <1>5, <1>9 DEF Init, Placed, PROCESS
<1> QED
  BY InitIInv, <1>1, <1>3, <1>7, <1>8, <1>9, <1>10 DEF OInv, Controllers

\* The types hold in every state of the invariant.
LEMMA Typed == OInv => Modules \subseteq Positions /\ \A m \in Positions :
                         /\ type[m].rx \in 0 .. OBJS /\ type[m].tx \in 0 .. OBJS
<1> SUFFICES ASSUME OInv PROVE /\ Modules \subseteq Positions
                               /\ \A m \in Positions : /\ type[m].rx \in 0 .. OBJS
                                                       /\ type[m].tx \in 0 .. OBJS
    OBVIOUS
<1>1. Modules \subseteq Positions
  BY SizesAssumption DEF OInv, IInv, Shapes, Modules, Positions
<1>2. \A m \in Positions : type[m] \in [rx : 0 .. OBJS, tx : 0 .. OBJS]
  BY TypesAssumption DEF OInv, IInv, Shapes
<1> QED
  BY <1>1, <1>2

\* What the step of a transmit object does.
TxTaken(o) ==
  /\ o \in (0 .. MON_SIZE - 1) \ DOMAIN mon
  /\ txMon' = [txMon EXCEPT ![job.pos][job.tx] = o]
  /\ mon' = With(mon, o, {<<"tx", moduleNr[job.pos], job.tx>>})
  /\ \/ GiveUp /\ UNCHANGED lookTx
     \/ /\ lookTx' = With(lookTx, o, job.pos)
        /\ job' = [job EXCEPT !.tx = @ + 1] /\ UNCHANGED half

LEMMA AddTxEffect ==
  ASSUME OInv, AddTx
  PROVE  /\ ~ started /\ job # Idle /\ job.pos \in Modules
         /\ job \in [pos : Positions, tx : 0 .. OBJS, rx : 0 .. OBJS]
         /\ job.tx \in 0 .. type[job.pos].tx - 1
         /\ UNCHANGED <<started, occupied, counted, moduleNr, type, silent, main, rxMain,
                        rxMon, lookMain, lookRx, ctrl, missed, left, strayed>>
         /\ \/ GiveUp /\ UNCHANGED <<mon, txMon, lookTx>>
            \/ \E o : TxTaken(o)
<1>1. /\ ~ started /\ job # Idle /\ job.pos \in Modules
      /\ job \in [pos : Positions, tx : 0 .. OBJS, rx : 0 .. OBJS]
      /\ job.tx \in 0 .. type[job.pos].tx - 1
  <2>1. job # Idle /\ job.tx < type[job.pos].tx
    BY DEF AddTx
  <2>2. job \in [pos : Positions, tx : 0 .. OBJS, rx : 0 .. OBJS]
    BY <2>1 DEF OInv, Kinds
  <2>3. ~ started /\ job.pos \in Modules
    BY <2>1 DEF OInv, IInv, Adding
  <2>4. type[job.pos].tx \in 0 .. OBJS
    BY <2>2, Typed
  <2> QED
    BY <2>1, <2>2, <2>3, <2>4, SizesAssumption
<1>2. UNCHANGED <<started, occupied, counted, moduleNr, type, silent, main, rxMain,
                  rxMon, lookMain, lookRx, ctrl, missed, left, strayed>>
  BY DEF AddTx, table
<1>3. ASSUME ~ Full(mon, MON_SIZE) PROVE TxTaken(Free(mon, MON_SIZE))
  <2>1. Free(mon, MON_SIZE) \in (0 .. MON_SIZE - 1) \ DOMAIN mon
    BY <1>3, FreeObject, SizesAssumption DEF OInv, Controllers, NodeType
  <2> QED
    BY <1>3, <2>1 DEF AddTx, TxTaken
<1>4. ASSUME Full(mon, MON_SIZE) PROVE GiveUp /\ UNCHANGED <<mon, txMon, lookTx>>
  BY <1>4 DEF AddTx
<1> QED
  BY <1>1, <1>2, <1>3, <1>4

\* What the step of a receive object does.
RxTaken(o) ==
  /\ o \in (0 .. MAIN_SIZE - 1) \ DOMAIN main
  /\ rxMain' = [rxMain EXCEPT ![job.pos][job.rx] = o]
  /\ main' = With(main, o, {<<"rx", moduleNr[job.pos], job.rx>>})
  /\ lookMain' = With(lookMain, o, job.pos)

RxHeard(p) ==
  /\ p \in (0 .. MON_SIZE - 1) \ DOMAIN mon
  /\ rxMon' = [rxMon EXCEPT ![job.pos][job.rx] = p]
  /\ mon' = With(mon, p, {<<"rx", moduleNr[job.pos], job.rx>>})
  /\ lookRx' = With(lookRx, p, job.pos)
  /\ job' = [job EXCEPT !.rx = @ + 1] /\ UNCHANGED half

LEMMA AddRxEffect ==
  ASSUME OInv, AddRx
  PROVE  /\ ~ started /\ job # Idle /\ job.pos \in Modules
         /\ job \in [pos : Positions, tx : 0 .. OBJS, rx : 0 .. OBJS]
         /\ job.tx = type[job.pos].tx /\ job.rx \in 0 .. type[job.pos].rx - 1
         /\ UNCHANGED <<started, occupied, counted, moduleNr, type, silent, sendReg,
                        txMon, lookTx, ctrl, missed, left, strayed>>
         /\ \/ GiveUp /\ UNCHANGED <<main, mon, rxMain, rxMon, lookMain, lookRx>>
            \/ \E o : /\ RxTaken(o)
                      /\ \/ GiveUp /\ UNCHANGED <<mon, rxMon, lookRx>>
                         \/ \E p : RxHeard(p)
<1>1. /\ ~ started /\ job # Idle /\ job.pos \in Modules
      /\ job \in [pos : Positions, tx : 0 .. OBJS, rx : 0 .. OBJS]
      /\ job.tx = type[job.pos].tx /\ job.rx \in 0 .. type[job.pos].rx - 1
  <2>1. job # Idle /\ job.tx = type[job.pos].tx /\ job.rx < type[job.pos].rx
    BY DEF AddRx
  <2>2. job \in [pos : Positions, tx : 0 .. OBJS, rx : 0 .. OBJS]
    BY <2>1 DEF OInv, Kinds
  <2>3. ~ started /\ job.pos \in Modules
    BY <2>1 DEF OInv, IInv, Adding
  <2>4. type[job.pos].rx \in 0 .. OBJS
    BY <2>2, Typed
  <2> QED
    BY <2>1, <2>2, <2>3, <2>4, SizesAssumption
<1>2. UNCHANGED <<started, occupied, counted, moduleNr, type, silent, sendReg,
                  txMon, lookTx, ctrl, missed, left, strayed>>
  BY DEF AddRx, table
<1>3. ASSUME Full(main, MAIN_SIZE)
      PROVE  GiveUp /\ UNCHANGED <<main, mon, rxMain, rxMon, lookMain, lookRx>>
  BY <1>3 DEF AddRx, nodes
<1>4. ASSUME ~ Full(main, MAIN_SIZE)
      PROVE  /\ RxTaken(Free(main, MAIN_SIZE))
             /\ \/ GiveUp /\ UNCHANGED <<mon, rxMon, lookRx>>
                \/ RxHeard(Free(mon, MON_SIZE))
  <2>1. Free(main, MAIN_SIZE) \in (0 .. MAIN_SIZE - 1) \ DOMAIN main
    BY <1>4, FreeObject, SizesAssumption DEF OInv, Controllers, NodeType
  <2>2. ~ Full(mon, MON_SIZE) => Free(mon, MON_SIZE) \in (0 .. MON_SIZE - 1) \ DOMAIN mon
    BY FreeObject, SizesAssumption DEF OInv, Controllers, NodeType
  <2> QED
    BY <1>4, <2>1, <2>2 DEF AddRx, RxTaken, RxHeard
<1> QED
  BY <1>1, <1>2, <1>3, <1>4

\* What the last step of adding a module does.
LEMMA AddControlEffect ==
  ASSUME OInv, AddControl
  PROVE  /\ ~ started /\ job # Idle /\ job.pos \in Modules
         /\ job \in [pos : Positions, tx : 0 .. OBJS, rx : 0 .. OBJS]
         /\ job.tx = type[job.pos].tx /\ job.rx = type[job.pos].rx
         /\ counted' = counted + 1 /\ job' = Idle
         /\ UNCHANGED <<started, occupied, moduleNr, type, silent, mon, rxMain, rxMon,
                        txMon, lookMain, lookRx, lookTx, half, left, strayed>>
         /\ \/ missed' = missed \cup {job.pos} /\ UNCHANGED <<main, ctrl>>
            \/ /\ UNCHANGED missed
               /\ \E o \in (0 .. MAIN_SIZE - 1) \ DOMAIN main :
                    /\ ctrl' = [ctrl EXCEPT ![counted] = o]
                    /\ IsListening(main', main, o, moduleNr[job.pos],
                                   {moduleNr[k] : k \in 0 .. job.pos})
<1>1. job # Idle /\ job.tx = type[job.pos].tx /\ job.rx = type[job.pos].rx
  BY DEF AddControl
<1>2. /\ ~ started /\ job.pos \in Modules
      /\ job \in [pos : Positions, tx : 0 .. OBJS, rx : 0 .. OBJS]
  BY <1>1 DEF OInv, IInv, Kinds, Adding
<1>3. /\ counted' = counted + 1 /\ job' = Idle
      /\ UNCHANGED <<started, occupied, moduleNr, type, silent, mon, rxMain, rxMon,
                     txMon, lookMain, lookRx, lookTx, half, left, strayed>>
  BY DEF AddControl, objects, lookups
<1>4. ASSUME Full(main, MAIN_SIZE)
      PROVE  missed' = missed \cup {job.pos} /\ UNCHANGED <<main, ctrl>>
  BY <1>4 DEF AddControl
<1>5. ASSUME ~ Full(main, MAIN_SIZE)
      PROVE  /\ UNCHANGED missed
             /\ \E o \in (0 .. MAIN_SIZE - 1) \ DOMAIN main :
                  /\ ctrl' = [ctrl EXCEPT ![counted] = o]
                  /\ IsListening(main', main, o, moduleNr[job.pos],
                                 {moduleNr[k] : k \in 0 .. job.pos})
  <2> DEFINE o   == Free(main, MAIN_SIZE)
             nrs == {moduleNr[k] : k \in 0 .. job.pos}
  <2>1. o \in (0 .. MAIN_SIZE - 1) \ DOMAIN main
    BY <1>5, FreeObject, SizesAssumption DEF OInv, Controllers, NodeType
  <2>2. /\ UNCHANGED missed /\ ctrl' = [ctrl EXCEPT ![counted] = o]
        /\ main' = Listening(main, o, moduleNr[job.pos], nrs)
    BY <1>5 DEF AddControl, Control
  <2>3. o \notin {ASYNC, SYS, SYS2}
    BY <2>1 DEF OInv, Placed, Fixed
  <2> HIDE DEF o, nrs
  <2>4. IsListening(main', main, o, moduleNr[job.pos], nrs)
    BY <2>2, <2>3, ListeningObjects
  <2> QED
    BY <2>1, <2>2, <2>4 DEF nrs
<1> QED
  BY <1>1, <1>2, <1>3, <1>4, <1>5

\* What a new number does.
Renumbered(m, n) == {IF k = m THEN n ELSE moduleNr[k] : k \in 0 .. counted - 1}

LEMMA NumberEffect ==
  ASSUME OInv, NEW m \in Modules, NEW n \in Numbers, NEW vote \in Votes,
         ChangeModuleNr(m, n, vote)
  PROVE  /\ started /\ m \in Positions /\ n \in AllNumbers
         /\ type[m].rx \in 0 .. OBJS /\ type[m].tx \in 0 .. OBJS
         /\ moduleNr' = [moduleNr EXCEPT ![m] = n]
         /\ left' = left \cup {moduleNr[m]} /\ strayed' = (strayed \/ m \in half)
         /\ UNCHANGED <<started, occupied, counted, type, rxMain, rxMon, txMon,
                        lookMain, lookRx, lookTx, job, half>>
         /\ \E mid : /\ IsRedefined(mid, mon, txMon[m], type[m].tx, "tx", n)
                     /\ IsRedefined(mon', mid, rxMon[m], type[m].rx, "rx", n)
         /\ \E data :
              /\ IsRedefined(data, main, rxMain[m], type[m].rx, "rx", n)
              /\ \/ /\ main' = data
                    /\ missed' = missed \cup {m} /\ UNCHANGED ctrl
                 \/ /\ missed' = missed \ {m}
                    /\ \E o \in (0 .. MAIN_SIZE - 1) \ DOMAIN data :
                         /\ ctrl' = [ctrl EXCEPT ![m] = o]
                         /\ IsListening(main', data, o, n, Renumbered(m, n))
<1>1. m \in Positions /\ type[m].rx \in 0 .. OBJS /\ type[m].tx \in 0 .. OBJS
  BY Typed
<1>2. n \in AllNumbers
  BY DEF AllNumbers
<1>3. /\ started
      /\ moduleNr' = [moduleNr EXCEPT ![m] = n]
      /\ left' = left \cup {moduleNr[m]} /\ strayed' = (strayed \/ m \in half)
      /\ UNCHANGED <<started, occupied, counted, type, rxMain, rxMon, txMon,
                     lookMain, lookRx, lookTx, job, half>>
  BY DEF ChangeModuleNr, objects, lookups
<1> DEFINE mid  == Redefined(mon, txMon[m], type[m].tx, "tx", n)
           data == Redefined(main, rxMain[m], type[m].rx, "rx", n)
           o    == Free(data, MAIN_SIZE)
<1>4. /\ IsRedefined(mid, mon, txMon[m], type[m].tx, "tx", n)
      /\ IsRedefined(data, main, rxMain[m], type[m].rx, "rx", n)
  BY <1>1, RedefinedObjects
<1>5. mon' = Redefined(mid, rxMon[m], type[m].rx, "rx", n)
  BY DEF ChangeModuleNr
<1>6. \/ /\ main' = data
         /\ missed' = missed \cup {m} /\ UNCHANGED ctrl
      \/ /\ missed' = missed \ {m}
         /\ ~ Full(data, MAIN_SIZE)
         /\ ctrl' = [ctrl EXCEPT ![m] = o]
         /\ main' = Listening(data, o, n, Renumbered(m, n))
  BY DEF ChangeModuleNr, Control, Renumbered
<1> HIDE DEF mid, data
<1>7. IsRedefined(mon', mid, rxMon[m], type[m].rx, "rx", n)
  BY <1>1, <1>5, RedefinedObjects
<1>8. NodeType(data, MAIN_SIZE) /\ DOMAIN main \subseteq DOMAIN data
  <2>1. Redefinable(MAIN_SIZE, rxMain[m], type[m].rx, "rx", n)
    BY <1>1, <1>2 DEF OInv, Controllers, ObjType, Redefinable
  <2>2. NodeType(main, MAIN_SIZE)
    BY DEF OInv, Controllers
  <2> QED
    BY <1>4, <2>1, <2>2, RedefinedType
<1>9. ~ Full(data, MAIN_SIZE) => o \in (0 .. MAIN_SIZE - 1) \ DOMAIN data
  BY <1>8, FreeObject, SizesAssumption DEF NodeType
<1>10. ~ Full(data, MAIN_SIZE) => o \notin {ASYNC, SYS, SYS2}
  BY <1>8, <1>9 DEF OInv, Placed, Fixed
<1>11. \/ /\ main' = data
          /\ missed' = missed \cup {m} /\ UNCHANGED ctrl
       \/ /\ missed' = missed \ {m}
          /\ o \in (0 .. MAIN_SIZE - 1) \ DOMAIN data
          /\ ctrl' = [ctrl EXCEPT ![m] = o]
          /\ IsListening(main', data, o, n, Renumbered(m, n))
  <2> HIDE DEF o
  <2> QED
    BY <1>6, <1>9, <1>10, ListeningObjects
<1>12. \E d : /\ IsRedefined(d, main, rxMain[m], type[m].rx, "rx", n)
              /\ \/ /\ main' = d
                    /\ missed' = missed \cup {m} /\ UNCHANGED ctrl
                 \/ /\ missed' = missed \ {m}
                    /\ \E p \in (0 .. MAIN_SIZE - 1) \ DOMAIN d :
                         /\ ctrl' = [ctrl EXCEPT ![m] = p]
                         /\ IsListening(main', d, p, n, Renumbered(m, n))
  <2> HIDE DEF o
  <2> QED
    BY <1>4, <1>11
<1>13. \E d : /\ IsRedefined(d, mon, txMon[m], type[m].tx, "tx", n)
              /\ IsRedefined(mon', d, rxMon[m], type[m].rx, "rx", n)
  BY <1>4, <1>7
<1> QED
  BY <1>1, <1>2, <1>3, <1>12, <1>13

\* An object of a position, and a new one.
IsPlaced(new, objs, m, i, o) ==
  /\ new[m][i] = o
  /\ \A h \in Positions, j \in 0 .. OBJS - 1 :
       h # m \/ j # i => new[h][j] = objs[h][j]

LEMMA NewPlace ==
  ASSUME NEW size, NEW objs, ObjType(objs, size), NEW m \in Positions,
         NEW i \in 0 .. OBJS - 1, NEW o
  PROVE  IsPlaced([objs EXCEPT ![m][i] = o], objs, m, i, o)
<1> DEFINE new == [objs EXCEPT ![m][i] = o]
<1>1. DOMAIN objs = Positions /\ \A h \in Positions : DOMAIN objs[h] = 0 .. OBJS - 1
  BY DEF ObjType
<1>2. new[m] = [objs[m] EXCEPT ![i] = o]
  BY <1>1
<1>3. new[m][i] = o /\ \A j \in (0 .. OBJS - 1) \ {i} : new[m][j] = objs[m][j]
  BY <1>1, <1>2
<1>4. \A h \in Positions \ {m} : new[h] = objs[h]
  BY <1>1
<1> HIDE DEF new
<1>5. IsPlaced(new, objs, m, i, o)
  BY <1>3, <1>4 DEF IsPlaced
<1> QED
  BY <1>5 DEF new

LEMMA AddModuleObjects ==
  ASSUME OInv, NEW n \in Numbers, NEW t \in Types, AddModule(n, t) PROVE OInv'
<1>1. IInv'
  BY AddModuleStep DEF OInv
<1>2. UNCHANGED <<ctrl, half, missed, main, mon, rxMain, rxMon, txMon, lookMain, lookRx,
                  lookTx>>
  BY DEF AddModule, nodes, objects, lookups, hist
<1>3. occupied \in Positions /\ Declared(occupied, n) \in AllNumbers
  <2>1. occupied \in Positions
    BY SizesAssumption DEF AddModule, OInv, IInv, Shapes, Positions
  <2>2. n \in AllNumbers /\ DEF_NR + occupied \in AllNumbers
    BY <2>1 DEF AllNumbers
  <2> QED
    BY <2>1, <2>2 DEF Declared
<1>4. occupied' = occupied + 1 /\ occupied \in Nat /\ job' = [pos |-> occupied, tx |-> 0, rx |-> 0]
  BY SizesAssumption DEF AddModule, OInv, IInv, Shapes
<1>5. half \subseteq Modules' /\ missed \subseteq Modules' /\ occupied \notin half
  BY <1>4 DEF OInv, Kinds, Modules
<1>6. Kinds'
  <2>1. moduleNr' = [moduleNr EXCEPT ![occupied] = Declared(occupied, n)]
    BY DEF AddModule
  <2>2. moduleNr' \in [Positions -> AllNumbers] /\ ctrl' \in [Positions -> 0 .. MAIN_SIZE - 1]
    BY <1>2, <1>3, <2>1 DEF OInv, Kinds
  <2> QED
    BY <1>2, <1>3, <1>4, <1>5, <2>2, SizesAssumption DEF Kinds
<1>7. LastAdded'
  BY <1>2, <1>4, <1>5 DEF LastAdded
<1> QED
  BY <1>1, <1>2, <1>6, <1>7 DEF OInv, Controllers, Placed

\* A step of adding a module ends the adding or goes on with the module.
LEMMA JobGoesOn ==
  ASSUME Kinds, LastAdded, job # Idle, job.pos \in Modules,
         UNCHANGED <<occupied, moduleNr, ctrl, missed>>,
         \/ GiveUp
         \/ /\ UNCHANGED half /\ job'.pos = job.pos
            /\ job' \in [pos : Positions, tx : 0 .. OBJS, rx : 0 .. OBJS]
  PROVE  Kinds' /\ LastAdded'
<1>1. UNCHANGED Modules
  BY DEF Modules
<1>2. half' \subseteq Modules' /\ missed' \subseteq Modules'
  BY <1>1 DEF GiveUp, Kinds
<1>3. job' \in [pos : Positions, tx : 0 .. OBJS, rx : 0 .. OBJS] \cup {Idle}
  BY DEF GiveUp
<1>4. moduleNr' \in [Positions -> AllNumbers] /\ ctrl' \in [Positions -> 0 .. MAIN_SIZE - 1]
  BY DEF Kinds
<1>5. Kinds'
  BY <1>2, <1>3, <1>4 DEF Kinds
<1>6. job' # Idle => UNCHANGED half /\ job'.pos = job.pos
  BY DEF GiveUp
<1>7. LastAdded'
  BY <1>6 DEF LastAdded
<1> QED
  BY <1>5, <1>7

LEMMA AddTxObjects == ASSUME OInv, AddTx PROVE OInv'
<1> DEFINE m == job.pos
           i == job.tx
<1>1. IInv'
  BY AddTxStep DEF OInv
<1>2. /\ m \in Modules /\ m \in Positions /\ i \in 0 .. OBJS - 1 /\ job # Idle
      /\ job \in [pos : Positions, tx : 0 .. OBJS, rx : 0 .. OBJS]
      /\ i + 1 \in 0 .. OBJS
  BY AddTxEffect, Typed, SizesAssumption
<1>3. UNCHANGED <<occupied, moduleNr, main, rxMain, rxMon, lookMain, lookRx, ctrl, missed>>
  BY AddTxEffect
<1>4. UNCHANGED Modules /\ Placed'
  BY <1>3 DEF OInv, Placed, Modules
<1>5. job' = [job EXCEPT !.tx = @ + 1] =>
        /\ job'.pos = job.pos
        /\ job' \in [pos : Positions, tx : 0 .. OBJS, rx : 0 .. OBJS]
  BY <1>2
<1>6. GiveUp \/ (UNCHANGED half /\ job' = [job EXCEPT !.tx = @ + 1])
  BY AddTxEffect DEF TxTaken
<1>7. Kinds' /\ LastAdded'
  BY <1>2, <1>3, <1>5, <1>6, JobGoesOn DEF OInv
<1>8. Controllers'
  <2>1. CASE UNCHANGED <<mon, txMon, lookTx>>
    BY <1>3, <2>1 DEF OInv, Controllers
  <2>2. ASSUME NEW o, TxTaken(o) PROVE Controllers'
    <3> DEFINE v == {<<"tx", moduleNr[m], i>>}
    <3>1. o \in 0 .. MON_SIZE - 1 /\ mon' = With(mon, o, v)
          /\ txMon' = [txMon EXCEPT ![m][i] = o]
          /\ (lookTx' = lookTx \/ lookTx' = With(lookTx, o, m))
      BY <2>2 DEF TxTaken
    <3>2. v \subseteq Frames
      BY <1>2 DEF OInv, Kinds, Frames
    <3>3. DOMAIN mon' = DOMAIN mon \cup {o}
      BY <3>1 DEF With
    <3>4. DOMAIN lookTx' \subseteq DOMAIN lookTx \cup {o}
      BY <3>1 DEF With
    <3> HIDE DEF v
    <3>5. NodeType(mon', MON_SIZE)
      BY <3>1, <3>2, WithType DEF OInv, Controllers
    <3>6. ObjType(txMon', MON_SIZE)
      BY <1>2, <3>1, PlacedType DEF OInv, Controllers
    <3> QED
      BY <1>3, <3>3, <3>4, <3>5, <3>6 DEF OInv, Controllers
  <2> QED
    BY <2>1, <2>2, AddTxEffect
<1> QED
  BY <1>1, <1>4, <1>7, <1>8 DEF OInv

LEMMA AddRxObjects == ASSUME OInv, AddRx PROVE OInv'
<1> DEFINE m == job.pos
           i == job.rx
<1>1. IInv'
  BY AddRxStep DEF OInv
<1>2. /\ m \in Modules /\ m \in Positions /\ i \in 0 .. OBJS - 1 /\ job # Idle
      /\ job \in [pos : Positions, tx : 0 .. OBJS, rx : 0 .. OBJS]
      /\ i + 1 \in 0 .. OBJS /\ moduleNr[m] \in AllNumbers
  BY AddRxEffect, Typed, SizesAssumption DEF OInv, Kinds
<1>3. UNCHANGED <<occupied, moduleNr, txMon, lookTx, ctrl, missed>>
  BY AddRxEffect
<1>4. UNCHANGED Modules
  BY <1>3 DEF Modules
<1>5. job' = [job EXCEPT !.rx = @ + 1] =>
        /\ job'.pos = job.pos
        /\ job' \in [pos : Positions, tx : 0 .. OBJS, rx : 0 .. OBJS]
  BY <1>2
<1>6. GiveUp \/ (UNCHANGED half /\ job' = [job EXCEPT !.rx = @ + 1])
  BY AddRxEffect DEF RxHeard
<1>7. Kinds' /\ LastAdded'
  BY <1>2, <1>3, <1>5, <1>6, JobGoesOn DEF OInv
<1> DEFINE v == {<<"rx", moduleNr[m], i>>}
<1>8. v \subseteq Frames
  BY <1>2 DEF Frames
<1> HIDE DEF v
<1>9. Placed' /\ NodeType(main', MAIN_SIZE) /\ ObjType(rxMain', MAIN_SIZE)
  <2>1. CASE UNCHANGED <<main, rxMain, lookMain>>
    BY <2>1 DEF OInv, Placed, Controllers
  <2>2. ASSUME NEW o, RxTaken(o)
        PROVE  Placed' /\ NodeType(main', MAIN_SIZE) /\ ObjType(rxMain', MAIN_SIZE)
    <3>1. /\ o \in (0 .. MAIN_SIZE - 1) \ DOMAIN main /\ main' = With(main, o, v)
          /\ rxMain' = [rxMain EXCEPT ![m][i] = o]
          /\ lookMain' = With(lookMain, o, m)
      BY <2>2 DEF RxTaken, v
    <3>2. DOMAIN main' = DOMAIN main \cup {o} /\ DOMAIN lookMain' = DOMAIN lookMain \cup {o}
      BY <3>1 DEF With
    <3>3. NodeType(main', MAIN_SIZE)
      BY <1>8, <3>1, WithType DEF OInv, Controllers
    <3>4. ObjType(rxMain', MAIN_SIZE)
      BY <1>2, <3>1, PlacedType DEF OInv, Controllers
    <3>5. ASSUME NEW h \in Positions, NEW j \in 0 .. OBJS - 1
          PROVE  rxMain'[h][j] \in DOMAIN lookMain' \cup {PROCESS}
      <4>0. IsPlaced([rxMain EXCEPT ![m][i] = o], rxMain, m, i, o)
        BY <1>2, NewPlace DEF OInv, Controllers
      <4>1. rxMain'[h][j] = o \/ rxMain'[h][j] = rxMain[h][j]
        BY <3>1, <3>5, <4>0 DEF IsPlaced
      <4> QED
        BY <3>2, <3>5, <4>1 DEF OInv, Placed
    <3>6. Fixed \subseteq DOMAIN main' /\ DOMAIN lookMain' \subseteq DOMAIN main' \ Fixed
      BY <3>1, <3>2 DEF OInv, Placed
    <3> QED
      BY <3>3, <3>4, <3>5, <3>6 DEF Placed
  <2> QED
    BY <2>1, <2>2, AddRxEffect
<1>10. NodeType(mon', MON_SIZE) /\ ObjType(rxMon', MON_SIZE) /\ DOMAIN lookRx' \subseteq DOMAIN mon'
       /\ DOMAIN mon \subseteq DOMAIN mon'
  <2>1. CASE UNCHANGED <<mon, rxMon, lookRx>>
    BY <2>1 DEF OInv, Controllers
  <2>2. ASSUME NEW p, RxHeard(p)
        PROVE  NodeType(mon', MON_SIZE) /\ ObjType(rxMon', MON_SIZE)
               /\ DOMAIN lookRx' \subseteq DOMAIN mon' /\ DOMAIN mon \subseteq DOMAIN mon'
    <3>1. /\ p \in 0 .. MON_SIZE - 1 /\ mon' = With(mon, p, v)
          /\ rxMon' = [rxMon EXCEPT ![m][i] = p]
          /\ lookRx' = With(lookRx, p, m)
      BY <2>2 DEF RxHeard, v
    <3>2. DOMAIN mon' = DOMAIN mon \cup {p} /\ DOMAIN lookRx' = DOMAIN lookRx \cup {p}
      BY <3>1 DEF With
    <3>3. NodeType(mon', MON_SIZE)
      BY <1>8, <3>1, WithType DEF OInv, Controllers
    <3>4. ObjType(rxMon', MON_SIZE)
      BY <1>2, <3>1, PlacedType DEF OInv, Controllers
    <3> QED
      BY <3>2, <3>3, <3>4 DEF OInv, Controllers
  <2> QED
    BY <2>1, <2>2, AddRxEffect
<1> QED
  BY <1>1, <1>3, <1>7, <1>9, <1>10 DEF OInv, Controllers

LEMMA AddControlObjects == ASSUME OInv, AddControl PROVE OInv'
<1>1. IInv'
  BY AddControlStep DEF OInv
<1>2. /\ job.pos \in Modules /\ job.pos \in Positions /\ job' = Idle
      /\ moduleNr[job.pos] \in AllNumbers
  BY AddControlEffect, Typed DEF OInv, Kinds
<1>3. UNCHANGED <<occupied, moduleNr, mon, rxMain, rxMon, txMon, lookMain, lookRx, lookTx, half>>
  BY AddControlEffect
<1>4. UNCHANGED Modules /\ LastAdded'
  BY <1>2, <1>3 DEF Modules, LastAdded
<1>5. missed' \subseteq Modules'
  BY <1>2, <1>4, AddControlEffect DEF OInv, Kinds
<1>6. /\ ctrl' \in [Positions -> 0 .. MAIN_SIZE - 1] /\ Placed' /\ NodeType(main', MAIN_SIZE)
  <2>1. CASE UNCHANGED <<main, ctrl>>
    BY <1>3, <2>1 DEF OInv, Kinds, Controllers, Placed
  <2>2. ASSUME NEW o \in (0 .. MAIN_SIZE - 1) \ DOMAIN main, NEW nrs,
               ctrl' = [ctrl EXCEPT ![counted] = o],
               IsListening(main', main, o, moduleNr[job.pos], nrs)
        PROVE  ctrl' \in [Positions -> 0 .. MAIN_SIZE - 1] /\ Placed' /\ NodeType(main', MAIN_SIZE)
    <3>1. ctrl' \in [Positions -> 0 .. MAIN_SIZE - 1]
      BY <2>2 DEF OInv, Kinds
    <3>2. NodeType(main', MAIN_SIZE)
      BY <1>2, <2>2, ListeningType DEF OInv, Controllers
    <3>3. DOMAIN main \subseteq DOMAIN main'
      BY <2>2 DEF IsListening
    <3>4. Placed'
      BY <1>3, <3>3 DEF OInv, Placed
    <3> QED
      BY <3>1, <3>2, <3>4
  <2> QED
    BY <2>1, <2>2, AddControlEffect
<1>7. Kinds'
  BY <1>2, <1>3, <1>4, <1>5, <1>6 DEF OInv, Kinds
<1> QED
  BY <1>1, <1>3, <1>4, <1>6, <1>7 DEF OInv, Controllers

\* The objects of a position that have been given to nobody are the process
\* request's: a new number may take that object, never another fixed one.
LEMMA NumberObjects ==
  ASSUME OInv, NEW m \in Modules, NEW n \in Numbers, NEW vote \in Votes,
         ChangeModuleNr(m, n, vote)
  PROVE  OInv'
<1>1. IInv'
  BY ChangeModuleNrStep DEF OInv
<1>2. /\ m \in Positions /\ n \in AllNumbers
      /\ type[m].rx \in 0 .. OBJS /\ type[m].tx \in 0 .. OBJS
      /\ moduleNr' = [moduleNr EXCEPT ![m] = n]
      /\ UNCHANGED <<occupied, rxMain, rxMon, txMon, lookMain, lookRx, lookTx, job, half>>
  BY NumberEffect
<1>3. UNCHANGED Modules
  BY <1>2 DEF Modules
<1>4. LastAdded'
  BY <1>2 DEF OInv, LastAdded
<1>5. moduleNr' \in [Positions -> AllNumbers]
  BY <1>2 DEF OInv, Kinds
<1>6. /\ Redefinable(MAIN_SIZE, rxMain[m], type[m].rx, "rx", n)
      /\ Redefinable(MON_SIZE, rxMon[m], type[m].rx, "rx", n)
      /\ Redefinable(MON_SIZE, txMon[m], type[m].tx, "tx", n)
  BY <1>2 DEF OInv, Controllers, ObjType, Redefinable
<1>7. NodeType(mon', MON_SIZE) /\ DOMAIN mon \subseteq DOMAIN mon'
  <2>1. PICK mid : /\ IsRedefined(mid, mon, txMon[m], type[m].tx, "tx", n)
                   /\ IsRedefined(mon', mid, rxMon[m], type[m].rx, "rx", n)
    BY NumberEffect
  <2>2. NodeType(mon, MON_SIZE)
    BY DEF OInv, Controllers
  <2>3. NodeType(mid, MON_SIZE) /\ DOMAIN mon \subseteq DOMAIN mid
    BY <1>6, <2>1, <2>2, RedefinedType
  <2>4. NodeType(mon', MON_SIZE) /\ DOMAIN mid \subseteq DOMAIN mon'
    BY <1>6, <2>1, <2>3, RedefinedType
  <2> QED
    BY <2>3, <2>4
<1>8. PICK data :
         /\ IsRedefined(data, main, rxMain[m], type[m].rx, "rx", n)
         /\ \/ /\ main' = data
               /\ missed' = missed \cup {m} /\ UNCHANGED ctrl
            \/ /\ missed' = missed \ {m}
               /\ \E o \in (0 .. MAIN_SIZE - 1) \ DOMAIN data :
                    /\ ctrl' = [ctrl EXCEPT ![m] = o]
                    /\ IsListening(main', data, o, n, Renumbered(m, n))
  BY NumberEffect
<1>9. NodeType(data, MAIN_SIZE) /\ DOMAIN main \subseteq DOMAIN data
  <2>1. NodeType(main, MAIN_SIZE)
    BY DEF OInv, Controllers
  <2> QED
    BY <1>6, <1>8, <2>1, RedefinedType
<1>10. /\ ctrl' \in [Positions -> 0 .. MAIN_SIZE - 1]
       /\ NodeType(main', MAIN_SIZE) /\ DOMAIN main \subseteq DOMAIN main'
  <2>1. CASE main' = data /\ UNCHANGED ctrl
    BY <1>9, <2>1 DEF OInv, Kinds
  <2>2. ASSUME NEW o \in (0 .. MAIN_SIZE - 1) \ DOMAIN data,
               ctrl' = [ctrl EXCEPT ![m] = o],
               IsListening(main', data, o, n, Renumbered(m, n))
        PROVE  /\ ctrl' \in [Positions -> 0 .. MAIN_SIZE - 1]
               /\ NodeType(main', MAIN_SIZE) /\ DOMAIN main \subseteq DOMAIN main'
    <3>1. ctrl' \in [Positions -> 0 .. MAIN_SIZE - 1]
      BY <2>2 DEF OInv, Kinds
    <3>2. NodeType(main', MAIN_SIZE)
      BY <1>2, <1>9, <2>2, ListeningType
    <3>3. DOMAIN data \subseteq DOMAIN main'
      BY <2>2 DEF IsListening
    <3> QED
      BY <1>9, <3>1, <3>2, <3>3
  <2> QED
    BY <1>8, <2>1, <2>2
<1>11. missed' \subseteq Modules'
  BY <1>3, <1>8 DEF OInv, Kinds
<1>12. Kinds'
  BY <1>2, <1>3, <1>5, <1>10, <1>11 DEF OInv, Kinds
<1>13. Placed'
  BY <1>2, <1>10 DEF OInv, Placed
<1> QED
  BY <1>1, <1>2, <1>4, <1>7, <1>10, <1>12, <1>13 DEF OInv, Controllers

\* The steps that leave the objects and the numbers alone.
Bookkeeping == <<occupied, moduleNr, main, mon, rxMain, rxMon, txMon, lookMain, lookRx,
                 lookTx, ctrl, job, half, missed>>

LEMMA QuietStep ==
  ASSUME Start \/ (\E m \in Modules : ChangeModuleType(m))
           \/ (\E m \in Modules, s \in States : SetSilentAwake(m, s)) \/ UNCHANGED vars
  PROVE  UNCHANGED <<Bookkeeping, counted, left, strayed>>
BY DEF Start, ChangeModuleType, SetSilentAwake, vars, table, nodes, objects, lookups,
       hist, Bookkeeping

LEMMA NextOInv == OInv /\ [Next]_vars => OInv'
<1> SUFFICES ASSUME OInv, [Next]_vars PROVE OInv'
    OBVIOUS
<1>1. CASE Add
  BY <1>1, AddModuleObjects, AddTxObjects, AddRxObjects, AddControlObjects DEF Add
<1>2. CASE Number
  BY <1>2, NumberObjects DEF Number
<1>3. CASE Start \/ Type \/ Switch \/ UNCHANGED vars
  <2>1. UNCHANGED Bookkeeping
    BY <1>3, QuietStep DEF Type, Switch, States
  <2>2. IInv'
    BY NextIInv DEF OInv
  <2>3. Kinds' /\ LastAdded'
    BY <2>1 DEF OInv, Kinds, LastAdded, Bookkeeping, Modules
  <2>4. Controllers' /\ Placed'
    BY <2>1 DEF OInv, Controllers, Placed, Bookkeeping
  <2> QED
    BY <2>2, <2>3, <2>4 DEF OInv
<1> QED
  BY <1>1, <1>2, <1>3 DEF Next

\* The node is started or not, a half-added module has got a number or not,
\* which numbers were given up: values the other proofs need not know.
Flagged == started \in BOOLEAN /\ strayed \in BOOLEAN /\ left \subseteq AllNumbers

LEMMA InitFlagged == Init => Flagged
BY DEF Init, Flagged

LEMMA NextFlagged == OInv /\ Flagged /\ [Next]_vars => Flagged'
<1> SUFFICES ASSUME OInv, Flagged, [Next]_vars PROVE Flagged'
    OBVIOUS
<1>1. CASE Add
  <2>1. UNCHANGED <<started, left, strayed>>
    BY <1>1 DEF Add, AddModule, AddTx, AddRx, AddControl, hist
  <2> QED
    BY <2>1 DEF Flagged, AllNumbers, Positions
<1>2. CASE Start
  <2>1. started' = TRUE /\ UNCHANGED <<left, strayed>>
    BY <1>2 DEF Start, hist
  <2> QED
    BY <2>1, Zenon DEF Flagged, AllNumbers, Positions
<1>3. CASE Number
  <2>1. UNCHANGED started /\ \E m \in Modules : /\ strayed' = (strayed \/ m \in half)
                                               /\ left' = left \cup {moduleNr[m]}
    BY <1>3 DEF Number, ChangeModuleNr
  <2>2. \A m \in Modules : moduleNr[m] \in AllNumbers
    BY Typed DEF OInv, Kinds
  <2>3. left' \subseteq AllNumbers
    BY <2>1, <2>2, Zenon DEF Flagged
  <2> QED
    BY <2>1, <2>3, Zenon DEF Flagged, AllNumbers, Positions
<1>4. CASE Type \/ Switch \/ UNCHANGED vars
  <2>1. UNCHANGED <<started, left, strayed>>
    BY <1>4 DEF Type, ChangeModuleType, Switch, SetSilentAwake, vars, hist
  <2> QED
    BY <2>1 DEF Flagged, AllNumbers, Positions
<1> QED
  BY <1>1, <1>2, <1>3, <1>4, Zenon DEF Next

\* Every variable keeps its type: the objects used stay within the controllers
\* and take frames, the tables of the handlers name objects, whatever fails.
THEOREM TypeCorrect == Spec => []TypeOK
<1>1. OInv /\ Flagged => TypeOK
  <2> SUFFICES ASSUME OInv, Flagged PROVE TypeOK
      OBVIOUS
  <2>1. started \in BOOLEAN /\ strayed \in BOOLEAN /\ left \subseteq AllNumbers
    BY Zenon DEF Flagged
  <2>2. /\ occupied \in 0 .. MAX /\ counted \in 0 .. occupied
        /\ type \in [Positions -> Types]
        /\ silent \in [Positions -> {"SILENT", "AWAKE"}]
    BY DEF OInv, IInv, Shapes, States
  <2>3. /\ moduleNr \in [Positions -> AllNumbers]
        /\ ctrl \in [Positions -> 0 .. MAIN_SIZE - 1]
        /\ job \in [pos : Positions, tx : 0 .. OBJS, rx : 0 .. OBJS] \cup {Idle}
        /\ half \subseteq Positions /\ missed \subseteq Positions
    BY Typed DEF OInv, Kinds
  <2>4. /\ DOMAIN main \subseteq 0 .. MAIN_SIZE - 1
        /\ \A o \in DOMAIN main : main[o] \subseteq Frames
        /\ DOMAIN mon \subseteq 0 .. MON_SIZE - 1
        /\ \A o \in DOMAIN mon : mon[o] \subseteq Frames
    BY DEF OInv, Controllers, NodeType
  <2>5. /\ rxMain \in [Positions -> [0 .. OBJS - 1 -> 0 .. MAIN_SIZE - 1]]
        /\ rxMon \in [Positions -> [0 .. OBJS - 1 -> 0 .. MON_SIZE - 1]]
        /\ txMon \in [Positions -> [0 .. OBJS - 1 -> 0 .. MON_SIZE - 1]]
    BY DEF OInv, Controllers, ObjType
  <2>6. /\ DOMAIN lookMain \subseteq DOMAIN main
        /\ (DOMAIN lookRx) \cup (DOMAIN lookTx) \subseteq DOMAIN mon
    BY DEF OInv, Controllers, Placed
  <2>7. sendReg \subseteq Positions \X (0 .. OBJS - 1)
    <3> SUFFICES ASSUME NEW f \in sendReg PROVE f \in Positions \X (0 .. OBJS - 1)
      OBVIOUS
    <3>1. f[1] \in Modules /\ f \in Flags(f[1])
      BY DEF OInv, IInv, FlagsBelow
    <3>2. f[1] \in Positions /\ type[f[1]].tx \in 0 .. OBJS
      BY <3>1, Typed
    <3> QED
      BY <3>1, <3>2, SizesAssumption DEF Flags
  <2> QED
    BY <2>1, <2>2, <2>3, <2>4, <2>5, <2>6, <2>7, Zenon DEF TypeOK
<1> QED
  BY InitOInv, NextOInv, InitFlagged, NextFlagged, <1>1, PTL DEF Spec

-----------------------------------------------------------------------------
(***************************************************************************)
(* The masks: the three objects that take the messages of the system       *)
(* change only when all of them are computed anew, from all the numbers    *)
(* of the modules.                                                         *)
(***************************************************************************)

\* The modules the mask has been computed for: all but the one being added;
\* once the node is started, those that are counted.
Reached == IF started THEN 0 .. counted - 1 ELSE Modules \ {job.pos}

Hears(node, n) == /\ <<"system", n, 0>> \in node[SYS] \cap node[SYS2]
                  /\ <<"async", n, 0>> \in node[ASYNC]

MaskInv == /\ <<"system", BROADCAST, 0>> \in main[SYS] \cap main[SYS2]
           /\ \A m \in Reached \ (half \cup missed) : Hears(main, moduleNr[m])

\* The number of a module passes the mask computed from it and others, and so
\* does the broadcast number, which has no bit.
LEMMA NumberAccepted ==
  ASSUME NEW nrs, NEW n \in AllNumbers, n \in nrs
  PROVE  n \in Accepted(nrs)
BY DEF Accepted

LEMMA BroadcastAccepted == ASSUME NEW nrs PROVE BROADCAST \in Accepted(nrs)
<1>1. \A w \in Weights : ((BROADCAST - 1) \div w) % 2 = 0
  BY DEF Weights, BROADCAST
<1>2. Bits(BROADCAST) = {}
  BY <1>1 DEF Bits
<1> QED
  BY <1>2 DEF Accepted, AllNumbers

LEMMA ListeningHears ==
  ASSUME NEW new, NEW node, NEW o, NEW n, NEW nrs, IsListening(new, node, o, n, nrs)
  PROVE  /\ <<"system", BROADCAST, 0>> \in new[SYS] \cap new[SYS2]
         /\ \A k \in AllNumbers : k \in nrs => Hears(new, k)
<1> DEFINE acc == Accepted(nrs)
<1>1. BROADCAST \in acc /\ \A k \in AllNumbers : k \in nrs => k \in acc
  BY BroadcastAccepted, NumberAccepted
<1>2. /\ new[SYS] = {<<"system", k, 0>> : k \in acc}
      /\ new[SYS2] = {<<"system", k, 0>> : k \in acc}
      /\ new[ASYNC] = {<<"async", k, 0>> : k \in acc}
  BY DEF IsListening
<1> HIDE DEF acc
<1> QED
  BY <1>1, <1>2 DEF Hears

\* The objects of a position are none of those with a mask.
LEMMA DataApart ==
  ASSUME OInv, NEW m \in Positions, NEW i \in 0 .. OBJS - 1
  PROVE  rxMain[m][i] \notin {SYS, SYS2, ASYNC}
BY DEF OInv, Placed, Fixed, PROCESS, SYS, SYS2, ASYNC, TX_SYNC

\* Which objects of the main controller a new number leaves alone.
LEMMA RedefinedApart ==
  ASSUME OInv, NEW m \in Positions, NEW k, NEW n, k \in 0 .. OBJS,
         NEW data, IsRedefined(data, main, rxMain[m], k, "rx", n),
         NEW o \in DOMAIN main, o \notin DOMAIN lookMain \cup {PROCESS}
  PROVE  o \in DOMAIN data /\ data[o] = main[o]
<1>1. \A i \in 0 .. k - 1 : i \in 0 .. OBJS - 1
  BY SizesAssumption
<1>2. \A i \in 0 .. k - 1 : rxMain[m][i] # o
  BY <1>1 DEF OInv, Placed
<1>3. o \in DOMAIN data
  BY DEF IsRedefined
<1> QED
  BY <1>2, <1>3 DEF IsRedefined

LEMMA SystemObjects ==
  ASSUME OInv
  PROVE  \A o \in {SYS, SYS2, ASYNC} : o \in DOMAIN main
                                       /\ o \notin DOMAIN lookMain \cup {PROCESS}
BY DEF OInv, Placed, Fixed, PROCESS, SYS, SYS2, ASYNC, TX_SYNC

LEMMA InitMask == Init => MaskInv
<1> SUFFICES ASSUME Init PROVE MaskInv
    OBVIOUS
<1>1. main[SYS] = {<<"system", BROADCAST, 0>>} /\ main[SYS2] = {<<"system", BROADCAST, 0>>}
  BY DEF Init, PROCESS, SYS, SYS2, ASYNC, TX_SYNC
<1>2. Reached = {}
  BY DEF Init, Reached, Modules
<1> QED
  BY <1>1, <1>2 DEF MaskInv

\* The masks stay, and so does who is reached by them.
LEMMA MaskKept ==
  ASSUME MaskInv, Reached' \ (half \cup missed)' \subseteq Reached \ (half \cup missed),
         \A m \in Reached' \ (half \cup missed)' : moduleNr'[m] = moduleNr[m],
         \A o \in {SYS, SYS2, ASYNC} : main'[o] = main[o]
  PROVE  MaskInv'
<1>1. main'[SYS] = main[SYS] /\ main'[SYS2] = main[SYS2] /\ main'[ASYNC] = main[ASYNC]
  OBVIOUS
<1>2. <<"system", BROADCAST, 0>> \in main'[SYS] \cap main'[SYS2]
  BY <1>1 DEF MaskInv
<1>3. ASSUME NEW m \in Reached' \ (half \cup missed)'
      PROVE  Hears(main', moduleNr'[m])
  <2>1. Hears(main, moduleNr[m])
    BY <1>3 DEF MaskInv
  <2> QED
    BY <1>1, <1>3, <2>1 DEF Hears
<1> QED
  BY <1>2, <1>3 DEF MaskInv

LEMMA MaskStep == ASSUME OInv, MaskInv, [Next]_vars PROVE MaskInv'
<1>1. ASSUME NEW n \in Numbers, NEW t \in Types, AddModule(n, t) PROVE MaskInv'
  <2>1. /\ ~ started /\ ~ started' /\ job.pos = -1 /\ job'.pos = occupied
        /\ occupied' = occupied + 1 /\ occupied \in Nat
        /\ moduleNr' = [moduleNr EXCEPT ![occupied] = Declared(occupied, n)]
        /\ UNCHANGED <<main, half, missed>>
    BY <1>1, SizesAssumption
       DEF AddModule, nodes, hist, Idle, OInv, IInv, Shapes
  <2>2. Reached' = Reached /\ Reached \subseteq Modules /\ occupied \notin Modules
    BY <2>1 DEF Reached, Modules
  <2>3. \A m \in Reached' : moduleNr'[m] = moduleNr[m]
    BY <2>1, <2>2, Typed DEF OInv, Kinds
  <2> QED
    BY <2>1, <2>2, <2>3, MaskKept
<1>2. CASE AddTx
  <2>1. /\ UNCHANGED <<started, occupied, moduleNr, main, missed>>
        /\ ~ started /\ half \subseteq half'
        /\ job'.pos = job.pos \/ job.pos \in half'
    BY <1>2, AddTxEffect DEF TxTaken, GiveUp
  <2>2. Reached' \ (half \cup missed)' \subseteq Reached \ (half \cup missed)
    BY <2>1 DEF Reached, Modules
  <2> QED
    BY <2>1, <2>2, MaskKept
<1>3. CASE AddRx
  <2>1. /\ UNCHANGED <<started, occupied, moduleNr, missed>>
        /\ ~ started /\ half \subseteq half'
        /\ job'.pos = job.pos \/ job.pos \in half'
    BY <1>3, AddRxEffect DEF RxHeard, GiveUp
  <2>2. Reached' \ (half \cup missed)' \subseteq Reached \ (half \cup missed)
    BY <2>1 DEF Reached, Modules
  <2>3. \A o \in DOMAIN main : main'[o] = main[o]
    BY <1>3, AddRxEffect DEF RxTaken, With
  <2> QED
    BY <2>1, <2>2, <2>3, SystemObjects, MaskKept
<1>4. CASE AddControl
  <2>1. /\ ~ started /\ job.pos \in Modules /\ job' = Idle /\ job # Idle
        /\ UNCHANGED <<started, occupied, moduleNr, half>>
    BY <1>4, AddControlEffect
  <2>2. job.pos = occupied - 1
    BY <2>1 DEF OInv, LastAdded
  <2>3. Reached \subseteq Modules /\ Reached' \subseteq Modules /\ Modules = Reached \cup {job.pos}
    BY <2>1 DEF Reached, Modules
  <2>4. CASE missed' = missed \cup {job.pos} /\ UNCHANGED main
    BY <2>1, <2>3, <2>4, MaskKept
  <2>5. ASSUME NEW o, UNCHANGED missed,
               IsListening(main', main, o, moduleNr[job.pos],
                           {moduleNr[k] : k \in 0 .. job.pos})
        PROVE  MaskInv'
    <3> DEFINE nrs == {moduleNr[k] : k \in 0 .. job.pos}
    <3>1. \A m \in Modules : moduleNr[m] \in nrs /\ moduleNr[m] \in AllNumbers
      BY <2>2, Typed DEF Modules, OInv, Kinds
    <3>2. /\ <<"system", BROADCAST, 0>> \in main'[SYS] \cap main'[SYS2]
          /\ \A k \in AllNumbers : k \in nrs => Hears(main', k)
      BY <2>5, ListeningHears
    <3> QED
      BY <2>1, <2>3, <3>1, <3>2 DEF MaskInv
  <2> QED
    BY <1>4, <2>4, <2>5, AddControlEffect
<1>5. ASSUME NEW m \in Modules, NEW n \in Numbers, NEW v \in Votes, ChangeModuleNr(m, n, v)
      PROVE  MaskInv'
  <2>1. /\ started /\ UNCHANGED <<started, counted, half>>
        /\ m \in Positions /\ n \in AllNumbers /\ type[m].rx \in 0 .. OBJS
        /\ moduleNr' = [moduleNr EXCEPT ![m] = n]
    BY <1>5, NumberEffect
  <2>2. Reached' = Reached /\ Reached = 0 .. counted - 1
    BY <2>1 DEF Reached
  <2>3. Reached \subseteq Positions
    BY <2>2, SizesAssumption DEF OInv, IInv, Shapes, Positions
  <2>4. \A k \in Positions : moduleNr'[k] = IF k = m THEN n ELSE moduleNr[k]
    BY <2>1 DEF OInv, Kinds
  <2>5. PICK data :
          /\ IsRedefined(data, main, rxMain[m], type[m].rx, "rx", n)
          /\ \/ main' = data /\ missed' = missed \cup {m}
             \/ \E o : IsListening(main', data, o, n, Renumbered(m, n))
    BY <1>5, NumberEffect
  <2>6. CASE main' = data /\ missed' = missed \cup {m}
    <3>1. ASSUME NEW o \in {SYS, SYS2, ASYNC} PROVE main'[o] = main[o]
      <4>1. o \in DOMAIN main /\ o \notin DOMAIN lookMain \cup {PROCESS}
        BY <3>1, SystemObjects
      <4>2. m \in Positions /\ type[m].rx \in 0 .. OBJS
            /\ IsRedefined(data, main, rxMain[m], type[m].rx, "rx", n)
        BY <2>1, <2>5
      <4>3. data[o] = main[o]
        BY <4>1, <4>2, RedefinedApart
      <4> QED
        BY <2>6, <4>3
    <3>2. \A k \in Reached' \ (half \cup missed)' : moduleNr'[k] = moduleNr[k]
      BY <2>2, <2>3, <2>4, <2>6
    <3> QED
      BY <2>1, <2>2, <2>6, <3>1, <3>2, MaskKept
  <2>7. ASSUME NEW o, IsListening(main', data, o, n, Renumbered(m, n)) PROVE MaskInv'
    <3>1. \A k \in Reached : moduleNr'[k] \in Renumbered(m, n) /\ moduleNr'[k] \in AllNumbers
      BY <2>1, <2>2, <2>3, <2>4 DEF Renumbered, OInv, Kinds
    <3>2. /\ <<"system", BROADCAST, 0>> \in main'[SYS] \cap main'[SYS2]
          /\ \A k \in AllNumbers : k \in Renumbered(m, n) => Hears(main', k)
      BY <2>7, ListeningHears
    <3> QED
      BY <2>2, <3>1, <3>2 DEF MaskInv
  <2> QED
    BY <2>5, <2>6, <2>7
<1>6. CASE Start \/ Type \/ Switch \/ UNCHANGED vars
  <2>1. UNCHANGED <<moduleNr, main, half, missed, counted, occupied, job>>
    BY <1>6, QuietStep DEF Type, Switch, States, Bookkeeping
  <2>2. UNCHANGED started \/ (started' /\ ~ started /\ job.pos = -1)
    BY <1>6 DEF Start, Idle, Type, ChangeModuleType, Switch, SetSilentAwake, vars
  <2>3. 0 .. counted - 1 \subseteq Modules
    BY DEF OInv, IInv, Shapes, Modules
  <2>4. Reached' \subseteq Reached
    BY <2>1, <2>2, <2>3 DEF Reached, Modules
  <2> QED
    BY <2>1, <2>4, MaskKept
<1> QED
  BY <1>1, <1>2, <1>3, <1>4, <1>5, <1>6 DEF Next, Add, Number

\* The master reaches every counted module under its own number and all of
\* them under the broadcast number, after every sequence of changes.
THEOREM MaskLetsAllPass == Spec => []SystemReached
<1>1. OInv /\ MaskInv => SystemReached
  <2> SUFFICES ASSUME OInv, MaskInv, job = Idle,
                      NEW m \in 0 .. counted - 1, Whole(m), m \notin missed
               PROVE  Hears(main, moduleNr[m])
    BY DEF SystemReached, MaskInv, Hears
  <2>1. m \in Modules /\ m \notin half /\ m # job.pos
    BY DEF Whole, Idle, OInv, IInv, Shapes, Modules
  <2>2. m \in Reached
    BY <2>1 DEF Reached
  <2> QED
    BY <2>1, <2>2 DEF MaskInv
<1>2. Init => MaskInv
  BY InitMask
<1>3. OInv /\ MaskInv /\ [Next]_vars => MaskInv'
  BY MaskStep
<1> QED
  BY InitOInv, NextOInv, <1>1, <1>2, <1>3, PTL DEF Spec

-----------------------------------------------------------------------------
(***************************************************************************)
(* The control objects: as long as no adding failed, the number of modules *)
(* counted is the position of the one being added, so its control object   *)
(* is entered at its own position; nothing writes it but a new number of   *)
(* the same module, which takes another object.                            *)
(***************************************************************************)
CtrlOf(m) == /\ ctrl[m] \in DOMAIN main \ (DOMAIN lookMain \cup Fixed)
             /\ main[ctrl[m]] = {<<"control", moduleNr[m], 0>>}

CtrlInv == half = {} =>
             /\ counted = IF job = Idle THEN occupied ELSE occupied - 1
             /\ \A m \in Modules \ (missed \cup {job.pos}) : CtrlOf(m)

LEMMA InitCtrl == Init => CtrlInv
BY DEF Init, CtrlInv, Modules

\* A control object that is not written, not looked up and not renumbered.
LEMMA CtrlKept ==
  ASSUME NEW m, CtrlOf(m), ctrl'[m] = ctrl[m], moduleNr'[m] = moduleNr[m],
         ctrl[m] \in DOMAIN main', main'[ctrl[m]] = main[ctrl[m]],
         \A o \in DOMAIN lookMain' : o \in DOMAIN lookMain \/ o \notin DOMAIN main
  PROVE  CtrlOf(m)'
BY DEF CtrlOf

LEMMA CtrlStep == ASSUME OInv, CtrlInv, [Next]_vars PROVE CtrlInv'
<1> SUFFICES ASSUME half' = {}
             PROVE  /\ counted' = IF job' = Idle THEN occupied' ELSE occupied' - 1
                    /\ \A m \in Modules' \ (missed \cup {job.pos})' : CtrlOf(m)'
  BY DEF CtrlInv
<1>0. DOMAIN moduleNr = Positions /\ DOMAIN ctrl = Positions /\ Modules \subseteq Positions
      /\ occupied \in Nat /\ Idle.pos = -1
  BY Typed, SizesAssumption DEF OInv, Kinds, IInv, Shapes, Idle
<1>1. ASSUME NEW n \in Numbers, NEW t \in Types, AddModule(n, t)
      PROVE  /\ counted' = IF job' = Idle THEN occupied' ELSE occupied' - 1
             /\ \A m \in Modules' \ (missed \cup {job.pos})' : CtrlOf(m)'
  <2>1. /\ job = Idle /\ job'.pos = occupied /\ job' # Idle
        /\ occupied' = occupied + 1
        /\ moduleNr' = [moduleNr EXCEPT ![occupied] = Declared(occupied, n)]
        /\ UNCHANGED <<counted, main, lookMain, ctrl, half, missed>>
    BY <1>0, <1>1 DEF AddModule, nodes, lookups, hist, Idle
  <2>2. counted = occupied /\ \A m \in Modules \ (missed \cup {job.pos}) : CtrlOf(m)
    BY <2>1 DEF CtrlInv
  <2>3. ASSUME NEW m \in Modules' \ (missed \cup {job.pos})' PROVE CtrlOf(m)'
    <3>1. m \in Modules \ (missed \cup {job.pos}) /\ m # occupied
      BY <1>0, <2>1, <2>3 DEF Modules
    <3>2. CtrlOf(m) /\ moduleNr'[m] = moduleNr[m]
      BY <1>0, <2>1, <2>2, <3>1
    <3> QED
      BY <2>1, <3>2, CtrlKept DEF CtrlOf
  <2> QED
    BY <1>0, <2>1, <2>2, <2>3
<1>2. CASE AddTx
  <2>1. job # Idle /\ UNCHANGED <<occupied, counted, moduleNr, main, lookMain, ctrl, missed>>
    BY <1>2, AddTxEffect
  <2>2. UNCHANGED half /\ job' = [job EXCEPT !.tx = @ + 1]
    BY <1>2, AddTxEffect DEF TxTaken, GiveUp
  <2>3. job' # Idle /\ job'.pos = job.pos
    BY <1>2, <2>2, AddTxEffect, SizesAssumption DEF Idle, Positions
  <2> QED
    BY <2>1, <2>2, <2>3 DEF CtrlInv, CtrlOf, Modules
<1>3. CASE AddRx
  <2>1. /\ job # Idle /\ job.pos \in Positions
        /\ UNCHANGED <<occupied, counted, moduleNr, ctrl, missed>>
    BY <1>3, AddRxEffect
  <2>2. UNCHANGED half /\ job' = [job EXCEPT !.rx = @ + 1]
    BY <1>3, AddRxEffect DEF RxHeard, GiveUp
  <2>3. job' # Idle /\ job'.pos = job.pos
    BY <1>3, <2>2, AddRxEffect, SizesAssumption DEF Idle, Positions
  <2>4. PICK o : RxTaken(o)
    BY <1>3, AddRxEffect DEF GiveUp
  <2>5. /\ o \notin DOMAIN main /\ DOMAIN main \subseteq DOMAIN main'
        /\ \A p \in DOMAIN main : main'[p] = main[p]
        /\ DOMAIN lookMain' = DOMAIN lookMain \cup {o}
    BY <2>4 DEF RxTaken, With
  <2>6. ASSUME NEW m \in Modules' \ (missed \cup {job.pos})' PROVE CtrlOf(m)'
    <3>1. CtrlOf(m) /\ ctrl[m] \in DOMAIN main
      BY <2>1, <2>2, <2>3, <2>6 DEF CtrlInv, CtrlOf, Modules
    <3> QED
      BY <2>1, <2>5, <3>1, CtrlKept
  <2> QED
    BY <2>1, <2>2, <2>3, <2>6 DEF CtrlInv
<1>4. CASE AddControl
  <2>1. /\ job # Idle /\ job.pos \in Positions /\ job' = Idle /\ counted' = counted + 1
        /\ UNCHANGED <<occupied, moduleNr, lookMain, half>>
    BY <1>4, AddControlEffect
  <2>2. job.pos = occupied - 1
    BY <2>1 DEF OInv, LastAdded
  <2>3. counted = occupied - 1 /\ \A m \in Modules \ (missed \cup {job.pos}) : CtrlOf(m)
    BY <2>1 DEF CtrlInv
  <2>4. Modules' = Modules
    BY <2>1 DEF Modules
  <2>5. CASE missed' = missed \cup {job.pos} /\ UNCHANGED <<main, ctrl>>
    BY <1>0, <2>1, <2>3, <2>4, <2>5 DEF CtrlOf
  <2>6. ASSUME NEW o \in (0 .. MAIN_SIZE - 1) \ DOMAIN main, NEW nrs, UNCHANGED missed,
               ctrl' = [ctrl EXCEPT ![counted] = o],
               IsListening(main', main, o, moduleNr[job.pos], nrs)
        PROVE  \A m \in Modules' \ (missed \cup {job.pos})' : CtrlOf(m)'
    <3> SUFFICES ASSUME NEW m \in Modules' \ (missed \cup {job.pos})' PROVE CtrlOf(m)'
      OBVIOUS
    <3>0. o \notin Fixed /\ o \notin DOMAIN lookMain /\ {SYS, SYS2, ASYNC} \subseteq Fixed
      BY <2>6 DEF OInv, Placed, Fixed
    <3>1. CASE m = job.pos
      <4>1. ctrl'[m] = o
        BY <1>0, <2>1, <2>2, <2>3, <2>6, <3>1
      <4>2. o \in DOMAIN main' /\ main'[o] = {<<"control", moduleNr[m], 0>>}
        BY <2>6, <3>1 DEF IsListening
      <4> QED
        BY <2>1, <3>0, <4>1, <4>2 DEF CtrlOf
    <3>2. CASE m # job.pos
      <4>1. CtrlOf(m) /\ ctrl'[m] = ctrl[m]
        BY <1>0, <2>2, <2>3, <2>4, <2>6, <3>2
      <4>2. ctrl[m] \in DOMAIN main \ {o, ASYNC, SYS, SYS2}
        BY <2>6, <3>0, <4>1 DEF CtrlOf
      <4>3. ctrl[m] \in DOMAIN main' /\ main'[ctrl[m]] = main[ctrl[m]]
        BY <2>6, <4>2 DEF IsListening
      <4> QED
        BY <2>1, <4>1, <4>3, CtrlKept
    <3> QED
      BY <3>1, <3>2
  <2>7. \A m \in Modules' \ (missed \cup {job.pos})' : CtrlOf(m)'
    BY <1>4, <2>5, <2>6, AddControlEffect
  <2> QED
    BY <1>0, <2>1, <2>3, <2>7
<1>5. ASSUME NEW m \in Modules, NEW n \in Numbers, NEW v \in Votes, ChangeModuleNr(m, n, v)
      PROVE  /\ counted' = IF job' = Idle THEN occupied' ELSE occupied' - 1
             /\ \A k \in Modules' \ (missed \cup {job.pos})' : CtrlOf(k)'
  <2>1. /\ m \in Positions /\ type[m].rx \in 0 .. OBJS
        /\ moduleNr' = [moduleNr EXCEPT ![m] = n]
        /\ UNCHANGED <<occupied, counted, lookMain, job, half>>
    BY <1>5, NumberEffect
  <2>2. PICK data :
          /\ IsRedefined(data, main, rxMain[m], type[m].rx, "rx", n)
          /\ \/ /\ main' = data
                /\ missed' = missed \cup {m} /\ UNCHANGED ctrl
             \/ /\ missed' = missed \ {m}
                /\ \E o \in (0 .. MAIN_SIZE - 1) \ DOMAIN data :
                     /\ ctrl' = [ctrl EXCEPT ![m] = o]
                     /\ IsListening(main', data, o, n, Renumbered(m, n))
    BY <1>5, NumberEffect
  <2>3. /\ counted = IF job = Idle THEN occupied ELSE occupied - 1
        /\ \A k \in Modules \ (missed \cup {job.pos}) : CtrlOf(k)
    BY <2>1 DEF CtrlInv
  <2>4. Modules' = Modules
    BY <2>1 DEF Modules
  <2>5. DOMAIN main \subseteq DOMAIN data
    BY <2>2 DEF IsRedefined
  <2>6. ASSUME NEW k \in Modules \ (missed \cup {job.pos}), k # m
        PROVE  /\ CtrlOf(k) /\ moduleNr'[k] = moduleNr[k]
               /\ ctrl[k] \in DOMAIN data \ Fixed /\ data[ctrl[k]] = main[ctrl[k]]
    <3>1. CtrlOf(k) /\ moduleNr'[k] = moduleNr[k]
      BY <1>0, <2>1, <2>3, <2>6
    <3>2. ctrl[k] \in DOMAIN main /\ ctrl[k] \notin DOMAIN lookMain \cup {PROCESS}
          /\ ctrl[k] \notin Fixed
      BY <3>1 DEF CtrlOf, Fixed
    <3>3. IsRedefined(data, main, rxMain[m], type[m].rx, "rx", n)
      BY <2>2
    <3>4. data[ctrl[k]] = main[ctrl[k]]
      BY <2>1, <3>2, <3>3, RedefinedApart
    <3> QED
      BY <2>5, <3>1, <3>2, <3>4
  <2>7. CASE main' = data /\ missed' = missed \cup {m} /\ UNCHANGED ctrl
    <3> SUFFICES ASSUME NEW k \in Modules' \ (missed \cup {job.pos})' PROVE CtrlOf(k)'
      BY <2>1, <2>3
    <3>1. k \in Modules \ (missed \cup {job.pos}) /\ k # m
      BY <2>1, <2>4, <2>7
    <3> QED
      BY <2>1, <2>6, <2>7, <3>1, CtrlKept
  <2>8. ASSUME NEW o \in (0 .. MAIN_SIZE - 1) \ DOMAIN data, missed' = missed \ {m},
               ctrl' = [ctrl EXCEPT ![m] = o],
               IsListening(main', data, o, n, Renumbered(m, n))
        PROVE  \A k \in Modules' \ (missed \cup {job.pos})' : CtrlOf(k)'
    <3> SUFFICES ASSUME NEW k \in Modules' \ (missed \cup {job.pos})' PROVE CtrlOf(k)'
      OBVIOUS
    <3>0. o \notin Fixed /\ o \notin DOMAIN lookMain /\ {SYS, SYS2, ASYNC} \subseteq Fixed
      BY <2>5, <2>8 DEF OInv, Placed, Fixed
    <3>1. CASE k = m
      <4>1. ctrl'[k] = o /\ moduleNr'[k] = n
        BY <1>0, <2>1, <2>8, <3>1
      <4>2. o \in DOMAIN main' /\ main'[o] = {<<"control", n, 0>>}
        BY <2>8 DEF IsListening
      <4> QED
        BY <2>1, <3>0, <4>1, <4>2 DEF CtrlOf
    <3>2. CASE k # m
      <4>1. k \in Modules \ (missed \cup {job.pos}) /\ ctrl'[k] = ctrl[k]
        BY <1>0, <2>1, <2>4, <2>8, <3>2
      <4>2. /\ CtrlOf(k) /\ moduleNr'[k] = moduleNr[k]
            /\ ctrl[k] \in DOMAIN data \ Fixed /\ data[ctrl[k]] = main[ctrl[k]]
        BY <2>6, <3>2, <4>1
      <4>3. ctrl[k] \in DOMAIN data \ {o, ASYNC, SYS, SYS2}
        BY <2>5, <2>8, <3>0, <4>2 DEF CtrlOf
      <4>4. ctrl[k] \in DOMAIN main' /\ main'[ctrl[k]] = main[ctrl[k]]
        BY <2>8, <4>2, <4>3 DEF IsListening
      <4> QED
        BY <2>1, <4>1, <4>2, <4>4, CtrlKept
    <3> QED
      BY <3>1, <3>2
  <2> QED
    BY <2>1, <2>2, <2>3, <2>7, <2>8
<1>6. CASE Start \/ Type \/ Switch \/ UNCHANGED vars
  <2>1. UNCHANGED <<Bookkeeping, counted>>
    BY <1>6, QuietStep DEF Type, Switch, States
  <2> QED
    BY <2>1 DEF Bookkeeping, CtrlInv, CtrlOf, Modules
<1> QED
  BY <1>1, <1>2, <1>3, <1>4, <1>5, <1>6 DEF Next, Add, Number

\* A number nobody was moved away from: whatever object takes its control
\* frames is in the dispatcher's list, for a module that has the number.  The
\* asynchronous object takes the broadcast number's, which no module has.
Listed(o, n) == \E k \in Modules \ {job.pos} : ctrl[k] = o /\ moduleNr[k] = n

AllListed == \A o \in DOMAIN main : \A n :
               <<"control", n, 0>> \in main[o] => n \in left \cup {BROADCAST} \/ Listed(o, n)

ListInv == half = {} => AllListed /\ \A m \in Positions : moduleNr[m] # BROADCAST

LEMMA InitList == Init => ListInv
<1> SUFFICES ASSUME Init PROVE ListInv
    OBVIOUS
<1>1. \A o \in DOMAIN main : main[o] \in {{Request}, {<<"system", BROADCAST, 0>>},
                                         {<<"control", BROADCAST, 0>>}, {}}
  BY DEF Init, PROCESS, SYS, SYS2, ASYNC, TX_SYNC
<1>2. AllListed
  BY <1>1 DEF AllListed, Request
<1> QED
  BY <1>2, NumbersAssumption DEF Init, ListInv, BROADCAST

\* No object takes further control frames, no listed one leaves the list.
LEMMA ListKept ==
  ASSUME AllListed, left \subseteq left',
         Modules \ {job.pos} \subseteq (Modules \ {job.pos})',
         \A k \in Modules \ {job.pos} : ctrl'[k] = ctrl[k] /\ moduleNr'[k] = moduleNr[k],
         \A o \in DOMAIN main' : \A n : <<"control", n, 0>> \in main'[o] =>
           o \in DOMAIN main /\ <<"control", n, 0>> \in main[o]
  PROVE  AllListed'
<1> SUFFICES ASSUME NEW o \in DOMAIN main', NEW n, <<"control", n, 0>> \in main'[o],
                    n \notin left' \cup {BROADCAST}
             PROVE  \E k \in (Modules \ {job.pos})' : ctrl'[k] = o /\ moduleNr'[k] = n
  BY DEF AllListed, Listed, BROADCAST
<1>1. Listed(o, n)
  BY DEF AllListed
<1> QED
  BY <1>1 DEF Listed

\* A further control object for a module, after the data objects were defined
\* again; it is entered at the module's position.
LEMMA ListGrown ==
  ASSUME AllListed, left \subseteq left', NEW m \in (Modules \ {job.pos})',
         NEW data, NEW o, NEW nrs, IsListening(main', data, o, moduleNr'[m], nrs),
         ctrl'[m] = o, Modules \ {job.pos} \subseteq (Modules \ {job.pos})',
         \A k \in (Modules \ {job.pos}) \ {m} :
           ctrl'[k] = ctrl[k] /\ moduleNr'[k] = moduleNr[k],
         m \in Modules \ {job.pos} => moduleNr[m] \in left',
         \A p \in DOMAIN data : \A n : <<"control", n, 0>> \in data[p] =>
           p \in DOMAIN main /\ <<"control", n, 0>> \in main[p]
  PROVE  AllListed'
<1> SUFFICES ASSUME NEW p \in DOMAIN main', NEW n, <<"control", n, 0>> \in main'[p],
                    n \notin left' \cup {BROADCAST}
             PROVE  \E k \in (Modules \ {job.pos})' : ctrl'[k] = p /\ moduleNr'[k] = n
  BY DEF AllListed, Listed, BROADCAST
<1>1. p = o \/ p \in DOMAIN data \ {o, ASYNC, SYS, SYS2}
  BY DEF IsListening
<1>2. CASE p = o
  <2>1. n = moduleNr'[m]
    BY <1>2 DEF IsListening
  <2> QED
    BY <1>2, <2>1
<1>3. CASE p \in DOMAIN data \ {o, ASYNC, SYS, SYS2}
  <2>1. p \in DOMAIN main /\ <<"control", n, 0>> \in main[p]
    BY <1>3 DEF IsListening
  <2>2. PICK k \in Modules \ {job.pos} : ctrl[k] = p /\ moduleNr[k] = n
    BY <2>1 DEF AllListed, Listed
  <2>3. k # m
    BY <2>2
  <2> QED
    BY <2>2, <2>3
<1> QED
  BY <1>1, <1>2, <1>3

LEMMA ListStep == ASSUME OInv, CtrlInv, ListInv, [Next]_vars PROVE ListInv'
<1> SUFFICES ASSUME half' = {}
             PROVE  AllListed' /\ \A m \in Positions : moduleNr'[m] # BROADCAST
  BY DEF ListInv, BROADCAST, Positions
<1>0. /\ DOMAIN moduleNr = Positions /\ DOMAIN ctrl = Positions /\ Modules \subseteq Positions
      /\ occupied \in Nat /\ Idle.pos = -1 /\ -1 \notin Modules
  BY Typed, SizesAssumption DEF OInv, Kinds, IInv, Shapes, Idle, Modules
<1>1. ASSUME NEW n \in Numbers, NEW t \in Types, AddModule(n, t)
      PROVE  AllListed' /\ \A m \in Positions : moduleNr'[m] # BROADCAST
  <2>1. /\ job = Idle /\ job'.pos = occupied
        /\ occupied' = occupied + 1
        /\ moduleNr' = [moduleNr EXCEPT ![occupied] = Declared(occupied, n)]
        /\ UNCHANGED <<main, ctrl, half, left>>
    BY <1>0, <1>1 DEF AddModule, nodes, hist
  <2>2. AllListed /\ \A m \in Positions : moduleNr[m] # BROADCAST
    BY <2>1 DEF ListInv
  <2>3. Declared(occupied, n) # BROADCAST
    BY <1>0, NumbersAssumption DEF Declared, BROADCAST
  <2>4. Modules \ {job.pos} \subseteq (Modules \ {job.pos})' /\ occupied \notin Modules
    BY <1>0, <2>1 DEF Modules
  <2>5. AllListed'
    BY <1>0, <2>1, <2>2, <2>4, ListKept
  <2> QED
    BY <1>0, <2>1, <2>2, <2>3, <2>5
<1>2. CASE AddTx
  <2>1. UNCHANGED <<occupied, moduleNr, main, ctrl, left>>
    BY <1>2, AddTxEffect
  <2>2. UNCHANGED half /\ job' = [job EXCEPT !.tx = @ + 1]
    BY <1>2, AddTxEffect DEF TxTaken, GiveUp
  <2>3. job'.pos = job.pos
    BY <1>2, <2>2, AddTxEffect
  <2> QED
    BY <2>1, <2>2, <2>3, ListKept DEF ListInv, Modules
<1>3. CASE AddRx
  <2>1. UNCHANGED <<occupied, moduleNr, ctrl, left>>
    BY <1>3, AddRxEffect
  <2>2. UNCHANGED half /\ job' = [job EXCEPT !.rx = @ + 1]
    BY <1>3, AddRxEffect DEF RxHeard, GiveUp
  <2>3. job'.pos = job.pos
    BY <1>3, <2>2, AddRxEffect
  <2>4. PICK o : RxTaken(o)
    BY <1>3, AddRxEffect DEF GiveUp
  <2>5. \A p \in DOMAIN main' : \A n : <<"control", n, 0>> \in main'[p] =>
          p \in DOMAIN main /\ <<"control", n, 0>> \in main[p]
    BY <2>4 DEF RxTaken, With
  <2> QED
    BY <2>1, <2>2, <2>3, <2>5, ListKept DEF ListInv, Modules
<1>4. CASE AddControl
  <2>1. /\ job # Idle /\ job.pos \in Modules /\ job' = Idle
        /\ UNCHANGED <<occupied, moduleNr, half, left>>
    BY <1>4, AddControlEffect
  <2>2. job.pos = occupied - 1 /\ counted = occupied - 1
    BY <2>1 DEF OInv, LastAdded, CtrlInv
  <2>3. AllListed /\ \A m \in Positions : moduleNr[m] # BROADCAST
    BY <2>1 DEF ListInv
  <2>4. (Modules \ {job.pos})' = Modules
    BY <1>0, <2>1 DEF Modules
  <2>5. CASE UNCHANGED <<main, ctrl>>
    BY <2>1, <2>3, <2>4, <2>5, ListKept
  <2>6. ASSUME NEW o \in (0 .. MAIN_SIZE - 1) \ DOMAIN main, NEW nrs,
               ctrl' = [ctrl EXCEPT ![counted] = o],
               IsListening(main', main, o, moduleNr[job.pos], nrs)
        PROVE  AllListed'
    <3>1. PICK m \in Modules : m = job.pos
      BY <2>1
    <3>2. ctrl'[m] = o /\ \A k \in Modules \ {m} : ctrl'[k] = ctrl[k]
      BY <1>0, <2>2, <2>6, <3>1
    <3>3. m \in (Modules \ {job.pos})' /\ m \notin Modules \ {job.pos}
      BY <2>4, <3>1
    <3>4. IsListening(main', main, o, moduleNr'[m], nrs)
      BY <2>1, <2>6, <3>1
    <3>5. Modules \ {job.pos} \subseteq (Modules \ {job.pos})' /\ left \subseteq left'
      BY <2>1, <2>4
    <3>6. \A k \in (Modules \ {job.pos}) \ {m} :
            ctrl'[k] = ctrl[k] /\ moduleNr'[k] = moduleNr[k]
      BY <2>1, <3>2
    <3> QED
      BY <2>3, <3>2, <3>3, <3>4, <3>5, <3>6, ListGrown
  <2>7. AllListed'
    BY <1>4, <2>5, <2>6, AddControlEffect
  <2> QED
    BY <2>1, <2>3, <2>7
<1>5. ASSUME NEW m \in Modules, NEW n \in Numbers, NEW v \in Votes, ChangeModuleNr(m, n, v)
      PROVE  AllListed' /\ \A k \in Positions : moduleNr'[k] # BROADCAST
  <2>1. /\ started /\ m \in Positions /\ type[m].rx \in 0 .. OBJS
        /\ moduleNr' = [moduleNr EXCEPT ![m] = n]
        /\ left' = left \cup {moduleNr[m]}
        /\ UNCHANGED <<occupied, job, half>>
    BY <1>5, NumberEffect
  <2>2. PICK data :
          /\ IsRedefined(data, main, rxMain[m], type[m].rx, "rx", n)
          /\ \/ main' = data /\ UNCHANGED ctrl
             \/ \E o \in (0 .. MAIN_SIZE - 1) \ DOMAIN data :
                  /\ ctrl' = [ctrl EXCEPT ![m] = o]
                  /\ IsListening(main', data, o, n, Renumbered(m, n))
    BY <1>5, NumberEffect
  <2>3. AllListed /\ \A k \in Positions : moduleNr[k] # BROADCAST
    BY <2>1 DEF ListInv
  <2>4. job = Idle /\ (Modules \ {job.pos})' = Modules /\ Modules \ {job.pos} = Modules
    BY <1>0, <2>1 DEF Modules, OInv, IInv, Adding
  <2>5. \A p \in DOMAIN data : \A k : <<"control", k, 0>> \in data[p] =>
          p \in DOMAIN main /\ <<"control", k, 0>> \in main[p]
    BY <2>2 DEF IsRedefined
  <2>6. moduleNr'[m] = n /\ \A k \in Modules \ {m} : moduleNr'[k] = moduleNr[k]
    BY <1>0, <2>1
  <2>7. ASSUME main' = data, UNCHANGED ctrl PROVE AllListed'
    <3> SUFFICES ASSUME NEW p \in DOMAIN main', NEW k, <<"control", k, 0>> \in main'[p],
                        k \notin left' \cup {BROADCAST}
                 PROVE  \E h \in (Modules \ {job.pos})' : ctrl'[h] = p /\ moduleNr'[h] = k
      BY DEF AllListed, Listed, BROADCAST
    <3>1. PICK h \in Modules : ctrl[h] = p /\ moduleNr[h] = k
      BY <2>1, <2>3, <2>5, <2>7 DEF AllListed, Listed
    <3>2. h # m
      BY <2>1, <3>1
    <3> QED
      BY <2>4, <2>6, <2>7, <3>1, <3>2
  <2>8. ASSUME NEW o, ctrl' = [ctrl EXCEPT ![m] = o],
               IsListening(main', data, o, n, Renumbered(m, n))
        PROVE  AllListed'
    <3>1. ctrl'[m] = o /\ \A k \in Modules \ {m} : ctrl'[k] = ctrl[k]
      BY <1>0, <2>1, <2>8
    <3>2. IsListening(main', data, o, moduleNr'[m], Renumbered(m, n))
      BY <2>6, <2>8
    <3> HIDE DEF Renumbered
    <3> QED
      BY <2>1, <2>3, <2>4, <2>5, <2>6, <3>1, <3>2, ListGrown
  <2>9. AllListed'
    BY <2>2, <2>7, <2>8
  <2>10. n # BROADCAST
    BY NumbersAssumption DEF BROADCAST
  <2> QED
    BY <1>0, <2>1, <2>3, <2>9, <2>10
<1>6. CASE Start \/ Type \/ Switch \/ UNCHANGED vars
  <2>1. UNCHANGED <<Bookkeeping, left>>
    BY <1>6, QuietStep DEF Type, Switch, States
  <2> QED
    BY <2>1 DEF Bookkeeping, ListInv, AllListed, Listed, Modules
<1> QED
  BY <1>1, <1>2, <1>3, <1>4, <1>5, <1>6 DEF Next, Add, Number

\* The object a controller gives the control frames of a module to, the first
\* that takes them, is in the dispatcher's list, whatever objects other numbers
\* have left behind: as long as no module was moved away from the number, no
\* adding failed and the module's own last change found an object.
THEOREM ControlObjectKnown == Spec => []ControlReached
<1>1. OInv /\ CtrlInv /\ ListInv => ControlReached
  <2> SUFFICES ASSUME OInv, CtrlInv, ListInv, job = Idle, half = {},
                      NEW m \in Modules \ missed, moduleNr[m] \notin left
               PROVE  Dispatched(moduleNr[m])
    BY DEF ControlReached
  <2> DEFINE n      == moduleNr[m]
             takers == Takers(main, <<"control", n, 0>>)
  <2>1. m \in Positions /\ m # job.pos
    BY Typed DEF Idle, Modules
  <2>2. ctrl[m] \in takers
    BY <2>1 DEF CtrlInv, CtrlOf, Takers
  <2>3. takers \subseteq Nat
    BY DEF OInv, Controllers, NodeType, Takers
  <2>4. PICK o \in takers : \A p \in takers : o <= p
    BY <2>2, <2>3, LeastNumber
  <2>5. Listed(o, n)
    BY <2>1, <2>4 DEF ListInv, AllListed, Takers
  <2>6. PICK k \in Positions : o = ctrl[k]
    BY <2>5, Typed DEF Listed
  <2> QED
    BY <2>4, <2>6 DEF Dispatched
<1>2. Init => CtrlInv /\ ListInv
  BY InitCtrl, InitList
<1>3. OInv /\ CtrlInv /\ ListInv /\ [Next]_vars => CtrlInv' /\ ListInv'
  BY CtrlStep, ListStep
<1> QED
  BY InitOInv, NextOInv, <1>1, <1>2, <1>3, PTL DEF Spec

-----------------------------------------------------------------------------
(***************************************************************************)
(* The routes of the data frames of one kind in one controller: the        *)
(* objects that are looked up take exactly the frame of the place that     *)
(* names them, the others none of the kind but of a half-added module.     *)
(* "done" says how many objects of a module have been given, "all" are the *)
(* modules, "part" those whose adding failed.                              *)
(***************************************************************************)
Routed(node, look, objs, kind, done, nr, all, part) ==
  /\ DOMAIN look \subseteq DOMAIN node
  /\ \A o \in DOMAIN look :
       /\ look[o] \in all
       /\ \E i \in 0 .. OBJS - 1 :
            /\ node[o] = {<<kind, nr[look[o]], i>>}
            /\ objs[look[o]][i] = o
            /\ look[o] \notin part => i < done[look[o]]
  /\ \A o \in DOMAIN node \ DOMAIN look : \A f \in node[o] :
       f[1] = kind => \E h \in part : f[2] = nr[h]
  /\ \A m \in all \ part : \A i \in 0 .. done[m] - 1 :
       /\ objs[m][i] \in DOMAIN look
       /\ look[objs[m][i]] = m
       /\ node[objs[m][i]] = {<<kind, nr[m], i>>}

\* The looked-up objects stay as they are, what becomes of the others is no
\* frame of the kind but of a half-added module.
Kept(new, node, look, kind, nr, part) ==
  /\ DOMAIN node \subseteq DOMAIN new
  /\ \A o \in DOMAIN look : new[o] = node[o]
  /\ \A o \in DOMAIN new \ DOMAIN look : \A f \in new[o] :
       f[1] = kind => \/ o \in DOMAIN node /\ f \in node[o]
                      \/ \E h \in part : f[2] = nr[h]

\* Modules may join, without objects, and become half-added ones.
Steady(done2, done, nr2, nr, all2, all, part2, part) ==
  /\ all \subseteq all2 /\ part \subseteq part2 /\ part \subseteq all
  /\ \A h \in all : nr2[h] = nr[h]
  /\ \A h \in all2 \ part2 : \/ h \in all /\ done2[h] = done[h]
                             \/ h \notin all /\ done2[h] = 0

LEMMA RoutesKept ==
  ASSUME NEW new, NEW node, NEW look, NEW objs, NEW kind, NEW done2, NEW done, NEW nr2,
         NEW nr, NEW all2, NEW all, NEW part2, NEW part,
         Routed(node, look, objs, kind, done, nr, all, part),
         Kept(new, node, look, kind, nr2, part2),
         Steady(done2, done, nr2, nr, all2, all, part2, part)
  PROVE  Routed(new, look, objs, kind, done2, nr2, all2, part2)
<1> USE DEF Routed, Kept, Steady
<1>1. DOMAIN look \subseteq DOMAIN new
  OBVIOUS
<1>2. ASSUME NEW o \in DOMAIN look
      PROVE  /\ look[o] \in all2
             /\ \E i \in 0 .. OBJS - 1 :
                  /\ new[o] = {<<kind, nr2[look[o]], i>>}
                  /\ objs[look[o]][i] = o
                  /\ look[o] \notin part2 => i < done2[look[o]]
  <2>1. look[o] \in all /\ new[o] = node[o] /\ nr2[look[o]] = nr[look[o]]
    OBVIOUS
  <2>2. look[o] \notin part2 => look[o] \notin part /\ done2[look[o]] = done[look[o]]
    BY <2>1
  <2> QED
    BY <2>1, <2>2
<1>3. ASSUME NEW o \in DOMAIN new \ DOMAIN look, NEW f \in new[o], f[1] = kind
      PROVE  \E h \in part2 : f[2] = nr2[h]
  BY <1>3
<1>4. ASSUME NEW m \in all2 \ part2, NEW i \in 0 .. done2[m] - 1
      PROVE  /\ objs[m][i] \in DOMAIN look
             /\ look[objs[m][i]] = m
             /\ new[objs[m][i]] = {<<kind, nr2[m], i>>}
  <2>1. m \in all \ part /\ done2[m] = done[m] /\ nr2[m] = nr[m]
    BY <1>4
  <2> QED
    BY <1>4, <2>1
<1> QED
  BY <1>1, <1>2, <1>3, <1>4

\* The next place of a module that is not half-added may be written.
LEMMA RoutesPlaced ==
  ASSUME NEW node, NEW look, NEW objs2, NEW objs, NEW kind, NEW m, NEW done, NEW nr,
         NEW all, NEW part, m \notin part,
         Routed(node, look, objs, kind, done, nr, all, part),
         \A h \in all, j \in 0 .. OBJS - 1 : h # m \/ j # done[m] => objs2[h][j] = objs[h][j],
         \A h \in all : done[h] \in 0 .. OBJS
  PROVE  Routed(node, look, objs2, kind, done, nr, all, part)
<1>1. ASSUME NEW o \in DOMAIN look
      PROVE  /\ look[o] \in all
             /\ \E i \in 0 .. OBJS - 1 :
                  /\ node[o] = {<<kind, nr[look[o]], i>>}
                  /\ objs2[look[o]][i] = o
                  /\ look[o] \notin part => i < done[look[o]]
  <2>1. PICK i \in 0 .. OBJS - 1 : /\ node[o] = {<<kind, nr[look[o]], i>>}
                                   /\ objs[look[o]][i] = o
                                   /\ look[o] \notin part => i < done[look[o]]
    BY DEF Routed
  <2>2. look[o] # m \/ i # done[m]
    BY <2>1
  <2>3. look[o] \in all /\ objs2[look[o]][i] = o
    BY <2>1, <2>2 DEF Routed
  <2> QED
    BY <2>1, <2>3
<1>2. ASSUME NEW h \in all \ part, NEW i \in 0 .. done[h] - 1
      PROVE  /\ objs2[h][i] \in DOMAIN look
             /\ look[objs2[h][i]] = h
             /\ node[objs2[h][i]] = {<<kind, nr[h], i>>}
  <2>1. i \in 0 .. OBJS - 1 /\ (h # m \/ i # done[m])
    BY <1>2, SizesAssumption
  <2>2. objs2[h][i] = objs[h][i]
    BY <1>2, <2>1
  <2> QED
    BY <1>2, <2>2 DEF Routed
<1> QED
  BY <1>1, <1>2 DEF Routed

\* A module that is not half-added gets the object o as its next one.
Given(new, node, look2, look, objs2, objs, kind, m, o, done2, done, nr, all, part2, part) ==
  /\ o \notin DOMAIN node /\ m \in all \ part /\ done[m] \in 0 .. OBJS - 1
  /\ new = With(node, o, {<<kind, nr[m], done[m]>>})
  /\ look2 = With(look, o, m)
  /\ objs2[m][done[m]] = o
  /\ \A h \in all, j \in 0 .. OBJS - 1 : h # m \/ j # done[m] => objs2[h][j] = objs[h][j]
  /\ part \subseteq part2 /\ \A h \in all : done[h] \in 0 .. OBJS
  /\ \A h \in all \ part2 : done2[h] = IF h = m THEN done[m] + 1 ELSE done[h]

LEMMA RouteGiven ==
  ASSUME NEW new, NEW node, NEW look2, NEW look, NEW objs2, NEW objs, NEW kind, NEW m, NEW o,
         NEW done2, NEW done, NEW nr, NEW all, NEW part2, NEW part, part2 \subseteq all,
         Routed(node, look, objs, kind, done, nr, all, part),
         Given(new, node, look2, look, objs2, objs, kind, m, o, done2, done, nr, all,
               part2, part)
  PROVE  Routed(new, look2, objs2, kind, done2, nr, all, part2)
<1>1. /\ o \notin DOMAIN node /\ o \notin DOMAIN look
      /\ m \in all \ part /\ done[m] \in 0 .. OBJS - 1
      /\ DOMAIN new = DOMAIN node \cup {o} /\ DOMAIN look2 = DOMAIN look \cup {o}
      /\ new[o] = {<<kind, nr[m], done[m]>>} /\ look2[o] = m
      /\ \A p \in DOMAIN node : new[p] = node[p]
      /\ \A p \in DOMAIN look : look2[p] = look[p]
  BY DEF Given, With, Routed
<1>2. /\ objs2[m][done[m]] = o
      /\ \A h \in all, j \in 0 .. OBJS - 1 : h # m \/ j # done[m] => objs2[h][j] = objs[h][j]
      /\ \A h \in all : done[h] \in 0 .. OBJS
      /\ part \subseteq part2
      /\ \A h \in all \ part2 : done2[h] = IF h = m THEN done[m] + 1 ELSE done[h]
  BY DEF Given
<1>3. DOMAIN look2 \subseteq DOMAIN new
  BY <1>1 DEF Routed
<1>4. ASSUME NEW p \in DOMAIN look2
      PROVE  /\ look2[p] \in all
             /\ \E i \in 0 .. OBJS - 1 :
                  /\ new[p] = {<<kind, nr[look2[p]], i>>}
                  /\ objs2[look2[p]][i] = p
                  /\ look2[p] \notin part2 => i < done2[look2[p]]
  <2>1. CASE p = o
    <3>1. m \notin part2 => done[m] < done2[m]
      BY <1>1, <1>2
    <3> QED
      BY <1>1, <1>2, <2>1, <3>1
  <2>2. CASE p # o
    <3>1. p \in DOMAIN look /\ look2[p] = look[p] /\ look[p] \in all /\ p \in DOMAIN node
          /\ new[p] = node[p]
      BY <1>1, <1>4, <2>2 DEF Routed
    <3>2. PICK i \in 0 .. OBJS - 1 : /\ node[p] = {<<kind, nr[look[p]], i>>}
                                     /\ objs[look[p]][i] = p
                                     /\ look[p] \notin part => i < done[look[p]]
      BY <3>1 DEF Routed
    <3>3. look[p] # m \/ i # done[m]
      BY <1>1, <3>2
    <3>4. objs2[look[p]][i] = p
      BY <1>2, <3>1, <3>2, <3>3
    <3>5. look[p] \notin part2 => i < done2[look[p]]
      BY <1>2, <3>1, <3>2, SizesAssumption
    <3> QED
      BY <3>1, <3>2, <3>4, <3>5
  <2> QED
    BY <2>1, <2>2
<1>5. ASSUME NEW p \in DOMAIN new \ DOMAIN look2, NEW f \in new[p], f[1] = kind
      PROVE  \E h \in part2 : f[2] = nr[h]
  <2>1. p \in DOMAIN node \ DOMAIN look /\ f \in node[p]
    BY <1>1, <1>5
  <2> QED
    BY <1>2, <1>5, <2>1 DEF Routed
<1>6. ASSUME NEW h \in all \ part2, NEW j \in 0 .. done2[h] - 1
      PROVE  /\ objs2[h][j] \in DOMAIN look2
             /\ look2[objs2[h][j]] = h
             /\ new[objs2[h][j]] = {<<kind, nr[h], j>>}
  <2>1. CASE h = m /\ j = done[m]
    BY <1>1, <1>2, <2>1
  <2>2. CASE ~ (h = m /\ j = done[m])
    <3>1. h \in all \ part /\ j \in 0 .. done[h] - 1 /\ j \in 0 .. OBJS - 1
      BY <1>1, <1>2, <1>6, <2>2, SizesAssumption
    <3>2. objs2[h][j] = objs[h][j]
      BY <1>2, <2>2, <3>1
    <3>3. /\ objs[h][j] \in DOMAIN look /\ objs[h][j] \in DOMAIN node
          /\ look[objs[h][j]] = h
          /\ node[objs[h][j]] = {<<kind, nr[h], j>>}
      BY <3>1 DEF Routed
    <3> QED
      BY <1>1, <3>2, <3>3
  <2> QED
    BY <2>1, <2>2
<1> QED
  BY <1>3, <1>4, <1>5, <1>6 DEF Routed

\* A module that is not half-added gets another number: all its objects are
\* defined again and no other one is.
LEMMA RoutesRenumbered ==
  ASSUME NEW new, NEW node, NEW look, NEW objs, NEW kind, NEW m, NEW n, NEW done, NEW nr2,
         NEW nr, NEW all, NEW part,
         Routed(node, look, objs, kind, done, nr, all, part),
         m \in all \ part, done[m] \in 0 .. OBJS, part \subseteq all,
         IsRedefined(new, node, objs[m], done[m], kind, n),
         \A h \in all : nr2[h] = IF h = m THEN n ELSE nr[h]
  PROVE  /\ Routed(new, look, objs, kind, done, nr2, all, part)
         /\ DOMAIN new = DOMAIN node
<1> DEFINE own == {objs[m][i] : i \in 0 .. done[m] - 1}
<1>1. /\ DOMAIN new = DOMAIN node \cup own
      /\ \A o \in DOMAIN new :
           \/ o \in DOMAIN node /\ new[o] = node[o] /\ o \notin own
           \/ \E i \in 0 .. done[m] - 1 : objs[m][i] = o /\ new[o] = {<<kind, n, i>>}
  BY DEF IsRedefined
<1>2. \A i \in 0 .. done[m] - 1 : /\ objs[m][i] \in DOMAIN look
                                  /\ look[objs[m][i]] = m
                                  /\ node[objs[m][i]] = {<<kind, nr[m], i>>}
  BY DEF Routed
<1>3. \A o \in own : o \in DOMAIN look /\ look[o] = m
  BY <1>2
<1>4. \A o \in DOMAIN look : look[o] = m => o \in own
  BY SizesAssumption DEF Routed
<1>5. DOMAIN new = DOMAIN node
  BY <1>1, <1>3 DEF Routed
<1>6. \A o \in DOMAIN node \ own : new[o] = node[o]
  BY <1>1
<1>7. \A i \in 0 .. done[m] - 1 : new[objs[m][i]] = {<<kind, n, i>>}
  <2> SUFFICES ASSUME NEW i \in 0 .. done[m] - 1 PROVE new[objs[m][i]] = {<<kind, n, i>>}
    OBVIOUS
  <2>1. objs[m][i] \in own
    OBVIOUS
  <2> HIDE DEF own
  <2>2. PICK j \in 0 .. done[m] - 1 : objs[m][j] = objs[m][i]
                                      /\ new[objs[m][i]] = {<<kind, n, j>>}
    BY <1>1, <2>1
  <2>3. {<<kind, nr[m], j>>} = {<<kind, nr[m], i>>}
    BY <1>2, <2>2
  <2>4. <<kind, nr[m], j>> = <<kind, nr[m], i>>
    <3> DEFINE a == <<kind, nr[m], j>>
               b == <<kind, nr[m], i>>
    <3>1. {a} = {b}
      BY <2>3
    <3> HIDE DEF a, b
    <3>2. a = b
      BY <3>1
    <3> QED
      BY <3>2 DEF a, b
  <2>5. j = i
    BY <2>4
  <2> QED
    BY <2>2, <2>5
<1>8. \A o \in own : \E i \in 0 .. OBJS - 1 : /\ new[o] = {<<kind, n, i>>}
                                              /\ objs[m][i] = o /\ i < done[m]
  BY <1>7, SizesAssumption
<1>9. DOMAIN look \subseteq DOMAIN new
  BY <1>5 DEF Routed
<1> HIDE DEF own
<1>10. ASSUME NEW o \in DOMAIN look
       PROVE  /\ look[o] \in all
              /\ \E i \in 0 .. OBJS - 1 :
                   /\ new[o] = {<<kind, nr2[look[o]], i>>}
                   /\ objs[look[o]][i] = o
                   /\ look[o] \notin part => i < done[look[o]]
  <2>1. look[o] \in all /\ o \in DOMAIN node
    BY DEF Routed
  <2>2. CASE o \in own
    BY <1>3, <1>8, <2>1, <2>2
  <2>3. CASE o \notin own
    BY <1>4, <1>6, <2>1, <2>3 DEF Routed
  <2> QED
    BY <2>2, <2>3
<1>11. ASSUME NEW o \in DOMAIN new \ DOMAIN look, NEW f \in new[o], f[1] = kind
       PROVE  \E h \in part : f[2] = nr2[h]
  <2>1. o \in DOMAIN node \ own /\ f \in node[o]
    BY <1>3, <1>5, <1>6, <1>11
  <2>2. PICK h \in part : f[2] = nr[h]
    BY <1>11, <2>1 DEF Routed
  <2>3. nr2[h] = nr[h]
    BY <2>2
  <2> QED
    BY <2>2, <2>3
<1>12. ASSUME NEW h \in all \ part, NEW i \in 0 .. done[h] - 1
       PROVE  /\ objs[h][i] \in DOMAIN look
              /\ look[objs[h][i]] = h
              /\ new[objs[h][i]] = {<<kind, nr2[h], i>>}
  <2>1. /\ objs[h][i] \in DOMAIN look /\ objs[h][i] \in DOMAIN node
        /\ look[objs[h][i]] = h
        /\ node[objs[h][i]] = {<<kind, nr[h], i>>}
    BY <1>12 DEF Routed
  <2>2. CASE h = m
    BY <1>7, <1>12, <2>1, <2>2
  <2>3. CASE h # m
    <3>1. objs[h][i] \notin own
      BY <1>3, <2>1, <2>3
    <3> QED
      BY <1>6, <2>1, <2>3, <3>1
  <2> QED
    BY <2>2, <2>3
<1> QED
  BY <1>5, <1>9, <1>10, <1>11, <1>12 DEF Routed

\* How many objects of each module have been given.
RxDone == [m \in Positions |-> IF m = job.pos THEN job.rx ELSE type[m].rx]
TxDone == [m \in Positions |-> IF m = job.pos THEN job.tx ELSE type[m].tx]

MainRx == Routed(main, lookMain, rxMain, "rx", RxDone, moduleNr, Modules, half)
MonRx  == Routed(mon, lookRx, rxMon, "rx", RxDone, moduleNr, Modules, half)
MonTx  == Routed(mon, lookTx, txMon, "tx", TxDone, moduleNr, Modules, half)

Routes == MainRx /\ MonRx /\ MonTx

RoutedInv == ~ strayed => Routes

LEMMA InitRoutes == Init => Routes
<1> SUFFICES ASSUME Init PROVE Routes
    OBVIOUS
<1>1. DOMAIN lookMain = {} /\ DOMAIN lookRx = {} /\ DOMAIN lookTx = {} /\ Modules = {}
  BY DEF Init, Modules
<1>2. \A o \in DOMAIN main, f \in Frames : f \in main[o] => f[1] \notin {"rx", "tx"}
  BY DEF Init, Request, PROCESS, SYS, SYS2, ASYNC, TX_SYNC
<1>3. \A o \in DOMAIN mon, f \in Frames : f \in mon[o] => f[1] \notin {"rx", "tx"}
  BY DEF Init, Request
<1>4. (\A o \in DOMAIN main : main[o] \subseteq Frames)
      /\ (\A o \in DOMAIN mon : mon[o] \subseteq Frames)
  BY InitOInv DEF OInv, Controllers, NodeType
<1>5. MainRx
  BY <1>1, <1>2, <1>4 DEF MainRx, Routed
<1>6. MonRx
  BY <1>1, <1>3, <1>4 DEF MonRx, Routed
<1>7. MonTx
  BY <1>1, <1>3, <1>4 DEF MonTx, Routed
<1> QED
  BY <1>5, <1>6, <1>7 DEF Routes

\* Nothing is given, nothing is defined: the numbers of the modules stay.
LEMMA DoneTyped ==
  ASSUME OInv
  PROVE  /\ \A m \in Modules : RxDone[m] \in 0 .. OBJS /\ TxDone[m] \in 0 .. OBJS
         /\ half \subseteq Modules /\ Modules \subseteq Positions
<1>1. ASSUME NEW m \in Positions PROVE RxDone[m] \in 0 .. OBJS /\ TxDone[m] \in 0 .. OBJS
  <2>1. m = job.pos => job # Idle
    BY DEF Idle, Positions
  <2>2. job # Idle => job.rx \in 0 .. OBJS /\ job.tx \in 0 .. OBJS
    BY DEF OInv, Kinds
  <2> QED
    BY <2>1, <2>2, Typed DEF RxDone, TxDone
<1> QED
  BY <1>1, Typed DEF OInv, Kinds

\* What stays when the nodes, the lookups and the objects do.
LEMMA AllKept ==
  ASSUME NEW node, NEW look, NEW kind, NEW nr, NEW part PROVE Kept(node, node, look, kind, nr, part)
BY DEF Kept

\* One object more that takes another kind of frames.
LEMMA OtherKept ==
  ASSUME NEW node, NEW look, NEW kind, NEW nr, NEW part, NEW o, o \notin DOMAIN node,
         DOMAIN look \subseteq DOMAIN node, NEW f, f[1] # kind \/ \E h \in part : f[2] = nr[h]
  PROVE  Kept(With(node, o, {f}), node, look, kind, nr, part)
<1> DEFINE new == With(node, o, {f})
<1>1. /\ DOMAIN new = DOMAIN node \cup {o} /\ new[o] = {f}
      /\ \A p \in DOMAIN node : new[p] = node[p]
  BY DEF With
<1> HIDE DEF new
<1>2. Kept(new, node, look, kind, nr, part)
  BY <1>1 DEF Kept
<1> QED
  BY <1>2 DEF new

LEMMA AddModuleRoutes ==
  ASSUME OInv, Routes, NEW n \in Numbers, NEW t \in Types, AddModule(n, t) PROVE Routes'
<1>1. /\ job.pos = -1 /\ job'.pos = occupied /\ job'.rx = 0 /\ job'.tx = 0
      /\ occupied' = occupied + 1 /\ occupied \in Nat /\ occupied \in Positions
      /\ moduleNr' = [moduleNr EXCEPT ![occupied] = Declared(occupied, n)]
      /\ type' = [type EXCEPT ![occupied] = t]
      /\ UNCHANGED <<main, mon, rxMain, rxMon, txMon, lookMain, lookRx, lookTx, half>>
  BY SizesAssumption
     DEF AddModule, nodes, objects, lookups, hist, Idle, OInv, IInv, Shapes, Positions
<1>2. Modules' = Modules \cup {occupied} /\ occupied \notin Modules /\ half \subseteq Modules
      /\ Modules \subseteq Positions
  BY <1>1, DoneTyped DEF Modules
<1>3. \A h \in Modules : moduleNr'[h] = moduleNr[h] /\ type'[h] = type[h]
  BY <1>1, <1>2 DEF OInv, Kinds, IInv, Shapes
<1>4. \A h \in Modules : RxDone'[h] = RxDone[h] /\ TxDone'[h] = TxDone[h]
  BY <1>1, <1>2, <1>3 DEF RxDone, TxDone, Positions
<1>5. RxDone'[occupied] = 0 /\ TxDone'[occupied] = 0
  BY <1>1 DEF RxDone, TxDone
<1>6. /\ Steady(RxDone', RxDone, moduleNr', moduleNr, Modules', Modules, half', half)
      /\ Steady(TxDone', TxDone, moduleNr', moduleNr, Modules', Modules, half', half)
  BY <1>1, <1>2, <1>3, <1>4, <1>5 DEF Steady
<1>7. /\ Kept(main', main, lookMain, "rx", moduleNr', half')
      /\ Kept(mon', mon, lookRx, "rx", moduleNr', half')
      /\ Kept(mon', mon, lookTx, "tx", moduleNr', half')
  BY <1>1, AllKept
<1> QED
  BY <1>1, <1>6, <1>7, RoutesKept DEF Routes, MainRx, MonRx, MonTx

\* What a step of adding objects does to the numbers of them.
LEMMA Counting ==
  ASSUME OInv, job # Idle, job.pos \in Modules,
         job \in [pos : Positions, tx : 0 .. OBJS, rx : 0 .. OBJS],
         UNCHANGED <<occupied, moduleNr, type>>
  PROVE  /\ job.pos \in Modules \ half /\ Modules' = Modules
         /\ RxDone[job.pos] = job.rx /\ TxDone[job.pos] = job.tx
         /\ GiveUp =>
              /\ half' = half \cup {job.pos} /\ half' \subseteq Modules
              /\ \A h \in Modules \ half' : RxDone'[h] = RxDone[h] /\ TxDone'[h] = TxDone[h]
         /\ job' = [job EXCEPT !.tx = @ + 1] =>
              /\ RxDone' = RxDone
              /\ \A h \in Modules :
                   TxDone'[h] = IF h = job.pos THEN job.tx + 1 ELSE TxDone[h]
         /\ job' = [job EXCEPT !.rx = @ + 1] =>
              /\ TxDone' = TxDone
              /\ \A h \in Modules :
                   RxDone'[h] = IF h = job.pos THEN job.rx + 1 ELSE RxDone[h]
<1>1. job.pos \in Modules \ half /\ Modules' = Modules /\ job.pos \in Positions
      /\ Modules \subseteq Positions /\ half \subseteq Modules
  BY DoneTyped DEF OInv, LastAdded, Modules
<1>2. RxDone[job.pos] = job.rx /\ TxDone[job.pos] = job.tx
  BY <1>1 DEF RxDone, TxDone
<1>3. ASSUME GiveUp
      PROVE  /\ half' = half \cup {job.pos} /\ half' \subseteq Modules
             /\ \A h \in Modules \ half' : RxDone'[h] = RxDone[h] /\ TxDone'[h] = TxDone[h]
  <2>1. half' = half \cup {job.pos} /\ job'.pos = -1
    BY <1>3 DEF GiveUp, Idle
  <2>2. \A h \in Modules \ half' : h # job.pos /\ h # job'.pos
    BY <2>1 DEF Modules
  <2> QED
    BY <1>1, <2>1, <2>2 DEF RxDone, TxDone, Positions
<1>4. ASSUME job' = [job EXCEPT !.tx = @ + 1]
      PROVE  /\ RxDone' = RxDone
             /\ \A h \in Modules : TxDone'[h] = IF h = job.pos THEN job.tx + 1 ELSE TxDone[h]
  <2>1. job'.pos = job.pos /\ job'.rx = job.rx /\ job'.tx = job.tx + 1
    BY <1>4
  <2> QED
    BY <1>1, <2>1 DEF RxDone, TxDone, Positions
<1>5. ASSUME job' = [job EXCEPT !.rx = @ + 1]
      PROVE  /\ TxDone' = TxDone
             /\ \A h \in Modules : RxDone'[h] = IF h = job.pos THEN job.rx + 1 ELSE RxDone[h]
  <2>1. job'.pos = job.pos /\ job'.tx = job.tx /\ job'.rx = job.rx + 1
    BY <1>5
  <2> QED
    BY <1>1, <2>1 DEF RxDone, TxDone, Positions
<1> QED
  BY <1>1, <1>2, <1>3, <1>4, <1>5

\* A transmit object is given, or heard by an object nobody is looked up for,
\* or by none.
LEMMA AddTxRoutes == ASSUME OInv, Routes, AddTx PROVE Routes'
<1> DEFINE m == job.pos
           i == job.tx
<1>1. /\ job # Idle /\ m \in Modules /\ m \in Positions
      /\ job \in [pos : Positions, tx : 0 .. OBJS, rx : 0 .. OBJS]
      /\ i \in 0 .. OBJS - 1
      /\ UNCHANGED <<occupied, moduleNr, type, main, rxMain, rxMon, lookMain, lookRx>>
  BY AddTxEffect, Typed, SizesAssumption
<1>2. /\ m \in Modules \ half /\ Modules' = Modules
      /\ TxDone[m] = i
      /\ GiveUp =>
           /\ half' = half \cup {m} /\ half' \subseteq Modules
           /\ \A h \in Modules \ half' : RxDone'[h] = RxDone[h] /\ TxDone'[h] = TxDone[h]
      /\ job' = [job EXCEPT !.tx = @ + 1] =>
           /\ RxDone' = RxDone
           /\ \A h \in Modules : TxDone'[h] = IF h = m THEN i + 1 ELSE TxDone[h]
  BY <1>1, Counting
<1>3. (\A h \in Modules : TxDone[h] \in 0 .. OBJS) /\ half \subseteq Modules
      /\ DOMAIN lookRx \subseteq DOMAIN mon /\ DOMAIN lookTx \subseteq DOMAIN mon
  BY DoneTyped DEF OInv, Controllers
<1>4. GiveUp =>
        /\ Steady(RxDone', RxDone, moduleNr', moduleNr, Modules', Modules, half', half)
        /\ Steady(TxDone', TxDone, moduleNr', moduleNr, Modules', Modules, half', half)
  BY <1>1, <1>2, <1>3 DEF Steady
<1>5. UNCHANGED half /\ job' = [job EXCEPT !.tx = @ + 1] =>
        Steady(RxDone', RxDone, moduleNr', moduleNr, Modules', Modules, half', half)
  BY <1>1, <1>2, <1>3 DEF Steady
<1> HIDE DEF m, i
<1>6. MainRx'
  <2>1. Steady(RxDone', RxDone, moduleNr', moduleNr, Modules', Modules, half', half)
    BY <1>4, <1>5, AddTxEffect DEF TxTaken
  <2>2. Kept(main', main, lookMain, "rx", moduleNr', half')
    BY <1>1, AllKept
  <2> QED
    BY <1>1, <2>1, <2>2, RoutesKept DEF Routes, MainRx
<1>7. CASE GiveUp /\ UNCHANGED <<mon, txMon, lookTx>>
  <2>1. /\ Kept(mon', mon, lookRx, "rx", moduleNr', half')
        /\ Kept(mon', mon, lookTx, "tx", moduleNr', half')
    BY <1>7, AllKept
  <2> QED
    BY <1>1, <1>4, <1>6, <1>7, <2>1, RoutesKept DEF Routes, MonRx, MonTx
<1>8. ASSUME NEW o, TxTaken(o) PROVE Routes'
  <2> DEFINE f == <<"tx", moduleNr[m], i>>
  <2>1. /\ o \notin DOMAIN mon /\ mon' = With(mon, o, {f})
        /\ txMon' = [txMon EXCEPT ![m][i] = o]
        /\ \/ GiveUp /\ UNCHANGED lookTx
           \/ /\ lookTx' = With(lookTx, o, m)
              /\ job' = [job EXCEPT !.tx = @ + 1] /\ UNCHANGED half
    BY <1>8 DEF TxTaken, m, i
  <2>2. f[1] # "rx" /\ f[2] = moduleNr[m]
    OBVIOUS
  <2> HIDE DEF f
  <2>3. Kept(mon', mon, lookRx, "rx", moduleNr', half')
    BY <1>3, <2>1, <2>2, OtherKept
  <2>4. MonRx'
    <3>1. Steady(RxDone', RxDone, moduleNr', moduleNr, Modules', Modules, half', half)
      BY <1>4, <1>5, <2>1
    <3> QED
      BY <1>1, <2>3, <3>1, RoutesKept DEF Routes, MonRx
  <2>5. /\ txMon'[m][i] = o
        /\ \A h \in Modules, j \in 0 .. OBJS - 1 : h # m \/ j # i => txMon'[h][j] = txMon[h][j]
    <3>1. ObjType(txMon, MON_SIZE) /\ m \in Positions /\ i \in 0 .. OBJS - 1
      BY <1>1 DEF OInv, Controllers, m, i
    <3>2. /\ txMon'[m][i] = o
          /\ \A h \in Positions, j \in 0 .. OBJS - 1 :
               h # m \/ j # i => txMon'[h][j] = txMon[h][j]
      <4>1. IsPlaced([txMon EXCEPT ![m][i] = o], txMon, m, i, o)
        BY <3>1, NewPlace
      <4> QED
        BY <2>1, <4>1 DEF IsPlaced
    <3> QED
      BY <3>2, Typed
  <2>6. CASE GiveUp /\ UNCHANGED lookTx
    <3>1. m \in half' /\ f[2] = moduleNr'[m]
      BY <1>1, <1>2, <2>2, <2>6
    <3>2. Kept(mon', mon, lookTx, "tx", moduleNr', half')
      BY <1>3, <2>1, <3>1, OtherKept
    <3>3. Routed(mon, lookTx, txMon', "tx", TxDone, moduleNr, Modules, half)
      BY <1>2, <1>3, <2>5, RoutesPlaced DEF Routes, MonTx
    <3>4. MonTx'
      BY <1>4, <2>6, <3>2, <3>3, RoutesKept DEF MonTx
    <3> QED
      BY <1>6, <2>4, <3>4 DEF Routes
  <2>7. CASE /\ lookTx' = With(lookTx, o, m)
             /\ job' = [job EXCEPT !.tx = @ + 1] /\ UNCHANGED half
    <3>1. Given(mon', mon, lookTx', lookTx, txMon', txMon, "tx", m, o, TxDone', TxDone,
                moduleNr, Modules, half', half)
      <4>1. mon' = With(mon, o, {<<"tx", moduleNr[m], TxDone[m]>>})
        BY <1>2, <2>1 DEF f
      <4>2. \A h \in Modules \ half' : TxDone'[h] = IF h = m THEN TxDone[m] + 1 ELSE TxDone[h]
        BY <1>2, <2>7
      <4> QED
        BY <1>1, <1>2, <1>3, <2>1, <2>5, <2>7, <4>1, <4>2 DEF Given, i
    <3>2. Routed(mon', lookTx', txMon', "tx", TxDone', moduleNr, Modules, half')
      BY <1>3, <2>7, <3>1, RouteGiven DEF Routes, MonTx
    <3>3. MonTx'
      BY <1>1, <1>2, <3>2 DEF MonTx
    <3> QED
      BY <1>6, <2>4, <3>3 DEF Routes
  <2> QED
    BY <2>1, <2>6, <2>7
<1> QED
  BY <1>7, <1>8, AddTxEffect

\* A receive object is given in the main controller, and heard in the other
\* one or not; or none is given.
LEMMA AddRxRoutes == ASSUME OInv, Routes, AddRx PROVE Routes'
<1> DEFINE m == job.pos
           i == job.rx
<1>1. /\ job # Idle /\ m \in Modules /\ m \in Positions
      /\ job \in [pos : Positions, tx : 0 .. OBJS, rx : 0 .. OBJS]
      /\ i \in 0 .. OBJS - 1
      /\ UNCHANGED <<occupied, moduleNr, type, txMon, lookTx>>
  BY AddRxEffect, Typed, SizesAssumption
<1>2. /\ m \in Modules \ half /\ Modules' = Modules
      /\ RxDone[m] = i
      /\ GiveUp =>
           /\ half' = half \cup {m} /\ half' \subseteq Modules
           /\ \A h \in Modules \ half' : RxDone'[h] = RxDone[h] /\ TxDone'[h] = TxDone[h]
      /\ job' = [job EXCEPT !.rx = @ + 1] =>
           /\ TxDone' = TxDone
           /\ \A h \in Modules : RxDone'[h] = IF h = m THEN i + 1 ELSE RxDone[h]
  BY <1>1, Counting
<1>3. (\A h \in Modules : RxDone[h] \in 0 .. OBJS) /\ half \subseteq Modules
      /\ DOMAIN lookRx \subseteq DOMAIN mon /\ DOMAIN lookTx \subseteq DOMAIN mon
  BY DoneTyped DEF OInv, Controllers
<1>4. GiveUp =>
        /\ Steady(RxDone', RxDone, moduleNr', moduleNr, Modules', Modules, half', half)
        /\ Steady(TxDone', TxDone, moduleNr', moduleNr, Modules', Modules, half', half)
  BY <1>1, <1>2, <1>3 DEF Steady
<1>5. UNCHANGED half /\ job' = [job EXCEPT !.rx = @ + 1] =>
        Steady(TxDone', TxDone, moduleNr', moduleNr, Modules', Modules, half', half)
  BY <1>1, <1>2, <1>3 DEF Steady
<1> HIDE DEF m, i
<1>6. CASE GiveUp /\ UNCHANGED <<main, mon, rxMain, rxMon, lookMain, lookRx>>
  <2>1. /\ Kept(main', main, lookMain, "rx", moduleNr', half')
        /\ Kept(mon', mon, lookRx, "rx", moduleNr', half')
        /\ Kept(mon', mon, lookTx, "tx", moduleNr', half')
    BY <1>6, AllKept
  <2> QED
    BY <1>1, <1>4, <1>6, <2>1, RoutesKept DEF Routes, MainRx, MonRx, MonTx
<1>7. ASSUME NEW o, RxTaken(o), NEW done2,
             \A h \in Modules \ half' : done2[h] = IF h = m THEN i + 1 ELSE RxDone[h],
             half \subseteq half', half' \subseteq Modules
      PROVE  Routed(main', lookMain', rxMain', "rx", done2, moduleNr, Modules, half')
  <2>1. /\ o \notin DOMAIN main /\ main' = With(main, o, {<<"rx", moduleNr[m], RxDone[m]>>})
        /\ rxMain' = [rxMain EXCEPT ![m][i] = o]
        /\ lookMain' = With(lookMain, o, m)
    BY <1>2, <1>7 DEF RxTaken, m, i
  <2>2. ObjType(rxMain, MAIN_SIZE) /\ m \in Positions /\ i \in 0 .. OBJS - 1
    BY <1>1 DEF OInv, Controllers, m, i
  <2>3. /\ rxMain'[m][i] = o
        /\ \A h \in Positions, j \in 0 .. OBJS - 1 :
             h # m \/ j # i => rxMain'[h][j] = rxMain[h][j]
    <3>1. IsPlaced([rxMain EXCEPT ![m][i] = o], rxMain, m, i, o)
      BY <2>2, NewPlace
    <3> QED
      BY <2>1, <3>1 DEF IsPlaced
  <2>4. Given(main', main, lookMain', lookMain, rxMain', rxMain, "rx", m, o, done2, RxDone,
              moduleNr, Modules, half', half)
    <3>1. \A h \in Modules, j \in 0 .. OBJS - 1 :
            h # m \/ j # RxDone[m] => rxMain'[h][j] = rxMain[h][j]
      BY <1>2, <2>3, Typed
    <3>2. \A h \in Modules \ half' : done2[h] = IF h = m THEN RxDone[m] + 1 ELSE RxDone[h]
      BY <1>2, <1>7
    <3> QED
      BY <1>2, <1>3, <1>7, <2>1, <2>2, <2>3, <3>1, <3>2 DEF Given
  <2> QED
    BY <1>7, <2>4, RouteGiven DEF Routes, MainRx
<1>8. ASSUME NEW o, RxTaken(o), GiveUp /\ UNCHANGED <<mon, rxMon, lookRx>> PROVE Routes'
  <2>1. \A h \in Modules \ half' : RxDone'[h] = IF h = m THEN i + 1 ELSE RxDone[h]
    BY <1>2, <1>8
  <2>2. half \subseteq half' /\ half' \subseteq Modules
    BY <1>2, <1>8
  <2>3. Routed(main', lookMain', rxMain', "rx", RxDone', moduleNr, Modules, half')
    BY <1>7, <1>8, <2>1, <2>2
  <2>4. MainRx'
    BY <1>1, <1>2, <2>3 DEF MainRx
  <2>5. /\ Kept(mon', mon, lookRx, "rx", moduleNr', half')
        /\ Kept(mon', mon, lookTx, "tx", moduleNr', half')
    BY <1>8, AllKept
  <2> QED
    BY <1>1, <1>4, <1>8, <2>4, <2>5, RoutesKept DEF Routes, MonRx, MonTx
<1>9. ASSUME NEW o, RxTaken(o), NEW p, RxHeard(p) PROVE Routes'
  <2> DEFINE f == <<"rx", moduleNr[m], i>>
  <2>1. /\ p \notin DOMAIN mon /\ mon' = With(mon, p, {f})
        /\ rxMon' = [rxMon EXCEPT ![m][i] = p]
        /\ lookRx' = With(lookRx, p, m)
        /\ job' = [job EXCEPT !.rx = @ + 1] /\ UNCHANGED half
    BY <1>9 DEF RxHeard, m, i
  <2>2. f[1] # "tx" /\ f = <<"rx", moduleNr[m], RxDone[m]>>
    BY <1>2
  <2> HIDE DEF f
  <2>3. \A h \in Modules \ half' : RxDone'[h] = IF h = m THEN i + 1 ELSE RxDone[h]
    BY <1>2, <2>1
  <2>4. half \subseteq half' /\ half' \subseteq Modules
    BY <1>3, <2>1
  <2>5. Routed(main', lookMain', rxMain', "rx", RxDone', moduleNr, Modules, half')
    BY <1>7, <1>9, <2>3, <2>4
  <2>6. MainRx'
    BY <1>1, <1>2, <2>5 DEF MainRx
  <2>7. Kept(mon', mon, lookTx, "tx", moduleNr', half')
    BY <1>3, <2>1, <2>2, OtherKept
  <2>8. MonTx'
    BY <1>1, <1>5, <2>1, <2>7, RoutesKept DEF Routes, MonTx
  <2>9. MonRx'
    <3>1. ObjType(rxMon, MON_SIZE) /\ m \in Positions /\ i \in 0 .. OBJS - 1
      BY <1>1 DEF OInv, Controllers, m, i
    <3>2. /\ rxMon'[m][i] = p
          /\ \A h \in Positions, j \in 0 .. OBJS - 1 :
               h # m \/ j # i => rxMon'[h][j] = rxMon[h][j]
      <4>1. IsPlaced([rxMon EXCEPT ![m][i] = p], rxMon, m, i, p)
        BY <3>1, NewPlace
      <4> QED
        BY <2>1, <4>1 DEF IsPlaced
    <3>3. \A h \in Modules, j \in 0 .. OBJS - 1 :
            h # m \/ j # RxDone[m] => rxMon'[h][j] = rxMon[h][j]
      BY <1>2, <3>2, Typed
    <3>4. \A h \in Modules \ half' : RxDone'[h] = IF h = m THEN RxDone[m] + 1 ELSE RxDone[h]
      BY <1>2, <2>3
    <3>5. Given(mon', mon, lookRx', lookRx, rxMon', rxMon, "rx", m, p, RxDone', RxDone,
                moduleNr, Modules, half', half)
      BY <1>2, <1>3, <2>1, <2>2, <2>4, <3>1, <3>2, <3>3, <3>4 DEF Given
    <3>6. Routed(mon', lookRx', rxMon', "rx", RxDone', moduleNr, Modules, half')
      BY <2>4, <3>5, RouteGiven DEF Routes, MonRx
    <3> QED
      BY <1>1, <1>2, <3>6 DEF MonRx
  <2> QED
    BY <2>6, <2>8, <2>9 DEF Routes
<1> QED
  BY <1>6, <1>8, <1>9, AddRxEffect

\* The control object and the masks are no data objects.
LEMMA ListeningKept ==
  ASSUME NEW new, NEW node, NEW o, NEW n, NEW nrs, IsListening(new, node, o, n, nrs),
         NEW look, DOMAIN look \subseteq DOMAIN node,
         o \notin DOMAIN look, ASYNC \notin DOMAIN look, SYS \notin DOMAIN look,
         SYS2 \notin DOMAIN look, NEW nr, NEW part
  PROVE  Kept(new, node, look, "rx", nr, part)
<1>1. /\ DOMAIN new = DOMAIN node \cup {o, ASYNC, SYS, SYS2}
      /\ new[o] = {<<"control", n, 0>>}
      /\ new[SYS] = {<<"system", k, 0>> : k \in Accepted(nrs)}
      /\ new[SYS2] = {<<"system", k, 0>> : k \in Accepted(nrs)}
      /\ new[ASYNC] = {<<"async", k, 0>> : k \in Accepted(nrs)}
      /\ \A p \in DOMAIN node \ {o, ASYNC, SYS, SYS2} : new[p] = node[p]
  BY DEF IsListening
<1>2. \A p \in {o, ASYNC, SYS, SYS2} : \A f \in new[p] : f[1] # "rx"
  BY <1>1
<1>3. \A p \in DOMAIN look : p \notin {o, ASYNC, SYS, SYS2} /\ p \in DOMAIN node
  OBVIOUS
<1>4. \A p \in DOMAIN look : new[p] = node[p]
  BY <1>1, <1>3
<1>5. \A p \in DOMAIN new : p \in {o, ASYNC, SYS, SYS2} \/ (p \in DOMAIN node /\ new[p] = node[p])
  BY <1>1
<1>6. DOMAIN node \subseteq DOMAIN new
  BY <1>1
<1> QED
  BY <1>2, <1>4, <1>5, <1>6 DEF Kept

LEMMA AddControlRoutes == ASSUME OInv, Routes, AddControl PROVE Routes'
<1>1. /\ job # Idle /\ job.pos \in Modules /\ job' = Idle
      /\ job.tx = type[job.pos].tx /\ job.rx = type[job.pos].rx
      /\ UNCHANGED <<occupied, moduleNr, type, mon, rxMain, rxMon, txMon, lookMain, lookRx,
                     lookTx, half>>
  BY AddControlEffect
<1>2. Modules' = Modules /\ half \subseteq Modules /\ Modules \subseteq Positions
  BY <1>1, DoneTyped DEF Modules
<1>3. \A h \in Modules : RxDone'[h] = RxDone[h] /\ TxDone'[h] = TxDone[h]
  BY <1>1, <1>2 DEF RxDone, TxDone, Idle, Positions
<1>4. /\ Steady(RxDone', RxDone, moduleNr', moduleNr, Modules', Modules, half', half)
      /\ Steady(TxDone', TxDone, moduleNr', moduleNr, Modules', Modules, half', half)
  BY <1>1, <1>2, <1>3 DEF Steady
<1>5. /\ Kept(mon', mon, lookRx, "rx", moduleNr', half')
      /\ Kept(mon', mon, lookTx, "tx", moduleNr', half')
  BY <1>1, AllKept
<1>6. Kept(main', main, lookMain, "rx", moduleNr', half')
  <2>1. CASE UNCHANGED main
    BY <2>1, AllKept
  <2>2. ASSUME NEW o \in (0 .. MAIN_SIZE - 1) \ DOMAIN main, NEW nrs,
               IsListening(main', main, o, moduleNr[job.pos], nrs)
        PROVE  Kept(main', main, lookMain, "rx", moduleNr', half')
    <3>1. /\ DOMAIN lookMain \subseteq DOMAIN main /\ o \notin DOMAIN lookMain
          /\ ASYNC \notin DOMAIN lookMain /\ SYS \notin DOMAIN lookMain
          /\ SYS2 \notin DOMAIN lookMain
      BY <2>2 DEF OInv, Placed, Fixed
    <3> QED
      BY <2>2, <3>1, ListeningKept
  <2> QED
    BY <2>1, <2>2, AddControlEffect
<1> QED
  BY <1>1, <1>4, <1>5, <1>6, RoutesKept DEF Routes, MainRx, MonRx, MonTx

\* The objects of a module that is not half-added are looked up, and no object
\* is looked up for both kinds: defining the objects of one kind again leaves
\* the routes of the other alone.
LEMMA OtherRedefined ==
  ASSUME NEW node, NEW look, NEW objs, NEW kind, NEW done, NEW nr, NEW all, NEW part,
         Routed(node, look, objs, kind, done, nr, all, part),
         NEW look2, NEW objs2, NEW kind2, NEW done2, NEW nr2, NEW m \in all \ part,
         Routed(node, look2, objs2, kind2, done2, nr2, all, part),
         kind # kind2, NEW n, NEW new, IsRedefined(new, node, objs2[m], done2[m], kind2, n),
         NEW nr3, NEW part3
  PROVE  Kept(new, node, look, kind, nr3, part3)
<1>1. \A i \in 0 .. done2[m] - 1 :
        /\ objs2[m][i] \in DOMAIN look2
        /\ node[objs2[m][i]] = {<<kind2, nr2[m], i>>}
  BY DEF Routed
<1>2. \A o \in DOMAIN look : \E i \in 0 .. OBJS - 1 : node[o] = {<<kind, nr[look[o]], i>>}
  BY DEF Routed
<1>3. \A i \in 0 .. done2[m] - 1 : objs2[m][i] \notin DOMAIN look
  <2> SUFFICES ASSUME NEW i \in 0 .. done2[m] - 1, objs2[m][i] \in DOMAIN look PROVE FALSE
    OBVIOUS
  <2> DEFINE o == objs2[m][i]
  <2>1. PICK j \in 0 .. OBJS - 1 : node[o] = {<<kind, nr[look[o]], j>>}
    BY <1>2
  <2>2. <<kind, nr[look[o]], j>> \in {<<kind2, nr2[m], i>>}
    BY <1>1, <2>1
  <2> QED
    BY <2>2
<1>4. /\ DOMAIN new = DOMAIN node \cup {objs2[m][i] : i \in 0 .. done2[m] - 1}
      /\ \A o \in DOMAIN new :
           \/ /\ o \in DOMAIN node /\ new[o] = node[o]
              /\ \A i \in 0 .. done2[m] - 1 : objs2[m][i] # o
           \/ \E i \in 0 .. done2[m] - 1 : objs2[m][i] = o /\ new[o] = {<<kind2, n, i>>}
  BY DEF IsRedefined
<1>5. DOMAIN node \subseteq DOMAIN new
  BY <1>4
<1>6. \A o \in DOMAIN look : o \in DOMAIN new /\ new[o] = node[o]
  BY <1>3, <1>4, <1>5 DEF Routed
<1>7. ASSUME NEW o \in DOMAIN new \ DOMAIN look, NEW f \in new[o], f[1] = kind
      PROVE  o \in DOMAIN node /\ f \in node[o]
  <2>1. ~ \E i \in 0 .. done2[m] - 1 : objs2[m][i] = o /\ new[o] = {<<kind2, n, i>>}
    BY <1>7
  <2> QED
    BY <1>4, <1>7, <2>1
<1> QED
  BY <1>5, <1>6, <1>7 DEF Kept

LEMMA NumberRoutes ==
  ASSUME OInv, Routes, NEW m \in Modules, m \notin half, NEW n \in Numbers,
         NEW vote \in Votes, ChangeModuleNr(m, n, vote)
  PROVE  Routes'
<1>1. /\ started /\ m \in Positions /\ type[m].rx \in 0 .. OBJS /\ type[m].tx \in 0 .. OBJS
      /\ moduleNr' = [moduleNr EXCEPT ![m] = n]
      /\ UNCHANGED <<occupied, type, rxMain, rxMon, txMon, lookMain, lookRx, lookTx, job, half>>
  BY NumberEffect
<1>2. job = Idle
  BY <1>1 DEF OInv, IInv, Adding
<1>3. RxDone[m] = type[m].rx /\ TxDone[m] = type[m].tx
  BY <1>1, <1>2 DEF RxDone, TxDone, Idle, Positions
<1>4. Modules' = Modules /\ RxDone' = RxDone /\ TxDone' = TxDone /\ half \subseteq Modules
  BY <1>1, DoneTyped DEF Modules, RxDone, TxDone
<1>5. \A h \in Modules : moduleNr'[h] = IF h = m THEN n ELSE moduleNr[h]
  BY <1>1, Typed DEF OInv, Kinds
<1>6. m \in Modules \ half /\ RxDone[m] \in 0 .. OBJS /\ TxDone[m] \in 0 .. OBJS
  BY <1>1, <1>3
\* Steps that change no number: here the numbers are those after the call.
<1>7. /\ Steady(RxDone, RxDone, moduleNr', moduleNr', Modules, Modules, half, half)
      /\ Steady(RxDone, RxDone, moduleNr, moduleNr, Modules, Modules, half, half)
      /\ Steady(TxDone, TxDone, moduleNr', moduleNr', Modules, Modules, half, half)
  BY <1>4 DEF Steady
<1>8. MainRx'
  <2>1. PICK data :
          /\ IsRedefined(data, main, rxMain[m], type[m].rx, "rx", n)
          /\ \/ main' = data
             \/ \E o \in (0 .. MAIN_SIZE - 1) \ DOMAIN data :
                  IsListening(main', data, o, n, Renumbered(m, n))
    BY NumberEffect
  <2>2. IsRedefined(data, main, rxMain[m], RxDone[m], "rx", n)
    BY <1>3, <2>1
  <2>3. /\ Routed(data, lookMain, rxMain, "rx", RxDone, moduleNr', Modules, half)
        /\ DOMAIN data = DOMAIN main
    BY <1>4, <1>5, <1>6, <2>2, RoutesRenumbered DEF Routes, MainRx
  <2>4. Kept(main', data, lookMain, "rx", moduleNr', half)
    <3>1. CASE main' = data
      BY <3>1, AllKept
    <3>2. ASSUME NEW o \in (0 .. MAIN_SIZE - 1) \ DOMAIN data,
                 IsListening(main', data, o, n, Renumbered(m, n))
          PROVE  Kept(main', data, lookMain, "rx", moduleNr', half)
      <4>1. /\ DOMAIN lookMain \subseteq DOMAIN data /\ o \notin DOMAIN lookMain
            /\ ASYNC \notin DOMAIN lookMain /\ SYS \notin DOMAIN lookMain
            /\ SYS2 \notin DOMAIN lookMain
        BY <2>3, <3>2 DEF OInv, Placed, Fixed
      <4> QED
        BY <3>2, <4>1, ListeningKept
    <3> QED
      BY <2>1, <3>1, <3>2
  <2>5. Routed(main', lookMain, rxMain, "rx", RxDone, moduleNr', Modules, half)
    BY <1>7, <2>3, <2>4, RoutesKept
  <2> QED
    BY <1>1, <1>4, <2>5 DEF MainRx
<1>9. PICK mid : /\ IsRedefined(mid, mon, txMon[m], TxDone[m], "tx", n)
                 /\ IsRedefined(mon', mid, rxMon[m], RxDone[m], "rx", n)
  BY <1>3, NumberEffect
<1>10. /\ Routed(mon, lookRx, rxMon, "rx", RxDone, moduleNr, Modules, half)
       /\ Routed(mon, lookTx, txMon, "tx", TxDone, moduleNr, Modules, half)
  BY DEF Routes, MonRx, MonTx
<1>11. Routed(mid, lookTx, txMon, "tx", TxDone, moduleNr', Modules, half)
  BY <1>4, <1>5, <1>6, <1>9, <1>10, RoutesRenumbered
<1>12. Kept(mid, mon, lookRx, "rx", moduleNr, half)
  BY <1>6, <1>9, <1>10, OtherRedefined
<1>13. Routed(mid, lookRx, rxMon, "rx", RxDone, moduleNr, Modules, half)
  BY <1>7, <1>10, <1>12, RoutesKept
<1>14. Routed(mon', lookRx, rxMon, "rx", RxDone, moduleNr', Modules, half)
  BY <1>4, <1>5, <1>6, <1>9, <1>13, RoutesRenumbered
<1>15. Kept(mon', mid, lookTx, "tx", moduleNr', half)
  BY <1>6, <1>9, <1>11, <1>13, OtherRedefined
<1>16. Routed(mon', lookTx, txMon, "tx", TxDone, moduleNr', Modules, half)
  BY <1>7, <1>11, <1>15, RoutesKept
<1> QED
  BY <1>1, <1>4, <1>8, <1>14, <1>16 DEF Routes, MonRx, MonTx

\* A type can be changed only to one with as many objects: none is taken or
\* given back with it.
SameObjects == \A t \in Types : Retyped[t].rx = t.rx /\ Retyped[t].tx = t.tx

LEMMA TypeRoutes ==
  ASSUME SameObjects, OInv, Routes, NEW m \in Modules, ChangeModuleType(m) PROVE Routes'
<1>1. /\ type' = [type EXCEPT ![m] = Retyped[@]]
      /\ UNCHANGED <<occupied, moduleNr, main, mon, rxMain, rxMon, txMon, lookMain, lookRx,
                     lookTx, job, half>>
  BY DEF ChangeModuleType, nodes, objects, lookups, hist
<1>2. m \in Positions /\ \A h \in Positions : type[h] \in Types
  BY Typed DEF OInv, IInv, Shapes
<1>3. \A h \in Positions : type'[h].rx = type[h].rx /\ type'[h].tx = type[h].tx
  BY <1>1, <1>2 DEF SameObjects, OInv, IInv, Shapes
<1>4. RxDone' = RxDone /\ TxDone' = TxDone /\ Modules' = Modules
  BY <1>1, <1>3 DEF RxDone, TxDone, Modules
<1> QED
  BY <1>1, <1>4 DEF Routes, MainRx, MonRx, MonTx

LEMMA RoutesStep ==
  ASSUME SameObjects, OInv, RoutedInv, [Next]_vars PROVE RoutedInv'
<1>1. CASE Add
  <2>1. UNCHANGED strayed
    BY <1>1 DEF Add, AddModule, AddTx, AddRx, AddControl, hist
  <2>2. Routes => Routes'
    BY <1>1, AddModuleRoutes, AddTxRoutes, AddRxRoutes, AddControlRoutes DEF Add
  <2> QED
    BY <2>1, <2>2, Zenon DEF RoutedInv
<1>2. ASSUME NEW m \in Modules, NEW n \in Numbers, NEW v \in Votes, ChangeModuleNr(m, n, v)
      PROVE  RoutedInv'
  <2>1. strayed' = (strayed \/ m \in half)
    BY <1>2 DEF ChangeModuleNr
  <2>2. m \notin half /\ Routes => Routes'
    BY <1>2, NumberRoutes
  <2> QED
    BY <2>1, <2>2, Zenon DEF RoutedInv
<1>3. CASE Type
  <2>1. UNCHANGED strayed
    BY <1>3 DEF Type, ChangeModuleType, hist
  <2>2. Routes => Routes'
    BY <1>3, TypeRoutes DEF Type
  <2> QED
    BY <2>1, <2>2, Zenon DEF RoutedInv
<1>4. CASE Start \/ Switch \/ UNCHANGED vars
  <2>1. UNCHANGED strayed
    BY <1>4 DEF Start, Switch, SetSilentAwake, vars, hist
  <2>2. UNCHANGED Bookkeeping /\ UNCHANGED type
    BY <1>4, QuietStep DEF Switch, States, Start, SetSilentAwake, vars, table
  <2>3. Routes => Routes'
    BY <2>2 DEF Bookkeeping, Routes, MainRx, MonRx, MonTx, RxDone, TxDone, Modules
  <2> QED
    BY <2>1, <2>3, Zenon DEF RoutedInv
<1> QED
  BY <1>1, <1>2, <1>3, <1>4 DEF Next, Number

\* Who takes a data frame of a module with a number of its own.
LEMMA OneTaker ==
  ASSUME NEW node, NEW look, NEW objs, NEW kind, NEW done, NEW nr, NEW all, NEW part,
         part \subseteq all, Routed(node, look, objs, kind, done, nr, all, part),
         NEW m \in all \ part, \A k \in all \ {m} : nr[k] # nr[m],
         NEW i \in 0 .. done[m] - 1
  PROVE  Takers(node, <<kind, nr[m], i>>) = {objs[m][i]} /\ look[objs[m][i]] = m
<1> DEFINE f == <<kind, nr[m], i>>
<1>1. /\ objs[m][i] \in DOMAIN look /\ objs[m][i] \in DOMAIN node
      /\ look[objs[m][i]] = m /\ node[objs[m][i]] = {f}
  BY DEF Routed
<1>2. ASSUME NEW o \in DOMAIN node, f \in node[o] PROVE o = objs[m][i]
  <2>1. CASE o \in DOMAIN look
    <3>1. PICK j \in 0 .. OBJS - 1 : /\ node[o] = {<<kind, nr[look[o]], j>>}
                                     /\ objs[look[o]][j] = o
      BY <2>1 DEF Routed
    <3>2. f = <<kind, nr[look[o]], j>> /\ look[o] \in all
      BY <1>2, <2>1, <3>1 DEF Routed
    <3>3. nr[look[o]] = nr[m] /\ j = i
      BY <3>2
    <3>4. look[o] = m
      BY <3>2, <3>3
    <3> QED
      BY <3>1, <3>3, <3>4
  <2>2. CASE o \notin DOMAIN look
    <3>1. f[1] = kind /\ f[2] = nr[m]
      OBVIOUS
    <3>2. PICK h \in part : f[2] = nr[h]
      BY <1>2, <2>2, <3>1 DEF Routed
    <3> QED
      BY <3>1, <3>2
  <2> QED
    BY <2>1, <2>2
<1> HIDE DEF f
<1>3. Takers(node, f) = {objs[m][i]}
  BY <1>1, <1>2 DEF Takers
<1> QED
  BY <1>1, <1>3 DEF f

\* Every data frame of a module that was added completely and has a number of
\* its own is taken by exactly one object of each controller, from which the
\* handler finds the module: for any controllers, modules and sequence of new
\* numbers, failed ones included, when new types have as many objects.
THEOREM DataFramesRouted == SameObjects => (Spec => []DataRouted)
<1> SUFFICES ASSUME SameObjects PROVE Spec => []DataRouted
    OBVIOUS
<1>1. OInv /\ RoutedInv => DataRouted
  <2> SUFFICES ASSUME OInv, Routes, job = Idle, NEW m \in Modules, Whole(m), Alone(m)
               PROVE  /\ \A i \in 0 .. type[m].rx - 1 :
                           /\ Takers(main, <<"rx", moduleNr[m], i>>) = {rxMain[m][i]}
                           /\ lookMain[rxMain[m][i]] = m
                           /\ Takers(mon, <<"rx", moduleNr[m], i>>) = {rxMon[m][i]}
                           /\ lookRx[rxMon[m][i]] = m
                      /\ \A i \in 0 .. type[m].tx - 1 :
                           /\ Takers(mon, <<"tx", moduleNr[m], i>>) = {txMon[m][i]}
                           /\ lookTx[txMon[m][i]] = m
    BY Zenon DEF DataRouted, RoutedInv
  <2>1. m \in Modules \ half /\ half \subseteq Modules /\ m \in Positions
    BY DoneTyped DEF Whole
  <2>2. RxDone[m] = type[m].rx /\ TxDone[m] = type[m].tx
    BY <2>1 DEF RxDone, TxDone, Idle, Positions
  <2>3. \A k \in Modules \ {m} : moduleNr[k] # moduleNr[m]
    BY DEF Alone
  <2>4. \A i \in 0 .. RxDone[m] - 1 :
          /\ Takers(main, <<"rx", moduleNr[m], i>>) = {rxMain[m][i]}
          /\ lookMain[rxMain[m][i]] = m
    BY <2>1, <2>3, OneTaker DEF Routes, MainRx
  <2>5. \A i \in 0 .. RxDone[m] - 1 :
          /\ Takers(mon, <<"rx", moduleNr[m], i>>) = {rxMon[m][i]}
          /\ lookRx[rxMon[m][i]] = m
    BY <2>1, <2>3, OneTaker DEF Routes, MonRx
  <2>6. \A i \in 0 .. TxDone[m] - 1 :
          /\ Takers(mon, <<"tx", moduleNr[m], i>>) = {txMon[m][i]}
          /\ lookTx[txMon[m][i]] = m
    BY <2>1, <2>3, OneTaker DEF Routes, MonTx
  <2> QED
    BY <2>2, <2>4, <2>5, <2>6
<1>2. Init => RoutedInv
  BY InitRoutes DEF RoutedInv
<1>3. OInv /\ RoutedInv /\ [Next]_vars => RoutedInv'
  BY RoutesStep
<1> QED
  BY InitOInv, NextOInv, <1>1, <1>2, <1>3, PTL DEF Spec
=============================================================================
