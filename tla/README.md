# Verification of li_can_slv

`li_can_slv` is the slave side of a CAN protocol for machine control: a master
sends process requests and data to a few *logical modules* per slave and
expects their process data back. The library (C, `source/`, `include/`) runs
mostly inside the CAN receive interrupt, next to an application task and a
timer process. In the `LI_CAN_SLV_MON` build a second ("monitor") CAN
controller listens to the same bus and everything is checked twice.

The TLA+ modules here model the parts of the library that keep state over many
calls, model-check them with TLC on small instances and prove the most
important invariants with TLAPS for every instance.

Run one check with `tlc -config SyncImage.cfg MCSyncImage.tla`, one proof
with `tlapm SyncImageProofs.tla`. `PROJECT.json` lists the runs, the source
lines behind each definition, the mutations that show each property can fail,
the findings and the hazards.

## 1. Inventory of the system

| part | state it keeps | operations | hard behaviour | what makes it correct |
|---|---|---|---|---|
| error queue `error/io_can_error.c` | cyclic array, in/out index, count | send (anywhere), get (process request, status request), peek, lazy init | full queue, wrap-around, task and interrupt at once | FIFO, loss announced, indices inside the array |
| supervision `sync/io_can_sync.c` | per node: request flag and count, receive counters and data; 8-bit pre-counters per object, latched error flags, verdict `image_valid` | receive data, loop-back data, process request (check, judge, clear), module off/on | lost, doubled, reordered frames; two nodes that see requests at different times; counters that wrap | one fault tolerated, two never; flags reach a verdict; recovery |
| receive handlers `sync/io_can_sync_handler.c` | none | decode the frame, call supervision, error queue, system protocol, transmission | two handlers lag behind each other | as above |
| module table `config/io_can_config.c` | table of modules: number, type, object counts, silent | add, silent/awake, critical, change number, change type | sequences of them; the application's call against the interrupt; failures half way | silent sends nothing, awake sends all, right identifiers |
| transmission `core/io_can_main.c` | transmit flags, position of the last, identifiers | configure object, set/clear flag, send all | loop over the flags in the interrupt | terminates; sends what the table says |
| system protocol `sys/io_can_sys.c` | node mode, bus and parameter data | silent/awake, status, node mode, baud rate, number, type, identification | partial failure after the answer was sent | changes all or nothing |
| reconnection `core/io_can_reconnect.c` | search state, baud index, error counts, times | startup, online, recovery, process, off | timeouts racing a late message, interrupt against timer process | visits every rate; ends on the rate with traffic |
| asynchronous channel `async/` | transmit queue, the tunnel's state, a counted lock, one object that is being filled | receive dispatcher, open/close/shut down tunnel, putc, timed sending | the interrupt works on the same object as the task; refused sends; putc waits for a place in the queue | the stream of bytes is kept; waiting ends |
| block transfer `xload/` | progress and component of the transfer, block counters, ring of bytes; a record that outlives a reset | version and start request, start (from the task), data, block end, end, termination; upload information, start, data | another module's messages in between, also while the application erases an area; lost messages and answers; blocks that end within an object or a line; a reset before the last acknowledge | what is acknowledged is programmed; a patient master gets done |
| message objects `core/io_can_main.c`, `core/io_can_mon.c`, `arch/` | used objects and filters of both controllers, object to table position, control object per module | find a free one, define, look up | objects run out between two steps of a call; every renumbering takes one more | a frame is taken by one object and handed to its module |
| start-up and API `api/`, `core/io_can.c` | initialised flags | init, start, process, close | re-initialisation | order of calls |
| hardware adapter `arch/canpie_adapter/` | canpie handles, note for the reconnection | driver calls, receive and error handler | the note is read and acted on in two steps | - |
| diagnostics `util/` | counters | count | - | - |

Interaction. A frame on the *main* node enters `can_sync_handler_rx`: a data
object goes to the supervision; a process request closes the old image
(supervision), takes one error out of the error queue and sends the
process data of every module whose transmit flags are set (transmission); a
system message changes the module table. A frame on the *monitor* node enters
`can_sync_handler_rx_mon` and goes to the supervision only. The application
reads the image and the verdict, reports errors and calls a few operations of
the table from its task. Its task also calls `li_can_slv_process`, which polls
the error handler and so drives the reconnection; the receive interrupt only
leaves a note for it. An asynchronous message goes to `can_async_rx`, which
hands it to the tunnel or to the block transfer, all in the interrupt; answers
go to the driver directly and are not repeated. At its end the interrupt handler
looks after overdue bytes of the tunnel, as the task does. The application
starts a download from its task, after it was asked for one in the interrupt.

## 2. Modules

| module | models | abstract parts |
|---|---|---|
| `ErrorLog` | what the error queue promises: a FIFO with a reserved last place | - |
| `ErrorQueue` | `can_error_sys_error_send_full`, `_get_full`, `can_error_init`; a call is a step | an entry is its error code; module, place and parameters of the error are left out |
| `ErrorQueueIrq` | extends it: a task's send, with the lazy initialisation it may begin with, cut at every access to the queue's fields (`++count` and the index's step are a load and a store); whole calls of the interrupt handlers between them | the fields of an entry but its code |
| `SyncImage` | `io_can_sync.c` and the data and request branches of the handlers; any frame at any time | contents are a small set, one of them the cleared one; time stamps and diagnostic counters left out |
| `SyncBus` | composes `SyncImage` with a master, the bus and one queue per handler | master and bus are environment; at most `Lag` frames wait for a handler |
| `ModuleTable` | table, transmit flags, identifiers and the send loop; the application's calls cut at every access to what the interrupt shares with them, a flag's change being a load and a store of the whole register | an identifier is the module number it was computed from; flags are pairs of position and object, `Bit` gives the position in the register |
| `MessageObjects` | the objects of both controllers under adding modules (cut at each object, where it may return), new numbers, new types and silent/awake, each in one step as from the bus; before and after the start | a frame is kind, module number and object; an object is the set of frames its filter lets pass |
| `Reconnect` | `io_can_reconnect.c` with the error handler that drives it, the start of the slave to its end, where a build with downloads sets the state once more, and the receive handler's note | the error codes that are treated alike are one (`OTHER`); a time is only whether it has passed; the rates are those of the table |
| `AsyncTunnel` | the transmit queue and the tunnel of `io_can_async.c`; putc and the timed sending of the task cut where the interrupt comes between | a byte is the number of its acceptance; under whose number an object goes out; times are one fact |
| `Xload` | `xload/` in the interrupt and in the task, whose start is cut at its statements, with a master that downloads a file and a second module of which any message may come | a byte of the file is its position; half a name is the module it belongs to; CRC and download number |
| `ErrorQueueProofs`, `SyncImageProofs`, `SyncBusProofs`, `ModuleTableProofs`, `MessageObjectsProofs`, `ReconnectProofs`, `AsyncTunnelProofs`, `XloadProofs` | theorems about the module of that name (`ErrorQueueProofs` also about `ErrorQueueIrq`) | - |
| `MC...` | small instances for TLC | - |

Correspondence of state. `ErrorQueue`: `inNext`, `outNext`, `count`, `queue` are
the fields of `error_syserr_queue`; `returned` is what the last get gave;
`memory` tells whether an entry was written behind the array. After that the
model says nothing more: the fields behind the array are the queue's own
indices, so anything may follow. `SyncImage`: `pr`, `rxCnt`, `txCnt`, `pre`,
`errFlags`, `reported`, `imageValid` are the fields of `can_sync[]` and the
node-wide request flags; `off` is `can_config_module_sync_deactivated_tab`;
`lastBad` and `wrapped` are history variables no action reads. `ModuleTable`:
`sendReg`, `sendEnd`, `id` are `can_main_sync_process_tx_data_ctrl`, `send` and
`sendCurrent` the locals of the send loop; `task` is what the application's call
is at: its next access, its own arguments and the register it has loaded;
`critical`, `stale`, `raced` and `crossed` are history variables, the last two of
modules that a message and a call changed at the same time. `Reconnect`:
`state`, `cause`, `bdrIndex`, `backBdr`, `lecBit0`, `idleCnt` are fields of
`can_reconnect`, whose two times have become `startupOver` and `dwellOver`;
`pending` is `li_can_slv_reconnect_main_node_msg_pending`, `slave` the state
`lcsa_get_state` gives; `mode`, `baud`, `lec`, `busState` are the controller;
`pc`, `intid`, `lecRead` where the handler stands and what it has read; `heard`,
`overtaken`, `tuned` are history variables. `AsyncTunnel`: `tunnel`, `tmp`,
`lock` are `can_async_tunnel`, `can_async_tunnel_tmpTXobj` and
`can_async_tnl_lock`, `slots`, `read`, `write`, `count` the transmit queue; `pc`
is where the task stands; `accepted`, `sent` and `refusals` are history
variables (`accepted` and `refusals` are also bounded). `Xload`: `xload` is
`xload_in_progress` and `xload_component`, `block` and `ring` are the counters
and the ring of `dload_buffer`, `info` the part of `xload_info` that matters after
a reset; `start` is the next statement of `li_can_slv_dload_start` and the module it
read for its answer; `app` is the application and how far the task is with an
upload, `host` and `mail` the master and the answers on their way to it, `half`,
`disturbed`, `tries` and `faults` count module B's messages and what else is
bounded; `alone` and `torn` are history variables. `MessageObjects`:
`main` and `mon` map each object in use (`msg_obj_used`) to its frames, `rxMain`,
`rxMon`, `txMon` are `rx_msg_obj_main`, `rx_msg_obj_mon`, `tx_msg_obj_mon`, `lookMain`,
`lookRx`, `lookTx` the tables from object to `table_pos`, `ctrl` is
`can_config_async_ctrl_rx_objs`; `occupied` counts the positions with a type, `counted`
is `can_config_nr_of_modules`; `job` is how far the adding of a module has come, and
`half`, `missed`, `left` and `strayed` are history variables. `ErrorQueueIrq`: `pc` is
the next access of the send, `free` and `reg` its local variable and the value it
has loaded.

One action is one call of a handler or of an API function, with everything that
it calls. What runs in the CAN
interrupt is not interrupted; what runs in the application's task is cut wherever
the interrupt may come between two accesses to what they share:

- the send of an error (`ErrorQueueIrq`): each load and store of a field;
- the application's renumbering, its switching of a module to silent or awake
  and its setting it critical (`ModuleTable`, `Task...`): the conditions of the
  loops, each identifier, the load and the store of `send_reg`, `send_end`, the
  reading and writing of the module's state;
- putc and the timed sending (`AsyncTunnel`): after the test of the tunnel's state
  and at every turn of putc's loop;
- the start of a download (`Xload`, `Start...`): before and behind the
  application's handle, which may take seconds, and at each statement of the reset
  of counters and ring; the sending of an upload's blocks: between filling an
  object and counting it, where the code pauses;
- the error handler of `Reconnect`: before the change of the rate and between
  reading the note and acting on it.

Adding a module in `MessageObjects` is cut at each object because it may return
there, and the loop of `can_main_sync_send_process_data` at its iterations, so that
its end can be asked for; no other call runs in between (`NotSending`).

## 3. What TLC checks

| run | properties | what it shows | instance |
|---|---|---|---|
| `error_queue` | `TypeOK`, `LossAnnounced`, `IndicesAgree`, `ImplementsErrorLog` | up to the first write behind the array the queue implements the bounded FIFO `ErrorLog` (refinement mapping `Pending`), the newest entry is `QUEUE_FULL` whenever errors are refused | 4 entries, 2 errors: fills, refuses, drains and wraps |
| `error_queue_irq` | `IrqTypeOK`, `CountOverByOne` | interrupted between any two accesses the count is at most one too high, and the index stays within one of the array as long as nothing was written behind it | 4 entries, 1 error |
| `sync` | `TypeOK`, `TwoMissesNeverBothValid`, `FlaggedErrorReachesVerdict` | an object missing or doubled never passes two judgements running, unless its pre-counter wrapped; an error a handler met stays latched over requests without a verdict, and over the module being switched off, until a verdict is not valid | one module, one transmit object, both nodes, wrong lengths, long requests, switching, counter width 3 so that it wraps |
| `bus` | `NoFalseAlarm`, `TwoMissesNeverBothValid`, `Recovers` | one lost frame, whichever it is, never makes an image not valid; what is missing or differs between the nodes twice running is never accepted twice; after two lost frames and one falsified frame the image becomes valid for good | one module, one receive and one transmit object, two contents, `Lag` 1 |
| `reconnect` | `TypeOK`, `SearchOnlyListens`, `MessageRateKept`, `StartupEnds`, `FindsTraffic` | a search only listens, and is reported but for the start-up search of a build with downloads; the rate of a message is the rate connected at; a start-up ends without traffic; with lasting traffic the slave ends connected at its rate, whatever happened before | three rates, two bit-0 errors in series, one start, a build with downloads |
| `table` | `TypeOK`, `SilentSendsNothing`, `AwakeSendsAll`, `SentUnderOwnNumber` | with messages between any two accesses of the application's calls a silent module sends nothing, an awake one everything, each frame under its module's number; where message and call meet on one module, from the next switch, number or type on that meets none | two positions of one and two objects, one number besides the default one, all votes, a new type for the second position, every call |
| `objects` | `TypeOK`, `DataRouted`, `SystemReached`, `ControlReached`, `SilentUnlessFailed` | whatever runs out, modules added whole keep exactly one object for each of their frames and the handlers find them; the masks let every number pass; the first object that takes a module's control frames is one the dispatcher knows, unless its number was given up before; only a call that failed leaves a silent module flags | two positions, four types, two numbers, 11 and 9 objects, three entries for transmit objects: each of the six places where a call can end half-way is reached |
| `tunnel` | `TypeOK`, `StreamKept`, `LockHeld`, `LagIsRefusals`, `PutcReturns`, `Flushed` | the bytes on the bus, in the queue and in the object are the bytes accepted, each once and in order; the lock does its work; putc and the timed sending end while the queue has a place | queue of three objects of two bytes, ten bytes, three refused sends: every place refused once, then full |
| `xload` | `TypeOK`, `IndicesAgree`, `RoomForBlock`, `AckedIsProgrammed`, `Completes` | whatever is lost or fails: while no message of another module was handled since the master began with a slave at rest, what it holds acknowledged is programmed, once and in order, and a block always fits; a patient master gets done once it is undisturbed; the ring's indices agree but for a reset that a handler came into | objects of two bytes, blocks of three, lines of two, a ring of five, a file of ten; two faults, one message of B at any place, one hasty new beginning |

Bounds. The queue's behaviour depends on the fill level and on the place of the
wrap only; with 4 entries every combination occurs. A judgement looks at one
module at a time, and at its objects one at a time in a fixed order, so the
interesting cases are one check before, at or after the first that trips:
with both nodes one receive object already has three checks. Counters above 1
are all the same to the judgement, so `MaxCnt = 2` keeps the cases missing,
once and doubled (`SyncBus` needs 4: a node that lost a request goes on
counting). With `PreMod = 3` the wrap of the eight-bit counter is reachable; the
theorem holds for its real width. Two table positions suffice for one
module in front of another with a gap in the flags; the search for an unused
number compares pairs, and the default number is the second one. A change of
type takes an object away under the call's loop. A third position, a second number or a new type for the first
position is beyond TLC's reach; the theorems of section 4 cover any table. Three rates are the start-up's, the right one and one
more, in every position of the table; two bit-0 errors in series instead of ten
still tell the first from the last. In `objects` a new type has as many objects as the old one. In `tunnel` the queue runs round more than
once and fills. In `xload` every block has a byte that only fills the last object,
every other block leaves a byte of a line in the ring, the ring wraps in both
directions and `BufferAssumption` holds without a byte to spare; two faults lose
a request and its repetition, or a request and an answer. One message of B, of which a
request in two counts once, comes at any place, also within the start and its reset;
more is beyond TLC. `MaxTries` bounds how often A's master begins again while
the slave still works on something after a message of B, as it could for ever (see
below); the proofs of section 4 know none of these bounds.

Fairness. `BusFairSpec`: the master goes on with its cycle and the controllers
send what they hold (`WF(Bus)`), and each node's interrupt is served
(`WF(Handle(n))`). `FairSpec` of `ModuleTable`: an interrupt handler that has a
next instruction executes it (`WF(Loop)`). `FairSpec` of `Reconnect`: the
application polls (`WF(Poll)`), the start-up's time passes, frames at a wrong
rate show as errors (`WF(Errors)`). Two of its conditions are strong, because
the handler's calls come in between: the time between two rates passes
between polls (a call is far shorter than it), and traffic whose rate is
listened at again and again is heard once while the handler is not at work;
with weak fairness only the slave might listen at the right rate for no longer
than one call, or always hear the message just between the reading of the note
and the next change, which the times in the code (`LI_CAN_SLV_RECONNECT_BAUDRATE_SWITCH_TIME`)
rule out. `FairSpec` of `AsyncTunnel`: the task goes on with what it has begun
and polls (`WF(Task)`), the slave gets as old as the delay (`WF(TimePasses)`);
putc may never be called. `FairSpec` of `Xload`: the task goes on (`WF(Task)`) and
so does the master (`WF(Master)`), who begins again after a termination or when
nothing more is owed to it; `Completes` is about runs in which it is undisturbed from
some time on (`<>[]alone`). Nothing is assumed about faults: they are bounded in number, or may
never come.

Disagreements with the documentation, each a run that TLC finds violated:

| run | property | what the code does |
|---|---|---|
| `error_queue_index` | `InIndexIsASlot` | `io_can_error.c:280` advances the write index past `QUEUE_FULL` without the modulo; when `QUEUE_FULL` falls in the last slot, the next error is written over the queue's own indices |
| `table_endless` | `RequestEnds` | `send_end` is the object configured last; after an earlier module was renumbered, a later module's flag lies behind it and the send loop never ends |
| `reconnect_restart` | `ConnectsAtMeasuredRate` | `back_bdr` is not reset and not set for the rate a start-up listens at first: after a re-initialisation a message heard at that rate connects the slave at the last rate of the search before |

Seen while modelling and kept out of the runs:

- `io_can_error.c:251`: test and increment of the count (:253) are two steps; a
  send in the interrupt between them fills the last place, and the count becomes
  `SIZE + 1`: the readers take out one entry more than there are. The count is also
  raised before the entry is written, so that a get in the interrupt hands out
  the slot's old contents, although the comment at 367 says all tasks are blocked.
  What `error_queue_irq` and its theorems show is that the count goes no further
  (`CountOverByOne`).
- `io_can_config.c:1808`: the application's renumbering sets the transmit flags
  of a silent module object by object and clears them only at its end (:1919); a
  process request in between makes it send (`task.pos` in `SilentSendsNothing`).
  It writes back the state it read before, so that a module silenced in between is
  awake again (`raced`).
- `io_can_config.c:1262`, `io_can_main.c:501`: the application's loops over a module's
  objects load and store the whole register of flags, and go on for the state read
  before them. A message to stay silent in between is lost, wholly or for single
  objects: the module is silent in the table and goes on sending, until it is
  switched, renumbered or retyped again (`raced`). What is shown is that this stays with the module
  both are about: no other one loses or keeps a flag by it.
- `io_can_main_hw_handler.c:261`: a message that arrives after the handler has
  read the note and before it changes the rate is taken for one at the new rate
  (`overtaken`, the exception in `MessageRateKept`); `FindsTraffic` shows that
  the slave gets out of it.
- `io_can_reconnect.c:648`: a search entered from the start-up by an error code
  changes the rate, which resets the code, and takes the next poll's "no error"
  for the right rate without having heard anything. `FindsTraffic` covers it.
- `io_can_error.c:452`: peek starts at the count alone, so after a get peek(0)
  shows slot 0; nothing in the repository calls peek.
- `io_can_sync.c:1451`: the eight-bit pre-counter is not held at its threshold and
  wraps: after 256 misses in a row the image is valid again, although 961 asks for
  exactly one reception (`wrapped`, the exception in `TwoMissesNeverBothValid`).
- `io_can_sync.c:1456`: the early return leaves the pre-counters of later
  checks untouched; the models contain it (`Evaluated`).
- `io_can_sync.c:1006`: more than one request gives no verdict, the old one
  stands, although the comment at 955 describes the image as not valid.
- `io_can_config.c:2039`: the identifiers of a module retyped while silent are
  not computed again (`stale`, the exception in `SentUnderOwnNumber`).
- `io_can_config.c:2186`: a number below 2 becomes the default number after the
  search for duplicates (`Declared`).
- `io_can_config.c:1808`: the identifiers are computed one by one from the
  number of the call; a number given by the master meanwhile leaves a part of them
  under the other number (`stale`, the exception in `SentUnderOwnNumber`).
- `io_can_config.c:1728`: an awake message, a new number or a new type makes a
  critical module send again: nothing is kept of the critical state, although
  `li_can_slv_api.h:86-87` says that there is no way back.
- `io_can_config.c:2228`: a module whose adding failed at a data object stays in the
  table, is found by its number and can be renumbered, but is not counted. A module
  added behind it is left out of the masks by the next renumbering (:1872, the
  exception in `SystemReached`), and its control object is kept under the index of
  the number of modules counted (:2357), where another module's renumbering
  overwrites it (the exception in `ControlReached`). Renumbering the half-added
  module redefines object 0 (`strayed`).
- `io_can_config.c:1884`: a renumbering without a free object leaves the module under
  its new number with its data objects moved, but with the filters of before: the
  master may not reach it, and a silent module keeps the flags set on the way
  (`missed`).
- `io_can_config.c:1883`: "change one asynchronous control receive object per logical
  module" (:1881), but each renumbering takes a further object (:2488) and gives none
  back, until none is free and every renumbering fails; `objects` gets there.
- `io_can_config.c:1984-2064`: a change of type takes no message objects and gives none
  back. The receive objects a new type has more are number 0, and the next
  renumbering (:1851) defines object 0, that of the process request, for one of them;
  those it has fewer keep the number the module had.
- `io_can_config.c:1883`: back at an earlier number a module has two control objects
  with the same filter. The driver of the tests hands the frame to every object that
  takes it, a controller to the first, which the dispatcher no longer knows
  (`io_can_async_handler.c:97`): the module's control frames are lost
  (`left`, the exception in `ControlReached`).
- `li_can_slv_api.c:294`: in a build with downloads the end of the start sets the
  state `RUNNING` over the `RECONNECT` the start-up search has just set. The
  controller only listens all the same, but the slave says it is running, although
  `li_can_slv_api_types.h:57` has a state for the search (the exception in
  `SearchOnlyListens`); an error code met on the way sets `RECONNECT` again.
- `io_can_async.c:753`: an object whose send was refused waits for the next one
  to be put into the queue, and so does every later one (`LagIsRefusals`): a
  partly filled object sent after its time (:973) then stays in the queue. After
  as many refusals as the queue has places putc's loop (:944-948) never ends,
  since only its own call would send (the exception in `PutcReturns`).
- `io_can_async.c:987`: the delay is added to the number of bytes instead of the
  time of the last byte: as soon as the slave has been up for 50 ms every object
  is overdue at once.
- The bytes left in the object when a tunnel is closed go into the next tunnel;
  a close between putc's test and its send gives an object under the default
  number; an unknown type of connection is denied, but the tunnel stays active;
  a shut-down waits for ever if its answer is lost.
- `li_can_slv_xload.c:805`: the number the start is acknowledged to is read again
  behind the application's handle (:792), which may run for seconds. A refused
  request of B in it clears the progress of A's start (:869), although :73 says
  that only one download is possible: the next start request is accepted, and
  whoever came last is told that the area of the one before is ready. The
  other way round, B's start in its handle, A is acknowledged while B's area is
  programmed. One message is enough, so the three properties of the blocks are
  about a master that no other disturbed (`alone`); two masters that begin again
  at once can keep each other out for ever.
- `li_can_slv_xload.c:590`, :631: data and block ends are taken without asking from
  whom and whether a download is in progress: an object of B is programmed into
  A's area, and an upload that runs counts its objects in the same counter and can
  make up for a lost object of the download.
- `li_can_slv_xload.c:164-171`: counters and ring are reset statement by statement in
  the task. An object handled in between leaves a write index apart from the number
  of bytes, up to the next start (`torn`, the exception in `IndicesAgree`).
- `li_can_slv_xload.c:1021`: `bytes_cnt_of_block` is not reset with a call, so the
  second block of an upload carries no data.
- With a handler two frames behind (`Lag = 2`), `NoFalseAlarm` fails without any
  fault: data of the next cycle is counted in the old one. It is the timing
  the protocol relies on, so `bus` keeps `Lag = 1`.

## 4. What TLAPS proves

The theorems hold for every value of the constants that the `ASSUME`s allow; "the
run's property" below is the definition that the run of the same component checks.

| theorem | says | inductive invariant and why it is needed |
|---|---|---|
| `ErrorQueueProofs!TypeCorrect` | `Spec => []TypeOK`, every `SIZE >= 2` | `TypeOK` itself |
| `ErrorQueueProofs!LossIsAnnounced`, `IndicesStayTogether` | `Spec => []LossAnnounced`, `Spec => []IndicesAgree` | `AnnouncedInv`: with `TypeOK` and `IndicesAgree`. The newest entry is found from the read index and the count, the entry is written at the write index: without `IndicesAgree` a step cannot be shown to write the newest entry |
| `ErrorQueueProofs!QueueImplementsLog` | `Spec => ImplementsErrorLog`, the refinement of `ErrorLog` | `AnnouncedInv`. The pending entries are read from the array by `Ring`; writing one behind the last appends to it (`RingAppend`), reading the first takes its head (`RingTake`), because different distances below `SIZE` are different places (`DistinctPlaces`). Then one lemma per operation of the log |
| `ErrorQueueProofs!IrqTypeCorrect`, `CountStaysNear` | `IrqSpec => []IrqTypeOK`, `IrqSpec => []CountOverByOne`: a send interrupted between any two accesses | `IrqInv`: with `AdvanceBound`, that a task about to advance the index behind `QUEUE_FULL` has it at most one behind the array, otherwise the index could run away; `CountBound`, that a task behind the test counts at most `SIZE` entries before its increment: there was room, and the interrupt's sends only use it up; `EntryBound`, that the place it has loaded for its entry is one of the array |
| `SyncImageProofs!TypeCorrect` | `Spec => []TypeOK`, every module table, contents, counter width | `TypeOK` |
| `SyncImageProofs!NeverTwiceAccepted` | `Spec => TwoMissesNeverBothValid` | `ToleratedInv`: a check that was bad at the last judgement of an accepted module has a pre-counter that is not 0, or has wrapped. This is what connects the history variable to the counter the next judgement reads |
| `SyncImageProofs!FlaggedErrorKept` | `Spec => FlaggedErrorReachesVerdict` | `TypeOK`: flags are only added (`LatchKeeps`), or cleared by a judgement, which accepts only modules without one |
| `SyncBusProofs!BusImplementsImage` | `BusSpec => Spec`: what the slave does on the bus is what `SyncImage` allows, whatever is lost or falsified and however far the handlers are behind | `OnTheBus`: only frames of configured objects wait anywhere. A falsified frame is one (`FalsifiedFrame`), and the slave's answer is a sequence of them because the table is finite |
| `SyncBusProofs!NeverTwiceOnTheBus` | `BusSpec => TwoMissesNeverBothValid` | follows from the two before |
| `SyncBusProofs!OneLossIsAbsorbed` | `Lag = 1 => (BusSpec => NoFalseAlarm)`, every module table, with and without the monitor node | `AlarmInv`, below |
| `ModuleTableProofs!TypeCorrect` | `Spec => []TypeOK`, every table size and all types | `TypeInv`: with `TaskShape`, what the fields of a call are at each of its accesses |
| `ModuleTableProofs!SilenceKept` | `Spec => SilentSendsNothing`, every table size and all types, messages between any two accesses of the calls | `FlagsInv`, below |
| `ModuleTableProofs!AwakeAnswersInFull` | `Spec => AwakeSendsAll` | `FlagsInv`, below |
| `ModuleTableProofs!SentUnderNumber` | `Spec => SentUnderOwnNumber` | `FlagsInv` and `NumberInv`: the identifiers of all objects are those of their module's number, of the module being renumbered those the call's loop has passed (`Settled`), and the number of the call is the module's as long as no message gave it another one (`CallNumber`). That the loop has passed all objects at its end takes that it stays inside them (`TaskWithin`). That the loop sends the least flag is a least-element argument over the naturals |
| `ReconnectProofs!TypeCorrect` | `Spec => []TypeOK`, every table of rates | `FieldInv`: the errors of bit 0 are fewer than the limit as long as a search goes on, the calls in IDLE at most two before the last |
| `ReconnectProofs!OnlyListens` | `Spec => []SearchOnlyListens`, every table of rates, builds with and without downloads | `SearchInv`, that is `RateTypes`, the property, `HandlerInv` and `RateInv`: where the handler stands, what it has read, and the two facts of the next row |
| `ReconnectProofs!RateKept` | `Spec => MessageRateKept` | `SearchInv`: a message noted and not overtaken was heard at the controller's rate, and once the rate was changed in a search, the rate to connect at is the controller's, except while the handler is about to change it; the note a handler has read still stands. The rate to connect at and the controller's are set by different statements, so neither property alone is inductive |
| `MessageObjectsProofs!SilentKept` | `Spec => []SilentUnlessFailed`, every table, types and number of objects | `IInv`: flags are objects of occupied positions that their type really has, so that switching off clears all of them; before the start every module is awake, so that the steps of adding cannot set a silent one's; the module being added is not counted yet, so that a change of type rebuilds only flags of occupied positions |
| `MessageObjectsProofs!TypeCorrect` | `Spec => []TypeOK`: objects stay within the controllers, the handlers' tables name objects in use | `OInv`: with `IInv`, that the fixed objects stay fixed and no data object of a module is one of them but the process request's (0, of an object a module does not have), and that the module being added is the last one. The object taken next is the least one free, a least-element argument |
| `MessageObjectsProofs!MaskLetsAllPass` | `Spec => []SystemReached` | `MaskInv`: the three objects of the masks let the number of every module they were computed for pass, before the start of all, after it of those counted; a new number computes all of them anew. A mask that lets a set of numbers pass lets each of them and the broadcast number pass (`NumberAccepted`, `BroadcastAccepted`) |
| `MessageObjectsProofs!ControlObjectKnown` | `Spec => []ControlReached` | `CtrlInv`: as long as no adding failed, the modules counted are the positions before the one being added, so that its control object is entered at its own place; nothing but a new number of the same module writes it again. `ListInv`: any object that takes the control frames of a number never given up is in the list, so that the first of them is; the objects of earlier numbers stay defined for ever, and their numbers are those in `left` |
| `MessageObjectsProofs!DataFramesRouted` | `SameObjects => (Spec => []DataRouted)` | `RoutedInv`: for each of the three tables of the handlers, an object that is looked up takes exactly one frame, of a place in the table that names that object, and every other object takes no data frame but of a half-added module. From it follows that no two places name the same object. It has to hold in the middle of adding, hence `RxDone` and `TxDone` |
| `AsyncTunnelProofs!TypeCorrect`, `LockDiscipline`, `LagIsForEver` | `Spec => []TypeOK`, `[]LockHeld`, `[]LagIsRefusals`, every queue length and object size | `IInv`: the three together and `ByteAtHand`, that a task about to store a byte still has one left of the bound. The lock and the number of bytes in the object hold each other: without `LockHeld` an object could be emptied or overfilled while putc waits |
| `AsyncTunnelProofs!StreamIsKept` | `Spec => []StreamKept`, every queue length, object size and number of refused sends | `StreamInv`: there is a cut of the bytes accepted into the run on the bus, one run for each object from the read index on, and the run in the object, and the write index is the queue's length behind the read index. A send moves the bus's run over the first object's, a refused one leaves it. That `Contents`, a recursive function, is the runs joined is shown by the least index at which a function with its equation would differ |
| `XloadProofs!TypeCorrect`, `IndicesKept` | `Spec => []TypeOK`, `[]IndicesAgree`, every size of ring, object, block, line and file | `IInv`: the types and `RingInv`, what the indices are outside a reset and at each statement of one that no handler came into. Adding, taking and removing bytes are each shown to keep a ring sound, for any number of bytes and across the wrap; programming whole lines is taking, trimming is removing |
| `XloadProofs!RoomKept` | `Spec => []RoomForBlock`, every size, any number of faults and of messages of B | `AckInv`, below, of which `Roomy` is the part that counts: the ring holds no more than what the last block left of a line and the objects sent since |
| `XloadProofs!AckedKept` | `Spec => []AckedIsProgrammed`, every size, any number of faults and of messages of B | `AckInv`, below |

`AlarmInv` says what a bus with at most one lost frame and no falsified one is
like (`Health`). Nothing but requests waits while a node has one to handle
(`Order`); that is where `Lag = 1` is used. The nodes' countings of requests
fit together (`Pairs`): without a loss they are equal or one node is about to
handle its request, after a lost one they may be apart by one for ever, or a
node counts two. What loops back is what was captured (`TxKept`). And the state
is one of four: the cycle is undisturbed, each frame of it either counted once
or still due on each node, and both nodes with the same contents (`Whole`); a
node has counted two requests, so that the next verdict is left out
(`Unpaired`); the loss has not been judged yet and every pre-counter is still
zero (`Unjudged`); or nothing was sent yet. A judgement is reached only in the
first, which leaves nothing to find, and in the third, where a pre-counter can
become 1 and no more. `Whole` is stated relative to `LastCycle`, because the
main node's handler may already have begun the next cycle when the monitor
node still has the request of this one to handle. TLC found `AlarmInv`
inductive on small instances before it was proved.

`FlagsInv` of `ModuleTable` speaks of every mask that is or may become the
register: `sendReg` and, while the application's call has loaded it, the copy
that it will store (`Masks`). In each, the flags are objects their modules have
(`AreObjects`, because switching off clears exactly those) of modules that are
awake (`AreAwake`), all flags of awake modules are there (`HoldsAwake`), and what the
call's loop has passed is done (`LoopDone`). The same two hold of the
copy the send loop works on, taken at the request. `StateTaken` ties the state
the call acts upon to the table's. Excepted from all of it are the modules a
message and a call are changing at once (`Disputed`, in the invariant as in the
properties); the point of the proof is that nothing of it reaches another module,
although the register is stored as a whole: a message changes the flags of its
module, which is disputed from then on if the call is at work on it or holds a
copy of the register, and every other flag is the same in the copy.

`AckInv` is `IInv` and, as long as no message of B was handled since A's master
began (`alone`), `MailInv` and `BootInv`. `MailInv` says for each place of the
master which answers may be on their way to it and what the slave holds then
(`Requesting`, `Starting`, `Sending`, `Ending`, `Complete`). The slave has no number
of a transfer and the answers have none either, so that a late answer to an earlier
attempt looks like one to this: what keeps them apart is that the master begins
only with a slave at rest (`Free`), or is patient, and that answers come in order. Within a
start, `Prepared` says what its statements have done by now; a message of A's master cannot
come in between, because it waits. Two things the slave can be doing while the
master believes an acknowledge: waiting for the block behind the first p bytes
(`Stocked(p)`: the lines of p are in the area, the rest of p is in the ring and
nothing is counted), or having got some of the block's objects (`InStep`). `InStep`
says what the ring holds only if none of them is missing; if one is, the number of
objects differs at the block's end, and the slave terminates. A part of the block
that is programmed all the same would be a byte too few or too many, hence both
parts of `InStep`, the count and the bytes, have to be in the invariant although the
property names neither. `BootInv` adds that the slave resets only for a master that
waits for the end's acknowledge. That a block's lines join the ones before is
arithmetic of `%` (`RestAdds`), that its bytes stand in the ring where the next
ones are read from is `AddedBytes` and `TakenBytes`.

Two theorems have a hypothesis. `Lag = 1` in `OneLossIsAbsorbed`: with 2 the
property fails without any fault, see section 3. `SameObjects` in
`DataFramesRouted`, every type's alternative has as many receive and transmit
objects as it has: without it the property does not hold, since a change of type
takes no message objects and gives none back (`io_can_config.c:1984-2064`,
section 3); the instance of `objects` satisfies it. No theorem depends on the bounds
`MaxDisturb`, `MaxFaults` and `MaxTries`, which may be any number.

Assumptions are the `ASSUME`s of the modules, which TLC evaluates: sizes
positive, `QUEUE_FULL` and `ERR_OK` distinct from the errors, counter width
above 2, a finite table of modules, a table with at least one rate and start-up
rates from it. Proofs about `%` are reduced to case distinctions by lemmas
(`NextSlotValue`, `WrappedSlot`, `RingAdvance`, `RingShift`, `Wrapped`, `Wrap`,
`Backwards`, `RestAdds`).

Only model-checked, and why:

- `Recovers`, `StartupEnds`, `FindsTraffic`, `PutcReturns`, `Flushed` and
  `Completes`: liveness under fairness is outside what the prover does.
- Nothing else: every invariant and every action property of a passing run is
  also a theorem.

## 5. Not modelled, and why

- The order of two handlers that are further apart than one frame (`Lag` above 1) in
  `NoFalseAlarm`: it fails there, see section 3.
- In `MessageObjects` every call is one step, as it is when the bus asks for it; the
  application's calls, cut at their accesses, are in `ModuleTable` only.
- In `Xload`: what B is answered, since nobody reads it; the bytes of an upload's
  object are fetched in one step; what the blocks of A's master become while B's
  messages come between them is in the model, but no property of it is stated.
- Failures of the driver's calls. `ModuleTable` assumes enough message objects, a
  type of its own per table position and one alternative type each;
  `MessageObjects` looks a module up by its position for the same reason.
- The two-processor build (`LI_CAN_SLV_MAIN_MON`), and, in `MessageObjects`, adding
  modules once the node is operational. The build is that of `verify/`, with the
  asynchronous channel.
- The time stamps of the supervision, diagnostic counters, application
  call-backs, logging, the analyzer: nothing in the models reads them.
- The build without the system error queue (one static error).
- The hardware adapter's and the monitor core's calls of the canpie driver,
  which is not part of this code; frames are inputs and outputs of the models.
- Reconnection: the monitor controller's share, the start with a pending
  download, the waiting time after a reconnection, a slave stopped by the
  application, the error code `NOT_DEFINED` (the adapter never reports it).
- System protocol other than the table's messages: node mode, baud rate, status
  and identification are single calls of the driver or of the application between
  a request and its answer. What a failing driver leaves behind is not in this
  code, and without it a property could only repeat the call.
- Tunnel: the terminal, bytes received for the application, flow control
  (XON/XOFF) and the login. putc's caller is assumed to run in the task.
- Block transfer: the upload's data, the version and information answers, the
  hexadecimal variants of the handles. Assumed of the application: it serves one
  transfer at a time, the newest request wins, and it programs whole lines. Assumed
  of the master: it is patient, that is, it times out only when the slave owes it
  nothing; one that begins again earlier can have the area it is told of erased
  under it. There is no spontaneous reset: one at the boundary of two blocks goes
  unnoticed by the stack, which takes data without a start.

## 6. Plan

Order: what runs in every cycle first, what runs once last.

1. done: `ErrorLog`, `ErrorQueue`, `ErrorQueueIrq`, `SyncImage`, `SyncBus`,
   `ModuleTable`, `MessageObjects`, `Reconnect`, `AsyncTunnel`, `Xload` and their proofs.
2. done: every invariant and action property of a run as a theorem; the
   refinement of `ErrorLog`; `SyncImage` on the bus.
3. Next: an abstract specification of a reliable download that `Xload` implements
   while it is `alone`; `AckInv` holds what its steps need.
