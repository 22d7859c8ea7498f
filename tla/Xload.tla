-------------------------------- MODULE Xload ---------------------------------
(***************************************************************************)
(* The block transfer.  A master downloads a file into the component of    *)
(* module A: start request in two messages, start acknowledge, blocks of   *)
(* data objects with a block end and a block acknowledge each, end and end *)
(* acknowledge; every failure is answered with a termination.  A message   *)
(* of module B may come at any place: a start, version or upload request,  *)
(* a data object, a block end or an end of somebody who knows nothing of   *)
(* A's transfer.                                                           *)
(*                                                                         *)
(* A message is handled where it arrives, in the receive interrupt.  The   *)
(* answers are not queued by the stack: one is lost when the driver        *)
(* refuses it, a message when the controller is overrun.  The task starts  *)
(* the download that was asked for and sends the blocks of an upload; the  *)
(* interrupt may come between any two of its statements, and during the    *)
(* application's handle, which erases a whole area.                        *)
(*                                                                         *)
(* A byte of the file is its position, a byte that only fills an object is *)
(* 0, half a component's name is the module it belongs to.                 *)
(***************************************************************************)
EXTENDS Integers, Sequences, FiniteSets, Functions

CONSTANTS
  A, B, NONE,   \* the two modules, and no name
  FRAME,        \* data bytes in an object: CAN_DLC_MAX - 1
  SIZE,         \* LI_CAN_SLV_XLOAD_BUFFER_SIZE_DLOAD
  MAX,          \* LI_CAN_SLV_XLOAD_MAX_BYTES_PER_BLOCK_HEX_DLOAD
  LINE,         \* the application programs whole lines of that many bytes
  FILE,         \* length of the file
  UPLOAD,       \* length of an upload's block
  MaxDisturb,   \* bound: messages of module B, a request of two counted once
  MaxFaults,    \* bound: lost messages and answers, failed handles
  MaxTries      \* bound: times A's master begins again, after a message of B,
                \* when the slave has something to do

Modules == {A, B}
FramesOf(len) == (len + FRAME - 1) \div FRAME
Least(x, y) == IF x < y THEN x ELSE y

ASSUME ModuleAssumption == A # B /\ NONE \notin Modules
ASSUME NumberAssumption ==
  /\ {FRAME, SIZE, MAX, LINE, FILE, UPLOAD} \subseteq Nat \ {0}
  /\ {MaxDisturb, MaxFaults, MaxTries} \subseteq Nat
ASSUME BufferAssumption == LINE - 1 + FRAME * FramesOf(MAX) <= SIZE
ASSUME FileAssumption == FILE % LINE = 0

VARIABLES
  xload,     \* xload_in_progress and xload_component: progress, name, module
  block,     \* dload_buffer.nr_of_can_objs and .bytes_cnt_of_block
  ring,      \* dload_buffer: data, read, write and nr_bytes
  app,       \* the application: what it was asked for, the area it programs,
             \* the areas, and how far it is with the object of an upload
  start,     \* li_can_slv_dload_start: its next statement, and the module that
             \* it read for its answer
  info,      \* xload_info, which outlives a reset: mode and module
  booting,   \* the slave is between a reset and its start
  host,      \* A's master: pc, bytes acknowledged, objects sent of the block
  mail,      \* answers to A's master, not yet read
  half,      \* B's request of two messages, of which one was sent
  disturbed, faults, tries, \* what was used of the bounds
  alone,     \* history: no message of B was handled since A's master began,
             \* at the earliest when the slave had nothing to do
  torn       \* history: a handler changed the ring within its last reset

slave == <<xload, block, ring, app, info>>
vars == <<slave, start, booting, host, mail, half, disturbed, faults, tries, alone, torn>>

File == [i \in 1..FILE |-> i]
NoName == <<NONE, NONE>>
NoBlock == [objs |-> 0, bytes |-> 0]
EmptyRing == [data |-> [i \in 0..SIZE - 1 |-> 0], read |-> 0, write |-> 0, nr |-> 0]
NoXload == [progress |-> "IDLE", name |-> NoName, module |-> NONE]
NoStart == [pc |-> "no", to |-> NONE]

Init ==
  /\ xload = NoXload /\ block = NoBlock /\ ring = EmptyRing
  /\ app = [asked |-> "no", area |-> NONE, areas |-> [m \in Modules |-> <<>>],
            uploading |-> "no"]
  /\ start = NoStart
  /\ info = [mode |-> "RUNNING", module |-> NONE]
  /\ booting = FALSE
  /\ host = [pc |-> "request1", pos |-> 0, sent |-> 0] /\ mail = <<>>
  /\ half = "no" /\ disturbed = 0 /\ faults = 0 /\ tries = 0 /\ alone = TRUE /\ torn = FALSE
-----------------------------------------------------------------------------
(* Answers, and what ends a transfer.                                      *)
Fault == faults < MaxFaults /\ faults' = faults + 1

Reply(m, answer) ==
  \/ m = A /\ mail' = Append(mail, answer) /\ UNCHANGED faults
  \/ m = A /\ Fault /\ UNCHANGED mail
  \/ m # A /\ UNCHANGED <<mail, faults>>

MutantCancelled(x) == [x EXCEPT !.name = NoName]

\* Also the download in progress of another module loses name and progress.
Cancelled(x) == [x EXCEPT !.progress = "IDLE", !.name = NoName]

Termination(m, x) ==
  /\ xload' = Cancelled(x)
  /\ Reply(m, "TERMINATION")

\* A handle of the application fails.
HandleFails(m) ==
  /\ Fault /\ xload' = Cancelled(xload)
  /\ mail' = IF m = A THEN Append(mail, "TERMINATION") ELSE mail

EndAckn(m) ==
  /\ xload' = Cancelled(xload) /\ Reply(m, "END_ACKN")
-----------------------------------------------------------------------------
(* The ring of bytes.                                                      *)
At(r, k) == (r.read + k) % SIZE

Added(r, bytes) ==
  LET n == Least(Len(bytes), SIZE - r.nr) IN
  [data  |-> [i \in 0..SIZE - 1 |->
                IF (i - r.write) % SIZE < n
                THEN bytes[((i - r.write) % SIZE) + 1] ELSE r.data[i]],
   read  |-> r.read,
   write |-> (r.write + n) % SIZE,
   nr    |-> r.nr + n]

MutantRemovedUnwrapped(r, n) ==
  IF r.nr < n THEN r ELSE [r EXCEPT !.nr = r.nr - n, !.write = r.write - n]

MutantRemovedUncounted(r, n) ==
  IF r.nr < n THEN r ELSE [r EXCEPT !.nr = r.nr - n]

Removed(r, n) ==
  IF r.nr < n THEN r
  ELSE [data  |-> r.data,
        read  |-> r.read,
        write |-> IF r.write >= n THEN r.write - n ELSE SIZE - n + r.write,
        nr    |-> r.nr - n]

Taken(r, n) ==
  [data |-> r.data, read |-> At(r, n), write |-> r.write, nr |-> r.nr - n]
-----------------------------------------------------------------------------
(* The handlers of the download, which take the messages of anybody.       *)
StartRequest1(m) ==
  /\ xload' = IF xload.progress = "IDLE" THEN [xload EXCEPT !.name = <<m, xload.name[2]>>]
              ELSE xload
  /\ UNCHANGED <<block, ring, app, info, mail, faults>>

\* The application knows the components whose names are whole.
StartRequest2(m) ==
  LET asked == [progress |-> "IN_PROGRESS", name |-> <<xload.name[1], m>>,
                module |-> m]
  IN /\ \/ /\ xload.progress = "IDLE" /\ asked.name = <<m, m>>
           /\ xload' = asked /\ app' = [app EXCEPT !.asked = "download"]
           /\ UNCHANGED <<mail, faults>>
        \/ /\ xload.progress = "IDLE" /\ asked.name # <<m, m>>
           /\ Termination(m, asked) /\ UNCHANGED app
        \/ /\ xload.progress = "IN_PROGRESS"
           /\ Termination(m, xload) /\ UNCHANGED app
     /\ UNCHANGED <<block, ring, info>>

\* Nobody asks whether a download is in progress.
Data(m, bytes) ==
  /\ ring' = Added(ring, bytes)
  /\ IF ring.nr + Len(bytes) <= SIZE
     THEN /\ block' = [objs |-> block.objs + 1, bytes |-> block.bytes + FRAME]
          /\ UNCHANGED <<xload, mail, faults>>
     ELSE Termination(m, xload) /\ UNCHANGED block
  /\ UNCHANGED <<app, info>>

\* The application's handle programs the lines that are whole.
Programmed(r) ==
  LET n == r.nr - (r.nr % LINE)
      bytes == [k \in 1..n |-> r.data[At(r, k - 1)]]
  IN /\ ring' = Taken(r, n)
     /\ app' = IF app.area = NONE THEN app
               ELSE [app EXCEPT !.areas[app.area] = @ \o bytes]

\* The bytes of the last object that only fill it (an unsigned difference: a
\* block shorter than the master says leaves the ring as it is).
Trimmed(len) ==
  IF block.bytes > len THEN Removed(ring, block.bytes - len) ELSE ring

MutantBlockEnd(m, len, objs) ==
  /\ Programmed(Trimmed(len))
  /\ Reply(m, "BLOCK_ACKN") /\ block' = NoBlock
  /\ UNCHANGED <<xload, info>>

BlockEnd(m, len, objs) ==
  /\ \/ /\ objs = block.objs /\ Programmed(Trimmed(len))
        /\ Reply(m, "BLOCK_ACKN") /\ block' = NoBlock
        /\ UNCHANGED xload
     \/ /\ objs # block.objs /\ Termination(m, xload)
        /\ UNCHANGED <<block, ring, app>>
  /\ UNCHANGED info

\* The handle fails, after the bytes that only filled were removed.
BlockEndFails(m, len, objs) ==
  /\ objs = block.objs /\ HandleFails(m)
  /\ ring' = Trimmed(len)
  /\ UNCHANGED <<block, app, info>>

\* The handle leaves the acknowledge to the stack, or notes that it is due
\* and has the slave reset.
End(m) ==
  \/ /\ EndAckn(m)
     /\ UNCHANGED <<info, booting, start, app, block, ring>>
  \/ HandleFails(m) /\ UNCHANGED <<info, booting, start, app, block, ring>>
  \/ /\ info' = [mode |-> "ACKN", module |-> xload.module] /\ booting' = TRUE
     /\ xload' = NoXload /\ block' = NoBlock /\ ring' = EmptyRing
     /\ app' = [app EXCEPT !.asked = "no", !.area = NONE, !.uploading = "no"]
     /\ start' = NoStart
     /\ UNCHANGED <<mail, faults>>
-----------------------------------------------------------------------------
(* The task.                                                               *)
Resetting == start.pc \in {"write", "nr"}
Goes(from, to) == start.pc = from /\ start' = [start EXCEPT !.pc = to]
TaskOnly == UNCHANGED <<info, booting, host, half, disturbed, tries, alone>>

\* li_can_slv_dload_start with the component of the request.
StartBegin ==
  /\ app.asked = "download" /\ app.uploading = "no" /\ ~booting
  /\ Goes("no", "handle")
  /\ app' = [app EXCEPT !.asked = "no"]
  /\ xload' = [xload EXCEPT !.progress = "IN_PROGRESS"]
  /\ UNCHANGED <<block, ring, mail, faults, torn>>

\* The application's handle takes the module that the component has by now.
StartHandle ==
  /\ xload.module # NONE /\ Goes("handle", "returned")
  /\ app' = [app EXCEPT !.area = xload.module, !.areas[xload.module] = <<>>]
  /\ UNCHANGED <<xload, block, ring, mail, faults, torn>>

\* Back from the handle the module is read again, for the answer.
StartReturns ==
  /\ start.pc = "returned"
  /\ \/ start' = [pc |-> "objs", to |-> xload.module] /\ UNCHANGED faults
     \/ start' = [pc |-> "name", to |-> xload.module] /\ Fault
  /\ UNCHANGED <<xload, block, ring, app, mail, torn>>

MutantStartAckn ==
  /\ \/ /\ Goes("objs", "bytes") /\ block' = [block EXCEPT !.objs = 0]
        /\ UNCHANGED <<ring, mail, faults, torn>>
     \/ /\ Goes("bytes", "ackn") /\ block' = [block EXCEPT !.bytes = 0]
        /\ UNCHANGED <<ring, mail, faults, torn>>
     \/ /\ Goes("ackn", "no") /\ Reply(start.to, "START_ACKN")
        /\ UNCHANGED <<block, ring, torn>>
  /\ UNCHANGED <<xload, app>>

\* li_can_slv_dload_start_ackn, a statement at a time.
StartAckn ==
  /\ \/ /\ Goes("objs", "bytes") /\ block' = [block EXCEPT !.objs = 0]
        /\ UNCHANGED <<ring, mail, faults, torn>>
     \/ /\ Goes("bytes", "read") /\ block' = [block EXCEPT !.bytes = 0]
        /\ UNCHANGED <<ring, mail, faults, torn>>
     \/ /\ Goes("read", "write") /\ ring' = [ring EXCEPT !.read = 0] /\ torn' = FALSE
        /\ UNCHANGED <<block, mail, faults>>
     \/ /\ Goes("write", "nr") /\ ring' = [ring EXCEPT !.write = 0]
        /\ UNCHANGED <<block, mail, faults, torn>>
     \/ /\ Goes("nr", "ackn") /\ ring' = [ring EXCEPT !.nr = 0]
        /\ UNCHANGED <<block, mail, faults, torn>>
     \/ /\ Goes("ackn", "no") /\ Reply(start.to, "START_ACKN")
        /\ UNCHANGED <<block, ring, torn>>
  /\ UNCHANGED <<xload, app>>

\* The task's termination, likewise.
StartFails ==
  /\ \/ /\ Goes("name", "terminate") /\ xload' = [xload EXCEPT !.name = NoName]
        /\ UNCHANGED <<mail, faults>>
     \/ /\ Goes("terminate", "idle") /\ Reply(start.to, "TERMINATION")
        /\ UNCHANGED xload
     \/ /\ Goes("idle", "no") /\ xload' = [xload EXCEPT !.progress = "IDLE"]
        /\ UNCHANGED <<mail, faults>>
  /\ UNCHANGED <<block, ring, app, torn>>

Start ==
  /\ StartBegin \/ StartHandle \/ StartReturns \/ StartAckn \/ StartFails
  /\ TaskOnly

\* li_can_slv_uload_data_from_buffer: an object is filled, then sent, after a
\* pause and as often as the queue is full, and counted.
UploadBegin ==
  /\ app.asked = "upload" /\ app.uploading = "no" /\ start.pc = "no" /\ ~booting
  /\ app' = [app EXCEPT !.asked = "no", !.uploading = "fill"]
  /\ block' = [block EXCEPT !.objs = 0]
  /\ UNCHANGED faults

UploadFill ==
  /\ app.uploading = "fill" /\ app' = [app EXCEPT !.uploading = "send"]
  /\ block' = IF block.bytes < UPLOAD
              THEN [block EXCEPT !.bytes = Least(block.bytes + FRAME, UPLOAD)]
              ELSE block
  /\ UNCHANGED faults

UploadSend ==
  /\ app.uploading = "send"
  /\ \/ /\ block' = [block EXCEPT !.objs = block.objs + 1]
        /\ app' = [app EXCEPT !.uploading = IF block.bytes < UPLOAD THEN "fill" ELSE "end"]
        /\ UNCHANGED faults
     \/ Fault /\ app' = [app EXCEPT !.uploading = "no"] /\ UNCHANGED block

UploadBlockEnd ==
  /\ app.uploading = "end" /\ app' = [app EXCEPT !.uploading = "no"]
  /\ UNCHANGED <<block, faults>>

Upload ==
  /\ UploadBegin \/ UploadFill \/ UploadSend \/ UploadBlockEnd
  /\ TaskOnly /\ UNCHANGED <<xload, ring, start, mail, torn>>

\* lcsa_start after the reset: a reset between the acknowledge and the change
\* of the mode has it sent again.
Boot ==
  /\ booting /\ xload' = [Cancelled(xload) EXCEPT !.module = info.module]
  /\ \/ Reply(info.module, "END_ACKN")
        /\ booting' = FALSE /\ info' = [info EXCEPT !.mode = "RUNNING"]
     \/ /\ Fault /\ mail' = IF info.module = A THEN Append(mail, "END_ACKN") ELSE mail
        /\ UNCHANGED <<booting, info>>
  /\ UNCHANGED <<block, ring, app, start, host, half, disturbed, tries, alone, torn>>

Task == Start \/ Upload \/ Boot
-----------------------------------------------------------------------------
(* Messages of module B.                                                   *)
\* A version request the application cannot answer.
VersionRequestFails ==
  /\ Termination(B, xload) /\ UNCHANGED <<block, ring, app, info>>

\* An upload information request writes the component, then clears its name.
InfoRequest ==
  LET asked == [xload EXCEPT !.name = NoName, !.module = B]
  IN /\ \/ xload' = asked /\ UNCHANGED <<mail, faults>>
        \/ Termination(B, asked)
     /\ UNCHANGED <<block, ring, app, info>>

UploadStartRequest1 ==
  /\ block' = NoBlock
  /\ xload' = [xload EXCEPT !.module = B,
                 !.name = IF xload.progress = "IDLE" THEN <<B, xload.name[2]>> ELSE @]
  /\ UNCHANGED <<ring, app, info, mail, faults>>

UploadStartRequest2 ==
  LET asked == [progress |-> "IN_PROGRESS", name |-> <<xload.name[1], B>>,
                module |-> B]
  IN /\ \/ /\ xload.progress = "IDLE" /\ asked.name = <<B, B>>
           /\ xload' = asked /\ app' = [app EXCEPT !.asked = "upload"]
           /\ UNCHANGED <<mail, faults>>
        \/ /\ xload.progress = "IDLE" /\ asked.name # <<B, B>>
           /\ Termination(B, asked) /\ UNCHANGED app
        \/ /\ xload.progress = "IN_PROGRESS"
           /\ Termination(B, xload) /\ UNCHANGED app
     /\ UNCHANGED <<block, ring, info>>

\* End acknowledge and termination of an upload, whoever's it is.
UploadEnds ==
  /\ xload' = [xload EXCEPT !.progress = "IDLE"]
  /\ UNCHANGED <<block, ring, app, info, mail, faults>>

\* B's own blocks, of which nobody asks whether they were asked for.
BlockOfB ==
  \/ Data(B, [k \in 1..FRAME |-> 0])
  \/ \E len \in 1..MAX : \/ BlockEnd(B, len, FramesOf(len))
                        \/ BlockEndFails(B, len, FramesOf(len))

\* A handler of the interrupt comes within the reset of the ring.
Handled == torn' = (torn \/ (Resetting /\ ring' # ring))
Running == UNCHANGED <<booting, start>>

\* A message of its own, or the first of two.
FirstOfB ==
  \/ (VersionRequestFails \/ InfoRequest \/ UploadEnds) /\ half' = "no" /\ Running
  \/ StartRequest1(B) /\ half' = "download" /\ Running
  \/ UploadStartRequest1 /\ half' = "upload" /\ Running
  \/ BlockOfB /\ UNCHANGED half /\ Running
  \/ End(B) /\ half' = "no"

SecondOfB ==
  /\ half' = "no" /\ Running
  /\ \/ half = "download" /\ StartRequest2(B)
     \/ half = "upload" /\ UploadStartRequest2

Disturb ==
  /\ ~booting /\ alone' = FALSE
  /\ \/ disturbed < MaxDisturb /\ disturbed' = disturbed + 1 /\ FirstOfB
     \/ UNCHANGED disturbed /\ SecondOfB
  /\ Handled /\ UNCHANGED <<host, tries>>
-----------------------------------------------------------------------------
(* A's master.                                                             *)
BlockLen == Least(MAX, FILE - host.pos)

Object ==
  [k \in 1..FRAME |->
     LET i == host.sent * FRAME + k IN IF i <= BlockLen THEN host.pos + i ELSE 0]

\* The slave handles the message, or does not see it.
Unseen == (booting /\ UNCHANGED faults) \/ (~booting /\ Fault)
Sends(pc, sent) ==
  /\ host' = [host EXCEPT !.pc = pc, !.sent = sent]
  /\ UNCHANGED <<half, disturbed>>
NotDelivered == Unseen /\ UNCHANGED <<slave, mail>> /\ Running
Resting ==
  /\ app.asked = "no" /\ app.uploading = "no" /\ start.pc = "no" /\ ~booting
  /\ mail = <<>>

SendRequest1 ==
  /\ host.pc = "request1" /\ Sends("request2", 0)
  /\ \/ (alone \/ Resting) /\ alone' = TRUE /\ UNCHANGED tries
     \/ ~alone /\ ~Resting /\ tries < MaxTries /\ tries' = tries + 1 /\ UNCHANGED alone
  /\ \/ ~booting /\ StartRequest1(A) /\ Running
     \/ NotDelivered

SendRequest2 ==
  /\ host.pc = "request2" /\ Sends("start", 0) /\ UNCHANGED <<tries, alone>>
  /\ \/ ~booting /\ StartRequest2(A) /\ Running
     \/ NotDelivered

SendData ==
  /\ host.pc = "data" /\ host.sent < FramesOf(BlockLen)
  /\ Sends("data", host.sent + 1) /\ UNCHANGED <<tries, alone>>
  /\ \/ ~booting /\ Data(A, Object) /\ Running
     \/ NotDelivered

SendBlockEnd ==
  /\ host.pc = "data" /\ host.sent = FramesOf(BlockLen)
  /\ Sends("block", host.sent) /\ UNCHANGED <<tries, alone>>
  /\ \/ /\ ~booting /\ Running
        /\ \/ BlockEnd(A, BlockLen, host.sent)
           \/ BlockEndFails(A, BlockLen, host.sent)
     \/ NotDelivered

SendEnd ==
  /\ host.pc = "end" /\ Sends("ended", 0) /\ UNCHANGED <<tries, alone>>
  /\ \/ ~booting /\ End(A)
     \/ NotDelivered

\* An answer the master does not wait for is passed over; a termination, or
\* none in time, has it begin again.
ReadAnswer ==
  /\ mail # <<>> /\ mail' = Tail(mail)
  /\ host' =
       CASE Head(mail) = "TERMINATION" /\ host.pc # "done" ->
              [pc |-> "request1", pos |-> 0, sent |-> 0]
         [] Head(mail) = "START_ACKN" /\ host.pc = "start" ->
              [pc |-> "data", pos |-> 0, sent |-> 0]
         [] Head(mail) = "BLOCK_ACKN" /\ host.pc = "block" ->
              [pc |-> IF host.pos + BlockLen = FILE THEN "end" ELSE "data",
               pos |-> host.pos + BlockLen, sent |-> 0]
         [] Head(mail) = "END_ACKN" /\ host.pc = "ended" ->
              [host EXCEPT !.pc = "done"]
         [] OTHER -> host
  /\ UNCHANGED <<slave, start, booting, half, disturbed, faults, tries, alone, torn>>

\* The master is patient: the slave owes it nothing any more.
Timeout ==
  /\ host.pc \in {"start", "block", "ended"} /\ mail = <<>>
  /\ app.asked # "download" /\ start.pc = "no" /\ ~booting
  /\ host' = [pc |-> "request1", pos |-> 0, sent |-> 0]
  /\ UNCHANGED <<slave, start, booting, mail, half, disturbed, faults, tries, alone, torn>>

Master ==
  \/ /\ SendRequest1 \/ SendRequest2 \/ SendData \/ SendBlockEnd \/ SendEnd
     /\ Handled
  \/ ReadAnswer \/ Timeout
-----------------------------------------------------------------------------
Next == Task \/ Disturb \/ Master

Spec == Init /\ [][Next]_vars
FairSpec == Spec /\ WF_vars(Task) /\ WF_vars(Master)
-----------------------------------------------------------------------------
Answers == {"START_ACKN", "BLOCK_ACKN", "END_ACKN", "TERMINATION"}

Names == Modules \cup {NONE}

XloadType == [progress : {"IDLE", "IN_PROGRESS"}, name : Names \X Names, module : Names]
BlockType == [objs : Nat, bytes : Nat]
RingType  == [data : [0..SIZE - 1 -> 0..FILE], read : 0..SIZE - 1,
              write : 0..SIZE - 1, nr : 0..SIZE]
AppType   == [asked : {"no", "download", "upload"}, area : Names,
              areas : [Modules -> Seq(0..FILE)], uploading : {"no", "fill", "send", "end"}]
StartType == [pc : {"no", "handle", "returned", "objs", "bytes", "read", "write", "nr",
                    "ackn", "name", "terminate", "idle"}, to : Names]
InfoType  == [mode : {"RUNNING", "ACKN"}, module : Names]
HostType  == [pc : {"request1", "request2", "start", "data", "block", "end", "ended", "done"},
              pos : 0..FILE, sent : Nat]

TypeOK ==
  /\ xload \in XloadType /\ block \in BlockType /\ ring \in RingType
  /\ app \in AppType /\ info \in InfoType /\ booting \in BOOLEAN
  /\ host \in HostType /\ mail \in Seq(Answers) /\ start \in StartType

\* li_can_slv_xload_buffer.c:81-134 and 350-370: adding, taking and removing
\* bytes at the end, whatever aborts them, leave the ring's indices as far
\* apart as it holds bytes; so does the reset at the start (li_can_slv_xload.c:
\* 169-171), once it is through, unless a handler came between its statements.
IndicesAgree == ~Resetting /\ ~torn => ring.write = At(ring, ring.nr)

\* A block the master was told it may send fits behind the bytes that the
\* application left of the last one: no download fails for lack of room,
\* whatever came before it, when no other module sends in between.
RoomForBlock ==
  alone /\ host.pc = "data" =>
    ring.nr + (FramesOf(BlockLen) - host.sent) * FRAME <= SIZE

\* With messages and answers lost and handles that fail, what the master holds
\* acknowledged is programmed, each byte once and in order, up to the last
\* whole line (no termination is on its way to the master): after anything
\* that another module did before the master began, and as long as it is
\* silent from then on.  In particular the file is whole when the master is
\* done.
AckedIsProgrammed ==
  /\ alone
  /\ host.pc \in {"data", "end", "ended", "done"} /\ "TERMINATION" \notin Range(mail)
  => app.areas[A] = SubSeq(File, 1, host.pos - (host.pos % LINE))

\* A master that begins again after a termination or for want of an answer
\* is done in the end, once messages are no more lost and it began when the
\* slave had nothing to do for another.
Completes == <>[]alone => <>(host.pc = "done")
=============================================================================
