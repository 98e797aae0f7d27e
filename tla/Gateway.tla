------------------------------ MODULE Gateway -------------------------------
(***************************************************************************)
(* The gateway (service.py, rfid_reader.py, serial_port.py) and the reader *)
(* board at the other end of the line (board_simulator.py).  Commands go   *)
(* to the board, its frames come back as a stream of bytes that is read in *)
(* pieces of any size, cut into frames and handed to on_event tag by tag.  *)
(*                                                                         *)
(* poll_tags runs in a thread, so the board, the line and the service may  *)
(* act between any two of its reads.                                       *)
(***************************************************************************)
EXTENDS RfFrames

CONSTANTS
    Address,            \* RFID_DEVICE_ADDRESS
    AutoStart,          \* RFID_AUTO_START_INVENTORY
    StartInventory,     \* CMD_START_INVENTORY
    StopInventory,      \* CMD_STOP_INVENTORY
    Held,               \* the tags in the field, a sequence
    ChunkSize,          \* READ_CHUNK_SIZE
    Noise,              \* the values a disturbed byte may take
    Faults,             \* what may go wrong ...
    MaxFaults,          \* bound: ... and how often
    MaxFrames,          \* bound: tag frames per connection
    MaxStarts           \* bound: how often the service is started

\* "open": the port cannot be opened; "write": a command cannot be written;
\* "read": a read raises; "event": on_event raises; "line": a byte is added to
\* the stream or comes out changed; "kill": the program ends without stop().
FaultKinds == {"open", "write", "read", "event", "line", "kill"}

\* What a signed byte can say.
Strengths == -(ByteRange \div 2)..(ByteRange - 1) \div 2

ASSUME GatewayAssumption ==
    /\ Address \in Nat /\ AutoStart \in BOOLEAN
    /\ {StartInventory, StopInventory} \cup Noise \subseteq Bytes
    /\ StartInventory # StopInventory
    /\ Held \in Seq([epc : Seq(Bytes), rssi : Strengths])
    \* A length is one byte: the code raises on a longer EPC.
    /\ \A i \in DOMAIN Held : Len(Held[i].epc) + 5 < ByteRange
    /\ ChunkSize \in Nat \ {0}
    /\ Faults \subseteq FaultKinds
    /\ MaxFaults \in Nat /\ MaxFrames \in Nat /\ MaxStarts \in Nat

VARIABLES
    running,            \* GatewayService._running
    connected,          \* GatewayService._connected
    loop,               \* what the task of _loop is doing
    inHand,             \* tags parsed by the last poll and not yet handed over
    portOpen,           \* SerialPort.is_open
    buffer,             \* FrameBuffer._buffer
    wire,               \* bytes that wait in the port's input buffer
    active,             \* the board reports the tags in its field
    commands,           \* commands under way to the board
    reported,           \* tags on_event was called with, in this connection
    starts, faults,
    stream,             \* history: all bytes of this connection
    sent                \* history: where in it each frame was written

serviceVars == <<running, connected, loop, inHand>>
historyVars == <<stream, sent>>
gatewayVars == <<serviceVars, portOpen, buffer, wire, active, commands,
                 reported, starts, faults, historyVars>>

LoopStates == {"none", "idle", "polling", "handing", "dead"}

\* Every tag that is handed over has an EPC of bytes and a strength that a
\* signed byte can have, whatever noise arrived; the buffer holds bytes only.
GatewayTypeOK ==
    LET IsTag(t) ==
            t.epc \in Seq(Bytes) /\ t.rssi \in Strengths \cup {NoRssi}
    IN
    /\ running \in BOOLEAN /\ connected \in BOOLEAN /\ portOpen \in BOOLEAN
    /\ loop \in LoopStates
    /\ \A i \in DOMAIN inHand : IsTag(inHand[i])
    /\ \A i \in DOMAIN reported : IsTag(reported[i])
    /\ buffer \in Seq(Bytes) /\ wire \in Seq(Bytes)
    /\ active \in BOOLEAN
    /\ commands \in Seq({StartInventory, StopInventory})
    /\ starts \in 0..MaxStarts /\ faults \in 0..MaxFaults

GatewayInit ==
    /\ running = FALSE /\ connected = FALSE
    /\ loop = "none"
    /\ inHand = <<>>
    /\ portOpen = FALSE
    /\ buffer = <<>> /\ wire = <<>>
    /\ active \in BOOLEAN
    /\ commands = <<>>
    /\ reported = <<>>
    /\ starts = 0 /\ faults = 0
    /\ stream = <<>> /\ sent = <<>>

Fault(kind) ==
    /\ kind \in Faults
    /\ faults < MaxFaults
    /\ faults' = faults + 1

-----------------------------------------------------------------------------
(* The board and the line.                                                 *)

\* Frames are written to the line; without an open port they are lost.
Put(frames) ==
    LET At(i) == Len(stream) + 1
                   + Len(FlattenSeq(SubSeq(frames, 1, i - 1)))
    IN
    IF portOpen
    THEN /\ wire' = wire \o FlattenSeq(frames)
         /\ stream' = stream \o FlattenSeq(frames)
         /\ sent' = sent \o [i \in DOMAIN frames |->
                              [at |-> At(i), frame |-> frames[i]]]
    ELSE UNCHANGED <<wire, historyVars>>

HeldFrames == [i \in DOMAIN Held |->
                  TagNotification(Address, Held[i], TagUpload)]

\* handle_command: the board answers, and reports its tags when it starts.
HandleCommand ==
    LET code == Head(commands) IN
    /\ commands # <<>>
    /\ commands' = Tail(commands)
    /\ active' = (code = StartInventory)
    /\ Len(sent) < MaxFrames
    /\ Put(<<SuccessResponse(Address, code)>>
             \o (IF code = StartInventory THEN HeldFrames ELSE <<>>))
    /\ UNCHANGED <<serviceVars, portOpen, buffer, reported, starts, faults>>

\* tick: an active board reports every tag in its field.
BoardTick ==
    /\ active /\ portOpen
    /\ Len(sent) < MaxFrames
    /\ Put(HeldFrames)
    /\ UNCHANGED <<serviceVars, portOpen, buffer, active, commands, reported,
                   starts, faults>>

\* A byte too many between two frames.
Disturb ==
    /\ portOpen
    /\ Fault("line")
    /\ \E b \in Noise :
         /\ wire' = Append(wire, b)
         /\ stream' = Append(stream, b)
    /\ UNCHANGED <<serviceVars, portOpen, buffer, active, commands, reported,
                   starts, sent>>

\* One of the waiting bytes is not the one that was sent.
Garble ==
    /\ Fault("line")
    /\ \E i \in DOMAIN wire, b \in Noise :
         /\ b # wire[i]
         /\ wire' = [wire EXCEPT ![i] = b]
         /\ stream' = [stream EXCEPT ![Len(stream) - Len(wire) + i] = b]
    /\ UNCHANGED <<serviceVars, portOpen, buffer, active, commands, reported,
                   starts, sent>>

-----------------------------------------------------------------------------
(* The service.                                                            *)

OpenFails ==
    /\ ~portOpen
    /\ Fault("open")
    /\ connected' = FALSE
    /\ UNCHANGED <<portOpen, buffer, wire, commands, reported, historyVars>>

\* SerialPort.open: the input is discarded, the end of a frame that is being
\* sent is not.
FreshLine ==
    /\ ~portOpen
    /\ \E end \in {<<>>} \cup
                   {Tail(HeldFrames[i]) : i \in IF active THEN DOMAIN Held ELSE {}} :
         wire' = end /\ stream' = end
    /\ sent' = <<>>

\* A port that is open already (a stop that raised left it so) is used as it is,
\* with the bytes that wait in it; in the history, the connection begins with
\* them and with the frames that none of them is missing of.
SameLine ==
    LET read == Len(stream) - Len(wire)
        gone == Max({0} \cup {i \in DOMAIN sent : sent[i].at <= read})
    IN
    /\ portOpen
    /\ stream' = wire
    /\ sent' = [i \in 1..Len(sent) - gone |->
                   [sent[i + gone] EXCEPT !.at = @ - read]]
    /\ UNCHANGED wire

\* RfidReader.connect, with an empty buffer; a start command that cannot be
\* written is an error, and leaves the port open.
Connects ==
    /\ FreshLine \/ SameLine
    /\ portOpen' = TRUE
    /\ buffer' = <<>>
    /\ reported' = <<>>
    /\ \/ /\ commands' = IF AutoStart THEN Append(commands, StartInventory)
                         ELSE commands
          /\ connected' = TRUE
          /\ UNCHANGED faults
       \/ /\ AutoStart /\ Fault("write")
          /\ connected' = FALSE
          /\ UNCHANGED commands

\* start: the task runs whether the port could be opened or not.
Start ==
    /\ ~running
    /\ starts < MaxStarts
    /\ starts' = starts + 1
    /\ running' = TRUE
    /\ loop' = "idle"
    /\ inHand' = <<>>
    /\ OpenFails \/ Connects
    /\ UNCHANGED active

PollBegins ==
    /\ loop = "idle" /\ portOpen
    /\ loop' = "polling"
    /\ UNCHANGED <<running, connected, inHand, portOpen, buffer, wire, active,
                   commands, reported, starts, faults, historyVars>>

\* FrameBuffer.feed, its tags added to those of the poll.
Feed(bytes) ==
    LET drained == Drain(buffer \o bytes) IN
    /\ buffer' = drained.rest
    /\ inHand' = inHand \o drained.tags

\* One pass of the loop in poll_tags.
ReadChunk ==
    /\ loop = "polling" /\ wire # <<>>
    /\ \E n \in 1..Min({ChunkSize, Len(wire)}) :
         /\ Feed(SubSeq(wire, 1, n))
         /\ wire' = SubSeq(wire, n + 1, Len(wire))
    /\ UNCHANGED <<running, connected, loop, portOpen, active, commands,
                   reported, starts, faults, historyVars>>

\* What the loop does with the result of a poll.
AfterPoll == loop' = IF inHand = <<>> THEN "idle" ELSE "handing"

\* Nothing waits any more, or a read raised: the tags parsed so far are kept.
PollEnds ==
    /\ loop = "polling"
    /\ \/ wire = <<>> /\ UNCHANGED faults
       \/ Fault("read")
    /\ AfterPoll
    /\ UNCHANGED <<running, connected, inHand, portOpen, buffer, wire, active,
                   commands, reported, starts, historyVars>>

HandOver ==
    /\ loop = "handing"
    /\ reported' = Append(reported, Head(inHand))
    /\ inHand' = Tail(inHand)
    /\ loop' = IF Tail(inHand) = <<>> THEN "idle" ELSE "handing"
    /\ UNCHANGED <<running, connected, portOpen, buffer, wire, active,
                   commands, starts, faults, historyVars>>

\* on_event raises: the task is over, and nothing notices.
EventFails ==
    /\ loop = "handing"
    /\ Fault("event")
    /\ loop' = "dead"
    /\ inHand' = <<>>
    /\ UNCHANGED <<running, connected, portOpen, buffer, wire, active,
                   commands, reported, starts, historyVars>>

\* disconnect: an inventory that was started is stopped, if that can be said.
Disconnect ==
    /\ portOpen' = FALSE
    /\ wire' = <<>>
    /\ \/ /\ commands' = IF portOpen /\ AutoStart
                         THEN Append(commands, StopInventory) ELSE commands
          /\ UNCHANGED faults
       \/ /\ portOpen /\ AutoStart /\ Fault("write")
          /\ UNCHANGED commands

\* stop: the task is cancelled, wherever it is; a dead one raises its exception
\* here, before the port is closed.
Stop ==
    /\ running
    /\ running' = FALSE
    /\ IF loop = "dead"
       THEN UNCHANGED <<connected, loop, inHand, portOpen, wire, commands,
                        faults>>
       ELSE /\ loop' = "none"
            /\ connected' = FALSE
            /\ inHand' = <<>>
            /\ Disconnect
    /\ UNCHANGED <<buffer, active, reported, starts, historyVars>>

\* The program is gone, and with it the open port.
Exit ==
    /\ \/ ~running /\ portOpen /\ UNCHANGED faults
       \/ running /\ Fault("kill")
    /\ running' = FALSE /\ connected' = FALSE
    /\ loop' = "none"
    /\ inHand' = <<>>
    /\ portOpen' = FALSE
    /\ wire' = <<>>
    /\ UNCHANGED <<buffer, active, commands, reported, starts, historyVars>>

-----------------------------------------------------------------------------

GatewayNext ==
    \/ HandleCommand \/ BoardTick \/ Disturb \/ Garble
    \/ Start \/ Stop \/ Exit
    \/ PollBegins \/ ReadChunk \/ PollEnds
    \/ HandOver \/ EventFails

GatewaySpec == GatewayInit /\ [][GatewayNext]_gatewayVars

-----------------------------------------------------------------------------
(* What the stream contains, frame by frame.                               *)

Arrived(i) ==
    SubSeq(stream, sent[i].at, sent[i].at + Len(sent[i].frame) - 1)

Intact(i) == Arrived(i) = sent[i].frame

\* A header claims the bytes of its frame; the fixed part is waited for.
ClaimedTo(p) ==
    p + (IF p + FixedHeaderLen - 1 <= Len(stream)
         THEN FrameLenAt(stream, p) - 1 ELSE FixedHeaderLen)

\* The headers that begin a frame: all but those in bytes that are claimed.
Beginnings ==
    LET headers == HeadersFrom(stream, 1)
        Begins[p \in headers] ==
            \A q \in headers : q < p /\ Begins[q] => ClaimedTo(q) < p
    IN  {p \in headers : Begins[p]}

\* It starts no frame that was sent, or one whose length field arrived changed.
Misleads(p) ==
    \A i \in DOMAIN sent :
        sent[i].at = p =>
            SubSeq(Arrived(i), 7, 8) # SubSeq(sent[i].frame, 7, 8)

Swallowed(i) ==
    \E p \in Beginnings :
        /\ p < sent[i].at /\ sent[i].at <= ClaimedTo(p)
        /\ Misleads(p)

\* By chance, the checksum fits a frame that nobody sent like that.
Coincidence ==
    \E p \in Beginnings :
        /\ ClaimedTo(p) <= Len(stream)
        /\ FrameOK(SubSeq(stream, p, ClaimedTo(p)))
        /\ \A i \in DOMAIN sent : sent[i].at = p => ~Intact(i)

\* The tags of the frames that arrived as they were sent.
Expected ==
    FlattenSeq([i \in DOMAIN sent |->
        IF Intact(i) /\ ~Swallowed(i) THEN TagsOfFrame(sent[i].frame)
        ELSE <<>>])

Reading == running /\ portOpen /\ loop # "dead"

-----------------------------------------------------------------------------

\* docs/DEMO_PPT.md (frames in pieces): wherever the stream is cut, the tags
\* reported, those in hand and those still to be parsed are the tags that were
\* sent, in that order, each once.  A disturbed byte costs at most the frame it
\* is in and, in a length field, those that begin inside the length it claims.
TagsAsSent ==
    Reading /\ ~Coincidence =>
        reported \o inHand \o Drain(buffer \o wire).tags = Expected

\* Between two reads the buffer never holds a frame that could be reported,
\* nor more than one frame may be long.
BufferHoldsOneFrame ==
    /\ Drain(buffer) = [tags |-> <<>>, rest |-> buffer]
    /\ Len(buffer) > FixedHeaderLen => Len(buffer) < FrameLenAt(buffer, 1)
=============================================================================
