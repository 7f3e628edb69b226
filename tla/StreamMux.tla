----------------------------- MODULE StreamMux -----------------------------
(***************************************************************************)
(* One ShellPort connection: the browser's stream multiplexer              *)
(* (ui/stream/streams.js, stream.js), the backend's Handler and stream     *)
(* slots (application/command/handler.go, streams.go, fsm.go) and, as the  *)
(* FSMMachine of every slot, the Telnet command with its "remote"          *)
(* goroutine (application/commands/telnet.go, ui/commands/telnet.js).      *)
(* The two directions of the web socket are FIFO queues of frames.         *)
(***************************************************************************)
EXTENDS Naturals, Sequences, FiniteSets

CONSTANTS
  NumSlots,   \* stream slots of a connection (64 in the code)
  MaxRuns,    \* bound: stream requests made by the client
  MaxOut,     \* bound: hook-output and in-band frames written by the remotes
  MaxInput,   \* bound: sendData calls of the user interface
  MaxSegs,    \* bound: segments one sendData call is cut into
  MaxPause,   \* bound: pause requests
  MaxJunk     \* bound: frames the backend reads out of lost frame boundaries

ASSUME BoundsAssumption ==
  /\ NumSlots \in Nat \ {0}  /\ MaxSegs \in Nat \ {0}
  /\ MaxRuns \in Nat /\ MaxOut \in Nat /\ MaxInput \in Nat /\ MaxPause \in Nat
  /\ MaxJunk \in Nat

Slots == 0 .. NumSlots - 1

VARIABLES
  \* the browser
  cst,          \* "serving", "stopped" (cleared), "desync" (lost frame boundaries)
  cl,           \* Stream and Sender object of every slot
  segs,         \* the sendData loop that is between two segments
  \* the web socket
  c2s, s2c,     \* frames under way in the two directions
  link,         \* FALSE once the socket is closed
  \* the Handler goroutine
  h,            \* where it is: [at, slot, then]
  senderPaused, \* Handler.senderPaused
  needWait,     \* handlerSender.needWait
  herr,         \* why Handle returned
  \* the slots and their commands
  srv,          \* "empty" (f.s = nil), "open", "closed" (stream.closed)
  rem,          \* the remote goroutine
  conn,         \* remoteChan/remoteConn: "none", "queued", "taken"
  connClosed,   \* net.Conn closed by the backend
  \* bookkeeping
  used,         \* how much of each bound is spent
  overtaken,    \* history: a frame overtook its slot's initial response
  lateSeg,      \* history: a segment was sent after its Sender closed
  misread       \* history: data was read as a request, in "whole" or in "part"

clientVars  == <<cst, cl, segs>>
wireVars    == <<c2s, s2c, link>>
handlerVars == <<h, senderPaused, needWait, herr>>
slotVars    == <<srv, rem, conn, connClosed>>
bookVars    == <<used, overtaken, lateSeg, misread>>
vars == <<clientVars, wireVars, handlerVars, slotVars, bookVars>>

Idle == [active |-> FALSE, initing |-> FALSE, shut |-> FALSE,
         connected |-> FALSE, sclosed |-> FALSE]

Stream(s, b) == [type |-> "Stream", slot |-> s, body |-> b]
Close(s)     == [type |-> "Close", slot |-> s, body |-> "none"]
Completed(s) == [type |-> "Completed", slot |-> s, body |-> "none"]
Control(b)   == [type |-> "Control", slot |-> 0, body |-> b]

ClientFrames ==
  {Stream(s, b) : s \in Slots, b \in {"initial", "stdin"}} \cup
  {Close(s) : s \in Slots} \cup {Completed(s) : s \in Slots} \cup
  {Control(b) : b \in {"pause", "resume"}}

ServerFrames ==
  {Stream(s, b) : s \in Slots,
     b \in {"started", "refused", "connected", "failed", "hook", "band"}} \cup
  {Close(s) : s \in Slots} \cup {Completed(s) : s \in Slots}

ClientStates == [active : BOOLEAN, initing : BOOLEAN, shut : BOOLEAN,
                 connected : BOOLEAN, sclosed : BOOLEAN]
\* "then" is the initial response to send, or what follows the close wait.
HandlerState(ats, thens) == [at : ats, slot : Slots, then : thens]
HandlerStates ==
  HandlerState({"loop", "shutdown", "done"}, {"none"}) \cup
  HandlerState({"boot"}, {"started", "refused"}) \cup
  HandlerState({"machineClose", "closeWait"}, {"completed", "release", "shutdown"}) \cup
  HandlerState({"completed"}, {"completed"}) \cup HandlerState({"released"}, {"release"})
RemoteStates == {"none", "dialing", "dialed", "announced", "reading",
                 "failed", "exit", "signalled", "done"}
HandlerErrors == {"none", "eof", "machineClosed", "noRemote", "garbage",
                  "closeInactive", "releaseInactive"}

ClientTypeOK ==
  /\ cst \in {"serving", "stopped", "desync"}
  /\ cl \in [Slots -> ClientStates]
  /\ segs \in [Slots -> [left : Nat, late : BOOLEAN]]
WireTypeOK == c2s \in Seq(ClientFrames) /\ s2c \in Seq(ServerFrames) /\ link \in BOOLEAN
HandlerTypeOK ==
  /\ h \in HandlerStates /\ herr \in HandlerErrors
  /\ senderPaused \in BOOLEAN /\ needWait \in BOOLEAN
SlotTypeOK ==
  /\ srv \in [Slots -> {"empty", "open", "closed"}]
  /\ rem \in [Slots -> RemoteStates]
  /\ conn \in [Slots -> {"none", "queued", "taken"}]
  /\ connClosed \in [Slots -> BOOLEAN]
BookTypeOK ==
  /\ used \in [runs : Nat, out : Nat, input : Nat, pause : Nat, junk : Nat]
  /\ overtaken \in BOOLEAN /\ lateSeg \in BOOLEAN
  /\ misread \in {"none", "whole", "part"}

\* The states and queues of both ends hold the values their code can give them.
TypeOK == ClientTypeOK /\ WireTypeOK /\ HandlerTypeOK /\ SlotTypeOK /\ BookTypeOK

Init ==
  /\ cst = "serving" /\ cl = [s \in Slots |-> Idle]
  /\ segs = [s \in Slots |-> [left |-> 0, late |-> FALSE]]
  /\ c2s = <<>> /\ s2c = <<>> /\ link = TRUE
  /\ h = [at |-> "loop", slot |-> 0, then |-> "none"]
  /\ senderPaused = FALSE /\ needWait = FALSE /\ herr = "none"
  /\ srv = [s \in Slots |-> "empty"] /\ rem = [s \in Slots |-> "none"]
  /\ conn = [s \in Slots |-> "none"] /\ connClosed = [s \in Slots |-> FALSE]
  /\ used = [runs |-> 0, out |-> 0, input |-> 0, pause |-> 0, junk |-> 0]
  /\ overtaken = FALSE /\ lateSeg = FALSE /\ misread = "none"

----------------------------------------------------------------------------
(* The browser: requests, user input, pause and resume.                     *)

\* The slot after Stream.run: a command with a fresh Sender, initializing.
Started == [Idle EXCEPT !.active = TRUE, !.initing = TRUE]

\* Streams.request takes the first slot that is not running, and the command
\* sends the initial request.
Request(s) ==
  /\ cst = "serving" /\ used.runs < MaxRuns
  /\ ~cl[s].active /\ \A t \in Slots : t < s => cl[t].active
  /\ cl' = [cl EXCEPT ![s] = Started]
  /\ c2s' = Append(c2s, Stream(s, "initial"))
  /\ used' = [used EXCEPT !.runs = @ + 1]
  /\ UNCHANGED <<cst, segs, s2c, link, handlerVars, slotVars, overtaken, lateSeg, misread>>

\* Segments left of n once the first is handed to the transport.
LeftAfterFirst(n) == n - 1

\* Sender.sendData: checks "closed" once, sends the first segment and awaits
\* the transport before each further one.
SendData(s) ==
  /\ cst = "serving" /\ cl[s].connected /\ ~cl[s].sclosed
  /\ used.input < MaxInput /\ segs[s].left = 0
  /\ \E n \in 1 .. MaxSegs : segs' = [segs EXCEPT ![s].left = LeftAfterFirst(n)]
  /\ c2s' = Append(c2s, Stream(s, "stdin"))
  /\ used' = [used EXCEPT !.input = @ + 1]
  /\ UNCHANGED <<cst, cl, s2c, link, handlerVars, slotVars, overtaken, lateSeg, misread>>

\* The loop of sendData after an await: "closed" is not looked at again.
NextSegment(s) ==
  /\ cst = "serving" /\ segs[s].left > 0
  /\ segs' = [segs EXCEPT ![s] = [left |-> @.left - 1,
                                  late |-> @.late /\ @.left > 1]]
  /\ c2s' = Append(c2s, Stream(s, "stdin"))
  /\ lateSeg' = (lateSeg \/ segs[s].late)
  /\ UNCHANGED <<cst, cl, s2c, link, handlerVars, slotVars, used, overtaken, misread>>

\* The tab's close button: Telnet.sendClose, hence Sender.close. The tab only
\* exists once the command has connected.
UserClose(s) ==
  /\ cst = "serving" /\ cl[s].connected /\ ~cl[s].sclosed
  /\ cl' = [cl EXCEPT ![s].sclosed = TRUE]
  /\ segs' = [segs EXCEPT ![s].late = segs[s].left > 0]
  /\ c2s' = Append(c2s, Close(s))
  /\ UNCHANGED <<cst, s2c, link, handlerVars, slotVars, bookVars>>

\* Streams.pause and Streams.resume, called on alternating transitions of
\* socket.js's "streamPaused"; used.pause is odd while paused.
Pause ==
  /\ cst = "serving" /\ used.pause < 2 * MaxPause /\ used.pause % 2 = 0
  /\ c2s' = Append(c2s, Control("pause"))
  /\ used' = [used EXCEPT !.pause = @ + 1]
  /\ UNCHANGED <<clientVars, s2c, link, handlerVars, slotVars, overtaken, lateSeg, misread>>

Resume ==
  /\ cst = "serving" /\ used.pause % 2 = 1
  /\ c2s' = Append(c2s, Control("resume"))
  /\ used' = [used EXCEPT !.pause = @ + 1]
  /\ UNCHANGED <<clientVars, s2c, link, handlerVars, slotVars, overtaken, lateSeg, misread>>

----------------------------------------------------------------------------
(* The browser: Streams.tick, one received frame at a time.                 *)

\* Streams.clear: every running stream is closed (which sends CLOSE unless its
\* Sender already did) and completed, the sender is flushed and the socket
\* closed.
ClearStreams ==
  LET toClose == {s \in Slots : cl[s].active /\ ~cl[s].shut /\ ~cl[s].sclosed}
  IN /\ \E n \in 0 .. NumSlots : \E q \in [1 .. n -> {Close(s) : s \in toClose}] :
          /\ {q[i].slot : i \in 1 .. n} = toClose
          /\ \A i, j \in 1 .. n : i < j => q[i].slot < q[j].slot
          /\ c2s' = c2s \o q
     /\ cst' = "stopped" /\ link' = FALSE
     /\ cl' = [s \in Slots |-> Idle]
     /\ segs' = [s \in Slots |-> [left |-> 0, late |-> FALSE]]

\* stream.Stream.initialize, reached by the first Stream frame whatever its
\* content: bytes that are not an initial header decode as a refusal, and the
\* payload behind them is left unread. DIAL_CONNECTED has no payload.
ClientInitialize(s, body) ==
  IF body = "started"
  THEN cl' = [cl EXCEPT ![s].initing = FALSE] /\ cst' = cst
  ELSE /\ cl' = [cl EXCEPT ![s] = Idle]
       /\ cst' = IF body \in {"refused", "connected"} THEN cst ELSE "desync"

\* Markers Telnet.tick accepts; the others throw and end the connection.
Expected(s, body) ==
  body \in IF cl[s].connected THEN {"band"} ELSE {"connected", "failed", "hook"}

\* Stream.tick, or what it calls, throws.
TickThrows(s, body) == cl[s].shut \/ (~cl[s].initing /\ ~Expected(s, body))

ClientHandleStream(s) ==
  LET body == Head(s2c).body
  IN /\ cst = "serving" /\ s2c # <<>> /\ Head(s2c) = Stream(s, body)
     /\ s2c' = Tail(s2c)
     /\ IF ~cl[s].active \/ TickThrows(s, body)
        THEN ClearStreams
        ELSE /\ IF cl[s].initing
                THEN ClientInitialize(s, body)
                ELSE /\ cl' = [cl EXCEPT ![s].connected = @ \/ body = "connected"]
                     /\ cst' = cst
             /\ UNCHANGED <<segs, c2s, link>>
     /\ UNCHANGED <<handlerVars, slotVars, bookVars>>

\* Frames handleClose puts on the wire: Telnet.close sends CLOSE unless the
\* Sender is closed already, then COMPLETED follows.
CloseReply_NoClose(s) == <<Completed(s)>>
CloseReply_Swapped(s) == IF cl[s].sclosed THEN <<Completed(s)>> ELSE <<Completed(s), Close(s)>>
CloseReply(s) == IF cl[s].sclosed THEN <<Completed(s)>> ELSE <<Close(s), Completed(s)>>

\* The slot after stream.Stream.close: it stays taken until COMPLETED.
AfterClose_Freed(s) == Idle
AfterClose(s) == [cl[s] EXCEPT !.shut = TRUE, !.sclosed = TRUE]

ClientHandleClose(s) ==
  /\ cst = "serving" /\ s2c # <<>> /\ Head(s2c) = Close(s)
  /\ s2c' = Tail(s2c)
  /\ IF ~cl[s].active \/ cl[s].shut
     THEN ClearStreams
     ELSE /\ cl' = [cl EXCEPT ![s] = AfterClose(s)]
          /\ segs' = [segs EXCEPT ![s].late = segs[s].left > 0]
          /\ c2s' = c2s \o CloseReply(s)
          /\ UNCHANGED <<cst, link>>
  /\ UNCHANGED <<handlerVars, slotVars, bookVars>>

ClientHandleCompleted(s) ==
  /\ cst = "serving" /\ s2c # <<>> /\ Head(s2c) = Completed(s)
  /\ s2c' = Tail(s2c)
  /\ IF ~cl[s].active \/ ~cl[s].shut
     THEN ClearStreams
     ELSE /\ cl' = [cl EXCEPT ![s] = Idle]
          /\ UNCHANGED <<cst, segs, c2s, link>>
  /\ UNCHANGED <<handlerVars, slotVars, bookVars>>

ClientTick ==
  \E s \in Slots : \/ ClientHandleStream(s)
                   \/ ClientHandleClose(s)
                   \/ ClientHandleCompleted(s)

\* The backend has returned from Handle and closed the socket.
ClientEof ==
  /\ cst = "serving" /\ h.at = "done" /\ s2c = <<>>
  /\ ClearStreams
  /\ UNCHANGED <<s2c, handlerVars, slotVars, bookVars>>

\* The network, or the page going away: what is under way is lost, but for the
\* frames the backend has received already.
LinkBreak ==
  /\ link /\ link' = FALSE /\ s2c' = <<>>
  /\ \E n \in 0 .. Len(c2s) : c2s' = SubSeq(c2s, 1, n)
  /\ cst' = "stopped" /\ cl' = [s \in Slots |-> Idle]
  /\ segs' = [s \in Slots |-> [left |-> 0, late |-> FALSE]]
  /\ UNCHANGED <<handlerVars, slotVars, bookVars>>

----------------------------------------------------------------------------
(* The Handler goroutine. handlerSender.Write blocks while needWait; a write *)
(* to a closed socket goes nowhere.                                         *)

Put(f) == s2c' = IF link THEN Append(s2c, f) ELSE s2c

AtLoop == h.at = "loop" /\ c2s # <<>>
Loop == [h EXCEPT !.at = "loop", !.then = "none"]

\* Handle returns an error: its deferred function resumes the sender and shuts
\* the streams down.
Fail(e) ==
  /\ herr' = e /\ needWait' = FALSE /\ senderPaused' = FALSE
  /\ h' = [h EXCEPT !.at = "shutdown", !.then = "none"]

\* Handler.handleControl.
HandleControl ==
  /\ AtLoop /\ Head(c2s).type = "Control"
  /\ c2s' = Tail(c2s)
  /\ senderPaused' = (Head(c2s).body = "pause") /\ needWait' = senderPaused'
  /\ UNCHANGED <<clientVars, s2c, link, h, herr, slotVars, bookVars>>

\* getRemote returns: a connection is cached or queued, or the channel is closed.
GetRemoteReturns(s) == conn[s] # "none" \/ rem[s] = "done"

\* telnetClient.client: the input goes to the remote; a failing write closes the
\* connection. Without a connection the tick returns an error.
TelnetClient(s) ==
  IF conn[s] = "none"
  THEN Fail("noRemote") /\ UNCHANGED slotVars
  ELSE /\ conn' = [conn EXCEPT ![s] = "taken"]
       /\ \E failed \in BOOLEAN :
            connClosed' = [connClosed EXCEPT ![s] = @ \/ failed]
       /\ UNCHANGED <<srv, rem, handlerVars>>

\* Handler.handleStream on a running slot: stream.tick and FSM.tick.
HandleTick(s) ==
  /\ AtLoop /\ Head(c2s).type = "Stream" /\ Head(c2s).slot = s
  /\ srv[s] # "empty"
  /\ IF srv[s] = "closed"
     THEN Fail("machineClosed") /\ UNCHANGED slotVars
     ELSE GetRemoteReturns(s) /\ TelnetClient(s)
  /\ c2s' = Tail(c2s)
  /\ UNCHANGED <<clientVars, s2c, link, bookVars>>

\* telnetClient.Bootup succeeds: the remote goroutine is started.
Bootup(s) ==
  /\ srv' = [srv EXCEPT ![s] = "open"]
  /\ rem' = [rem EXCEPT ![s] = "dialing"]
  /\ conn' = [conn EXCEPT ![s] = "none"]
  /\ connClosed' = [connClosed EXCEPT ![s] = FALSE]

\* What reinit takes of a frame's bytes. It reads the two bytes of a data
\* segment's header as an initial header, whose length field is the shorter one:
\* of a long segment it leaves a part unread.
ReadAsRequest(body) ==
  IF body = "initial" THEN misread' = misread
  ELSE \/ misread' = IF misread = "none" THEN "whole" ELSE misread
       \/ misread' = "part"

\* Handler.handleStream on an empty slot: the sender is resumed and
\* stream.reinit boots the command, whatever the frame was meant to be. A
\* command it does not know and one that does not boot are refused.
HandleBoot(s) ==
  /\ AtLoop /\ Head(c2s).type = "Stream" /\ Head(c2s).slot = s
  /\ srv[s] = "empty"
  /\ c2s' = Tail(c2s)
  /\ needWait' = FALSE
  /\ \/ /\ h' = [at |-> "boot", slot |-> s, then |-> "refused"]
        /\ UNCHANGED slotVars
     \/ /\ h' = [at |-> "boot", slot |-> s, then |-> "started"]
        /\ Bootup(s)
  /\ ReadAsRequest(Head(c2s).body)
  /\ UNCHANGED <<clientVars, s2c, link, senderPaused, herr, used, overtaken, lateSeg>>

\* Handle after a segment was read in part: the bytes left are taken for a frame
\* that may reach into those behind it, or for a control message without content.
Misframe ==
  /\ h.at = "loop" /\ misread = "part" /\ used.junk < MaxJunk
  /\ used' = [used EXCEPT !.junk = @ + 1]
  /\ \/ /\ \E f \in ClientFrames : \E n \in 0 .. Len(c2s) :
             c2s' = <<f>> \o SubSeq(c2s, n + 1, Len(c2s))
        /\ UNCHANGED handlerVars
     \/ Fail("garbage") /\ UNCHANGED c2s
  /\ UNCHANGED <<clientVars, s2c, link, slotVars, overtaken, lateSeg, misread>>

\* The deferred pause of handleStream, handleClose and handleCompleted.
Repause_Missing == FALSE
Repause == senderPaused

\* The rest of reinit: the initial response, then the deferred pause.
BootSignal ==
  /\ h.at = "boot" /\ ~needWait
  /\ Put(Stream(h.slot, h.then))
  /\ h' = Loop /\ needWait' = Repause
  /\ UNCHANGED <<clientVars, c2s, link, senderPaused, herr, slotVars, bookVars>>

\* stream.close and FSM.close, stream.release and FSM.release; FSM.closed and
\* stream.closed agree on every running slot.
StreamClose(s)   == srv' = [srv EXCEPT ![s] = "closed"]
StreamRelease(s) == srv' = [srv EXCEPT ![s] = "empty"]

CloseMachine(s, then) == h' = [at |-> "machineClose", slot |-> s, then |-> then]

\* Handler.handleClose up to FSMMachine.Close. A CLOSE for a slot that is
\* closing already is ignored.
HandleClose(s) ==
  /\ AtLoop /\ Head(c2s) = Close(s)
  /\ c2s' = Tail(c2s)
  /\ \/ /\ srv[s] = "closed" /\ UNCHANGED <<handlerVars, srv>>
     \/ /\ srv[s] = "empty" /\ Fail("closeInactive") /\ UNCHANGED srv
     \/ /\ srv[s] = "open"
        /\ StreamClose(s)
        /\ needWait' = FALSE
        /\ CloseMachine(s, "completed")
        /\ UNCHANGED <<senderPaused, herr>>
  /\ UNCHANGED <<clientVars, s2c, link, rem, conn, connClosed, bookVars>>

ConnClosedByClose_Forgotten == FALSE
ConnClosedByClose == TRUE

\* telnetClient.Close: getRemote, close the connection, cancel, then wait for
\* the remote goroutine.
MachineClose ==
  /\ h.at = "machineClose" /\ GetRemoteReturns(h.slot)
  /\ IF conn[h.slot] = "none"
     THEN UNCHANGED <<conn, connClosed>>
     ELSE /\ conn' = [conn EXCEPT ![h.slot] = "taken"]
          /\ connClosed' = [connClosed EXCEPT ![h.slot] = ConnClosedByClose]
  /\ h' = [h EXCEPT !.at = "closeWait"]
  /\ UNCHANGED <<clientVars, wireVars, senderPaused, needWait, herr, srv, rem, bookVars>>

\* What the close wait waits for: closeWait.Done of the remote goroutine.
WaitOver_Skipped(s) == TRUE
WaitOver(s) == rem[s] = "done"

CloseWait ==
  /\ h.at = "closeWait" /\ WaitOver(h.slot)
  /\ \/ /\ h.then = "completed" /\ h' = [h EXCEPT !.at = "completed"]
        /\ UNCHANGED srv
     \/ /\ h.then = "release" /\ h' = [h EXCEPT !.at = "released"]
        /\ UNCHANGED srv
     \/ /\ h.then = "shutdown" /\ h' = [h EXCEPT !.at = "shutdown", !.then = "none"]
        /\ StreamRelease(h.slot)
  /\ UNCHANGED <<clientVars, wireVars, senderPaused, needWait, herr,
                 rem, conn, connClosed, bookVars>>

\* The rest of handleClose: COMPLETED, then the deferred pause.
SendCompleted ==
  /\ h.at = "completed" /\ ~needWait
  /\ Put(Completed(h.slot))
  /\ h' = Loop /\ needWait' = Repause
  /\ UNCHANGED <<clientVars, c2s, link, senderPaused, herr, slotVars, bookVars>>

\* Handler.handleCompleted: stream.release and FSM.release, which closes a
\* machine that is still open.
HandleCompleted(s) ==
  /\ AtLoop /\ Head(c2s) = Completed(s)
  /\ c2s' = Tail(c2s)
  /\ \/ /\ srv[s] = "empty" /\ Fail("releaseInactive") /\ UNCHANGED srv
     \/ /\ srv[s] # "empty" /\ StreamRelease(s)
        /\ needWait' = FALSE
        /\ IF srv[s] = "open"
           THEN CloseMachine(s, "release")
           ELSE h' = [at |-> "released", slot |-> s, then |-> "release"]
        /\ UNCHANGED <<senderPaused, herr>>
  /\ UNCHANGED <<clientVars, s2c, link, rem, conn, connClosed, bookVars>>

\* The deferred pause of handleCompleted.
Released ==
  /\ h.at = "released" /\ h' = Loop /\ needWait' = Repause
  /\ UNCHANGED <<clientVars, wireVars, senderPaused, herr, slotVars, bookVars>>

\* Reading from a closed socket.
HandleEof ==
  /\ h.at = "loop" /\ c2s = <<>> /\ ~link /\ Fail("eof")
  /\ UNCHANGED <<clientVars, wireVars, slotVars, bookVars>>

\* streams.shutdown, one slot at a time.
Shutdown ==
  /\ h.at = "shutdown"
  /\ \/ \E s \in Slots :
          /\ srv[s] = "open"
          /\ StreamClose(s)
          /\ CloseMachine(s, "shutdown")
     \/ \E s \in Slots :
          /\ srv[s] = "closed"
          /\ StreamRelease(s)
          /\ UNCHANGED h
     \/ /\ \A s \in Slots : srv[s] = "empty"
        /\ h' = [h EXCEPT !.at = "done"]
        /\ UNCHANGED srv
  /\ UNCHANGED <<clientVars, wireVars, senderPaused, needWait, herr,
                 rem, conn, connClosed, bookVars>>

Handler ==
  \/ HandleControl
  \/ \E s \in Slots : \/ HandleTick(s) \/ HandleBoot(s)
                      \/ HandleClose(s) \/ HandleCompleted(s)
  \/ BootSignal \/ MachineClose \/ CloseWait \/ SendCompleted \/ Released
  \/ HandleEof \/ Shutdown

----------------------------------------------------------------------------
(* The remote goroutine of slot s (telnetClient.remote).                    *)

\* A frame of the goroutine; it overtakes when the initial response is not out.
RemoteWrite(s, f) ==
  /\ ~needWait /\ Put(f)
  /\ overtaken' = (overtaken \/ (h.at = "boot" /\ h.slot = s))

Step(s, from, to) == rem[s] = from /\ rem' = [rem EXCEPT ![s] = to]

RemoteFrame(s) ==
  UNCHANGED <<clientVars, c2s, link, handlerVars, srv, connClosed, lateSeg, misread>>

\* Output of the before-connecting hooks.
RemoteHookOutput(s) ==
  /\ rem[s] = "dialing" /\ used.out < MaxOut
  /\ RemoteWrite(s, Stream(s, "hook"))
  /\ used' = [used EXCEPT !.out = @ + 1]
  /\ RemoteFrame(s) /\ UNCHANGED <<rem, conn>>

\* The hooks or the dial fail, or the dial succeeds.
RemoteDial(s) ==
  /\ Step(s, "dialing", "dialed") \/ Step(s, "dialing", "failed")
  /\ RemoteFrame(s) /\ UNCHANGED <<s2c, conn, used, overtaken>>

RemoteDialFailed(s) ==
  /\ Step(s, "failed", "exit")
  /\ RemoteWrite(s, Stream(s, "failed"))
  /\ RemoteFrame(s) /\ UNCHANGED <<conn, used>>

\* DIAL_CONNECTED; a failing write returns before the connection is delivered.
RemoteConnected(s) ==
  /\ \/ Step(s, "dialed", "announced")
     \/ ~link /\ Step(s, "dialed", "exit")
  /\ RemoteWrite(s, Stream(s, "connected"))
  /\ RemoteFrame(s) /\ UNCHANGED <<conn, used>>

Deliver(s) == conn' = [conn EXCEPT ![s] = "queued"]

\* d.remoteChan <- &timeoutClientConn
RemoteDeliver(s) ==
  /\ Step(s, "announced", "reading")
  /\ Deliver(s)
  /\ RemoteFrame(s) /\ UNCHANGED <<s2c, used, overtaken>>

RemoteBand(s) ==
  /\ used.out < MaxOut
  /\ rem[s] = "reading" /\ (UNCHANGED rem \/ (~link /\ Step(s, "reading", "exit")))
  /\ RemoteWrite(s, Stream(s, "band"))
  /\ used' = [used EXCEPT !.out = @ + 1]
  /\ RemoteFrame(s) /\ UNCHANGED conn

\* Read fails: the backend closed the connection, or the peer did.
RemoteReadError(s) ==
  /\ Step(s, "reading", "exit")
  /\ RemoteFrame(s) /\ UNCHANGED <<s2c, conn, used, overtaken>>

\* The deferred function: HeaderClose, then close(remoteChan), cancel, Done.
RemoteSignalClose(s) ==
  /\ Step(s, "exit", "signalled")
  /\ RemoteWrite(s, Close(s))
  /\ RemoteFrame(s) /\ UNCHANGED <<conn, used>>

RemoteDone(s) ==
  /\ Step(s, "signalled", "done")
  /\ RemoteFrame(s) /\ UNCHANGED <<s2c, conn, used, overtaken>>

Remote(s) ==
  \/ RemoteHookOutput(s) \/ RemoteDial(s) \/ RemoteDialFailed(s)
  \/ RemoteConnected(s) \/ RemoteDeliver(s) \/ RemoteBand(s)
  \/ RemoteReadError(s) \/ RemoteSignalClose(s) \/ RemoteDone(s)

----------------------------------------------------------------------------
User == \/ \E s \in Slots : \/ Request(s) \/ SendData(s)
                            \/ NextSegment(s) \/ UserClose(s)
        \/ Pause \/ Resume

\* A late segment has reached a command that is not connected: the Handler waits
\* for its goroutine, which waits for the paused sender, for good.
StuckOnSender ==
  /\ lateSeg /\ needWait /\ AtLoop /\ Head(c2s).type = "Stream"
  /\ LET s == Head(c2s).slot
     IN srv[s] = "open" /\ conn[s] = "none" /\ rem[s] \in {"dialed", "failed", "exit"}

\* The connection is over, or its Handler is stuck.
Terminated == ((cst = "stopped" /\ h.at = "done") \/ StuckOnSender) /\ UNCHANGED vars

Next == \/ User \/ ClientTick \/ ClientEof \/ LinkBreak
        \/ Handler \/ Misframe \/ (\E s \in Slots : Remote(s))
        \/ Terminated

Spec == Init /\ [][Next]_vars

\* The goroutines and the event loop are scheduled; hooks and dials time out; a
\* read on a connection the backend closed fails. Nothing obliges the peer, the
\* user or the network to do anything.
Fairness ==
  /\ WF_vars(Handler) /\ WF_vars(ClientTick) /\ WF_vars(ClientEof)
  /\ \A s \in Slots :
       /\ WF_vars(RemoteDial(s)) /\ WF_vars(RemoteDialFailed(s))
       /\ WF_vars(RemoteConnected(s)) /\ WF_vars(RemoteDeliver(s))
       /\ WF_vars(connClosed[s] /\ RemoteReadError(s))
       /\ WF_vars(RemoteSignalClose(s)) /\ WF_vars(RemoteDone(s))

FairSpec == Spec /\ Fairness

----------------------------------------------------------------------------
(* Properties.                                                              *)

\* Neither of the two defects below has made a frame mean something else to the
\* end that reads it.
Framed == ~overtaken /\ misread = "none"

\* No frame reaches the browser in a state where stream.js would throw and take
\* every session of the connection down: no data, CLOSE or COMPLETED for an idle
\* slot, nothing but COMPLETED after CLOSE, COMPLETED only after CLOSE. The
\* exceptions are an initial response that was overtaken (InitialResponseFirst)
\* and a late data segment that was answered as a request (NoSegmentMisread).
AcceptableToClient ==
  (cst = "serving" /\ s2c # <<>> /\ Framed) =>
    LET f == Head(s2c) IN
      /\ cl[f.slot].active
      /\ cl[f.slot].shut = (f.type = "Completed")
      /\ f.type = "Stream" =>
           IF cl[f.slot].initing THEN f.body \in {"started", "refused"}
                                 ELSE Expected(f.slot, f.body)

\* Handle never returns because of the order of the client's frames: no tick of
\* a closed or dead command, no CLOSE or COMPLETED for an empty slot. Only a
\* segment sent after its Sender closed (NoSegmentAfterClose) breaks this, with
\* what may follow when it is read as a request, and an overtaken initial
\* response.
HandlerErrorsExplained ==
  herr \in {"none", "eof"} \/ ~Framed \/ (lateSeg /\ herr \in {"machineClosed", "noRemote"})

\* A slot the browser considers free can be requested again: no frame of the
\* previous command is on its way to the browser, and the backend has released
\* the slot or has the COMPLETED that releases it in its queue. The exceptions
\* are those of AcceptableToClient.
FreeSlotIsReusable ==
  \A s \in Slots :
    (cst = "serving" /\ ~cl[s].active /\ Framed) =>
      /\ \A i \in 1 .. Len(s2c) : s2c[i].slot # s
      /\ srv[s] = "empty" \/ (srv[s] = "closed" /\ \E i \in 1 .. Len(c2s) : c2s[i] = Completed(s))

\* A slot is released only after its remote goroutine ended, so two goroutines
\* never write under one stream id (Close waits on closeWait before Release).
ReleasedMeansStopped ==
  \A s \in Slots :
    (srv[s] = "empty" /\ ~(h.slot = s /\ h.at \in {"machineClose", "closeWait"}))
      => rem[s] \in {"none", "done"}

\* While the client has paused the sender, nothing is written between two
\* requests: every temporary resume of a handler is undone when it returns.
PausedIsSilent == [][senderPaused /\ h.at = "loop" => Len(s2c') <= Len(s2c)]_vars

\* A stream whose Sender has closed becomes free again, paused or not, as long
\* as both ends find the boundaries of the frames they read and the Handler is not
\* stuck.
ClosedStreamIsFreed ==
  \A s \in Slots :
    (cl[s].active /\ cl[s].sclosed) ~>
      (~cl[s].active \/ cst = "desync" \/ misread = "part" \/ StuckOnSender)

\* Once the socket is gone the Handler ends, and no slot or goroutine is left;
\* a Handler that is stuck (StuckOnSender) does not see that it is gone.
NothingLeftBehind ==
  ~link ~>
    \/ h.at = "done" /\ \A s \in Slots : srv[s] = "empty" /\ rem[s] \in {"none", "done"}
    \/ StuckOnSender

\* What streams.go says of the initial header ("sent when a stream slot is first
\* opened"): no frame of a stream precedes its initial response.
InitialResponseFirst == ~overtaken

\* What stream.js says of Sender.sendData ("Sender already been closed. No data
\* can be send"): no segment is sent once the Sender has closed.
NoSegmentAfterClose == ~lateSeg

\* What it entails where the slot is released before the segment arrives: no
\* data segment is taken for the request of a new command.
NoSegmentMisread == misread = "none"

----------------------------------------------------------------------------
(* StreamMux implements the contract of header.go, up to the end of the     *)
(* connection or the first of the two defects above.                        *)

BodyFrames(bodies) == {Stream(s, b) : s \in Slots, b \in bodies}
Refused(s) == Stream(s, "refused")
Initial(s) == Stream(s, "initial")

\* The states of the contract a slot of the two ends is in.
UpOf(c) == IF ~c.active THEN "idle" ELSE IF c.sclosed THEN "closed" ELSE "open"
DownOf(s) ==
  IF srv[s] = "empty"
  THEN IF h.at = "boot" /\ h.slot = s THEN "refusing" ELSE "idle"
  ELSE IF rem[s] \in {"signalled", "done"} THEN "closed" ELSE "open"

UpMap    == [s \in Slots |-> UpOf(cl[s])]
AckedMap == [s \in Slots |-> cl[s].shut]
DownMap  == [s \in Slots |-> DownOf(s)]
OwesMap  == [s \in Slots |-> h.slot = s /\ h.then = "completed"]
Broken   == cst # "serving" \/ herr # "none" \/ ~Framed \/ lateSeg

Contract == INSTANCE StreamContract WITH
  ClientData <- BodyFrames({"stdin"}),
  ServerData <- BodyFrames({"started", "connected", "failed", "hook", "band"}),
  Controls   <- {Control("pause"), Control("resume")},
  up <- UpMap, acked <- AckedMap, down <- DownMap, owes <- OwesMap, broken <- Broken

\* Every step of the two ends is one the packet types of header.go allow.
ImplementsContract == Contract!Spec

============================================================================
