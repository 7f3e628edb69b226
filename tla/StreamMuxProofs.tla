-------------------------- MODULE StreamMuxProofs --------------------------
(***************************************************************************)
(* Proofs about StreamMux, for every number of slots and every bound:      *)
(* type correctness, one live goroutine per slot, silence while the client *)
(* has paused the sender, and the close handshake: both ends agree on how  *)
(* far every slot is, so that no frame is refused and every slot the       *)
(* browser considers free can be requested. At last the refinement of      *)
(* StreamContract.                                                         *)
(***************************************************************************)
EXTENDS StreamMux, TLAPS

\* Every frame the actions build is of its queue's type.
LEMMA FramesTyped ==
  /\ \A s \in Slots : /\ Stream(s, "initial") \in ClientFrames
                      /\ Stream(s, "stdin") \in ClientFrames
                      /\ Close(s) \in ClientFrames /\ Completed(s) \in ClientFrames
                      /\ Close(s) \in ServerFrames /\ Completed(s) \in ServerFrames
                      /\ \A b \in {"started", "refused", "connected", "failed", "hook", "band"} :
                           Stream(s, b) \in ServerFrames
  /\ Control("pause") \in ClientFrames /\ Control("resume") \in ClientFrames
BY DEF ClientFrames, ServerFrames

\* Slot 0 exists.
LEMMA ZeroIsSlot == 0 \in Slots
BY BoundsAssumption DEF Slots

\* The start of a connection is well typed.
LEMMA InitTyped == Init => TypeOK
<1> SUFFICES ASSUME Init PROVE TypeOK
  OBVIOUS
<1>1. ClientTypeOK
  BY DEF Init, ClientTypeOK, ClientStates, Idle
<1>2. WireTypeOK
  BY DEF Init, WireTypeOK
<1>3. HandlerTypeOK
  BY ZeroIsSlot DEF Init, HandlerTypeOK, HandlerStates, HandlerState, HandlerErrors
<1>4. SlotTypeOK
  BY DEF Init, SlotTypeOK, RemoteStates
<1>5. BookTypeOK
  BY DEF Init, BookTypeOK
<1> QED BY <1>1, <1>2, <1>3, <1>4, <1>5 DEF TypeOK

\* Each part of the type invariant speaks of one group of variables only.
LEMMA Frame ==
  ASSUME TypeOK
  PROVE  /\ UNCHANGED clientVars => ClientTypeOK'
         /\ UNCHANGED wireVars => WireTypeOK'
         /\ UNCHANGED handlerVars => HandlerTypeOK'
         /\ UNCHANGED slotVars => SlotTypeOK'
         /\ UNCHANGED bookVars => BookTypeOK'
<1>1. UNCHANGED clientVars => ClientTypeOK'
  BY DEF TypeOK, ClientTypeOK, clientVars
<1>2. UNCHANGED wireVars => WireTypeOK'
  BY DEF TypeOK, WireTypeOK, wireVars
<1>3. UNCHANGED handlerVars => HandlerTypeOK'
  BY DEF TypeOK, HandlerTypeOK, handlerVars
<1>4. UNCHANGED slotVars => SlotTypeOK'
  BY DEF TypeOK, SlotTypeOK, slotVars
<1>5. UNCHANGED bookVars => BookTypeOK'
  BY DEF TypeOK, BookTypeOK, bookVars
<1> QED BY <1>1, <1>2, <1>3, <1>4, <1>5

\* Streams.clear appends a finite sequence of CLOSE frames and resets the rest.
LEMMA ClearTyped ==
  ASSUME TypeOK, ClearStreams
  PROVE  ClientTypeOK' /\ c2s' \in Seq(ClientFrames) /\ link' \in BOOLEAN
<1> DEFINE toClose == {s \in Slots : cl[s].active /\ ~cl[s].shut /\ ~cl[s].sclosed}
<1>1. PICK n \in 0 .. NumSlots :
        \E q \in [1 .. n -> {Close(s) : s \in toClose}] : c2s' = c2s \o q
  BY DEF ClearStreams
<1>2. PICK q \in [1 .. n -> {Close(s) : s \in toClose}] : c2s' = c2s \o q
  BY <1>1
<1>3. {Close(s) : s \in toClose} \subseteq ClientFrames
  BY FramesTyped
<1>4. q \in [1 .. n -> ClientFrames]
  BY <1>2, <1>3
<1>5. n \in Nat
  BY <1>1, BoundsAssumption
<1>6. q \in Seq(ClientFrames)
  BY <1>4, <1>5
<1>7. c2s' \in Seq(ClientFrames)
  BY <1>2, <1>6 DEF TypeOK, WireTypeOK
<1>8. ClientTypeOK'
  BY DEF ClearStreams, ClientTypeOK, ClientStates, Idle
<1> QED BY <1>7, <1>8 DEF ClearStreams

\* Updates of one field, which the actions make by EXCEPT.
LEMMA FieldsTyped ==
  /\ \A u \in [runs : Nat, out : Nat, input : Nat, pause : Nat, junk : Nat] :
       /\ [u EXCEPT !.runs = @ + 1] \in [runs : Nat, out : Nat, input : Nat, pause : Nat, junk : Nat]
       /\ [u EXCEPT !.out = @ + 1] \in [runs : Nat, out : Nat, input : Nat, pause : Nat, junk : Nat]
       /\ [u EXCEPT !.input = @ + 1] \in [runs : Nat, out : Nat, input : Nat, pause : Nat, junk : Nat]
       /\ [u EXCEPT !.pause = @ + 1] \in [runs : Nat, out : Nat, input : Nat, pause : Nat, junk : Nat]
       /\ [u EXCEPT !.junk = @ + 1] \in [runs : Nat, out : Nat, input : Nat, pause : Nat, junk : Nat]
  /\ \A g \in [left : Nat, late : BOOLEAN] :
       /\ \A n \in Nat : [g EXCEPT !.left = n] \in [left : Nat, late : BOOLEAN]
       /\ \A b \in BOOLEAN : [g EXCEPT !.late = b] \in [left : Nat, late : BOOLEAN]
OBVIOUS

\* The states the client's actions give a slot are slot states.
LEMMA CellsTyped ==
  /\ Idle \in ClientStates /\ Started \in ClientStates
  /\ \A c \in ClientStates :
       /\ [c EXCEPT !.initing = FALSE] \in ClientStates
       /\ [c EXCEPT !.sclosed = TRUE] \in ClientStates
       /\ [c EXCEPT !.shut = TRUE, !.sclosed = TRUE] \in ClientStates
       /\ \A b \in BOOLEAN : [c EXCEPT !.connected = b] \in ClientStates
BY DEF Idle, Started, ClientStates

\* The mark Sender.close leaves on an unfinished sendData.
LEMMA LateTyped ==
  ASSUME TypeOK, NEW s \in Slots
  PROVE  [segs[s] EXCEPT !.late = segs[s].left > 0] \in [left : Nat, late : BOOLEAN]
<1>1. segs[s] \in [left : Nat, late : BOOLEAN]
  BY DEF TypeOK, ClientTypeOK
<1>2. (segs[s].left > 0) \in BOOLEAN
  OBVIOUS
<1> QED BY <1>1, <1>2, FieldsTyped

\* The user's steps keep the types.
LEMMA UserTyped == ASSUME TypeOK, User PROVE TypeOK'
<1>1. ASSUME NEW s \in Slots, Request(s) PROVE TypeOK'
  <2>1. ClientTypeOK'
    BY <1>1 DEF Request, ClientStates, Started, Idle, TypeOK, ClientTypeOK
  <2>2. WireTypeOK'
    BY <1>1, FramesTyped DEF Request, TypeOK, WireTypeOK
  <2>3. BookTypeOK'
    BY <1>1, FieldsTyped DEF Request, TypeOK, BookTypeOK
  <2> QED BY <1>1, <2>1, <2>2, <2>3, Frame DEF Request, TypeOK
<1>2. ASSUME NEW s \in Slots, SendData(s) PROVE TypeOK'
  <2>1. ClientTypeOK'
    <3>1. PICK n \in 1 .. MaxSegs : segs' = [segs EXCEPT ![s].left = n - 1]
      BY <1>2 DEF SendData, LeftAfterFirst
    <3>2. [segs[s] EXCEPT !.left = n - 1] \in [left : Nat, late : BOOLEAN]
      <4>1. n - 1 \in Nat
        BY <3>1
      <4>2. segs[s] \in [left : Nat, late : BOOLEAN]
        BY DEF TypeOK, ClientTypeOK
      <4> QED BY <4>1, <4>2, FieldsTyped
    <3> QED BY <1>2, <3>1, <3>2 DEF SendData, TypeOK, ClientTypeOK
  <2>2. WireTypeOK'
    BY <1>2, FramesTyped DEF SendData, TypeOK, WireTypeOK
  <2>3. BookTypeOK'
    BY <1>2, FieldsTyped DEF SendData, TypeOK, BookTypeOK
  <2> QED BY <1>2, <2>1, <2>2, <2>3, Frame DEF SendData, TypeOK
<1>3. ASSUME NEW s \in Slots, NextSegment(s) PROVE TypeOK'
  <2>1. ClientTypeOK'
    BY <1>3 DEF NextSegment, TypeOK, ClientTypeOK
  <2>2. WireTypeOK'
    BY <1>3, FramesTyped DEF NextSegment, TypeOK, WireTypeOK
  <2>3. BookTypeOK'
    BY <1>3 DEF NextSegment, TypeOK, ClientTypeOK, BookTypeOK
  <2> QED BY <1>3, <2>1, <2>2, <2>3, Frame DEF NextSegment, TypeOK
<1>4. ASSUME NEW s \in Slots, UserClose(s) PROVE TypeOK'
  <2>1. ClientTypeOK'
    <3>1. [segs[s] EXCEPT !.late = segs[s].left > 0] \in [left : Nat, late : BOOLEAN]
      BY LateTyped
    <3>2. segs' \in [Slots -> [left : Nat, late : BOOLEAN]]
      BY <1>4, <3>1 DEF UserClose, TypeOK, ClientTypeOK
    <3>3. cl' \in [Slots -> ClientStates]
      BY <1>4 DEF UserClose, TypeOK, ClientTypeOK, ClientStates
    <3> QED BY <1>4, <3>2, <3>3 DEF UserClose, TypeOK, ClientTypeOK
  <2>2. WireTypeOK'
    BY <1>4, FramesTyped DEF UserClose, TypeOK, WireTypeOK
  <2> QED BY <1>4, <2>1, <2>2, Frame DEF UserClose, TypeOK
<1>5. CASE Pause
  <2>1. WireTypeOK'
    BY <1>5, FramesTyped DEF Pause, TypeOK, WireTypeOK
  <2>2. BookTypeOK'
    BY <1>5, FieldsTyped DEF Pause, TypeOK, BookTypeOK
  <2> QED BY <1>5, <2>1, <2>2, Frame DEF Pause, TypeOK
<1>6. CASE Resume
  <2>1. WireTypeOK'
    BY <1>6, FramesTyped DEF Resume, TypeOK, WireTypeOK
  <2>2. BookTypeOK'
    BY <1>6, FieldsTyped DEF Resume, TypeOK, BookTypeOK
  <2> QED BY <1>6, <2>1, <2>2, Frame DEF Resume, TypeOK
<1> QED BY <1>1, <1>2, <1>3, <1>4, <1>5, <1>6 DEF User

\* A part of a queue is a queue of the same frames.
LEMMA CutTyped ==
  ASSUME NEW S, NEW q \in Seq(S), NEW m \in 1 .. Len(q) + 1, NEW n \in 0 .. Len(q)
  PROVE  SubSeq(q, m, n) \in Seq(S)
OBVIOUS

\* Received frames keep the types.
LEMMA ClientTyped == ASSUME TypeOK, ClientTick \/ ClientEof \/ LinkBreak PROVE TypeOK'
<1>1. ASSUME NEW s \in Slots, ClientHandleStream(s) PROVE TypeOK'
  <2>1. s2c' \in Seq(ServerFrames) /\ UNCHANGED <<handlerVars, slotVars, bookVars>>
    BY <1>1 DEF ClientHandleStream, TypeOK, WireTypeOK
  <2>2. CASE ClearStreams
    <3>1. ClientTypeOK' /\ WireTypeOK'
      BY <2>1, <2>2, ClearTyped DEF WireTypeOK
    <3> QED BY <2>1, <3>1, Frame DEF TypeOK
  <2>3. CASE ~ClearStreams
    <3>1. UNCHANGED <<segs, c2s, link>>
      BY <1>1, <2>3 DEF ClientHandleStream
    <3>2. WireTypeOK'
      BY <2>1, <3>1 DEF TypeOK, WireTypeOK
    <3>3. cl' \in [Slots -> ClientStates]
      <4>1. cl \in [Slots -> ClientStates] /\ cl[s] \in ClientStates
        BY DEF TypeOK, ClientTypeOK
      <4>2. \/ cl' = [cl EXCEPT ![s] = Idle]
            \/ cl' = [cl EXCEPT ![s] = [cl[s] EXCEPT !.initing = FALSE]]
            \/ \E b \in BOOLEAN : cl' = [cl EXCEPT ![s] = [cl[s] EXCEPT !.connected = b]]
        <5> DEFINE b == cl[s].connected \/ Head(s2c).body = "connected"
        <5>1. b \in BOOLEAN
          OBVIOUS
        <5>2. \/ cl' = [cl EXCEPT ![s] = Idle]
              \/ cl' = [cl EXCEPT ![s] = [cl[s] EXCEPT !.initing = FALSE]]
              \/ cl' = [cl EXCEPT ![s] = [cl[s] EXCEPT !.connected = b]]
          BY <1>1, <2>3 DEF ClientHandleStream, ClientInitialize
        <5> HIDE DEF b
        <5> QED BY <5>1, <5>2
      <4> QED BY <4>1, <4>2, CellsTyped
    <3>4. cst' \in {"serving", "stopped", "desync"}
      BY <1>1, <2>3 DEF ClientHandleStream, ClientInitialize
    <3>5. ClientTypeOK'
      BY <3>1, <3>3, <3>4 DEF TypeOK, ClientTypeOK
    <3> QED BY <2>1, <3>2, <3>5, Frame DEF TypeOK
  <2> QED BY <2>2, <2>3
<1>2. ASSUME NEW s \in Slots, ClientHandleClose(s) PROVE TypeOK'
  <2>1. s2c' \in Seq(ServerFrames) /\ UNCHANGED <<handlerVars, slotVars, bookVars>>
    BY <1>2 DEF ClientHandleClose, TypeOK, WireTypeOK
  <2>2. CASE ClearStreams
    <3>1. ClientTypeOK' /\ WireTypeOK'
      BY <2>1, <2>2, ClearTyped DEF WireTypeOK
    <3> QED BY <2>1, <3>1, Frame DEF TypeOK
  <2>3. CASE ~ClearStreams
    <3>1. CloseReply(s) \in Seq(ClientFrames)
      BY FramesTyped DEF CloseReply
    <3>2. c2s' = c2s \o CloseReply(s) /\ link' = link
      BY <1>2, <2>3 DEF ClientHandleClose
    <3>6. WireTypeOK'
      BY <2>1, <3>1, <3>2 DEF TypeOK, WireTypeOK
    <3>3. cl' \in [Slots -> ClientStates]
      <4>1. cl' = [cl EXCEPT ![s] = AfterClose(s)]
        BY <1>2, <2>3 DEF ClientHandleClose
      <4>2. cl[s] \in ClientStates /\ cl \in [Slots -> ClientStates]
        BY DEF TypeOK, ClientTypeOK
      <4>3. AfterClose(s) \in ClientStates
        BY <4>2, CellsTyped DEF AfterClose
      <4> QED BY <4>1, <4>2, <4>3
    <3>4. segs' \in [Slots -> [left : Nat, late : BOOLEAN]]
      BY <1>2, <2>3, LateTyped DEF ClientHandleClose, TypeOK, ClientTypeOK
    <3>5. ClientTypeOK'
      BY <1>2, <2>3, <3>3, <3>4 DEF ClientHandleClose, TypeOK, ClientTypeOK
    <3> QED BY <2>1, <3>6, <3>5, Frame DEF TypeOK
  <2> QED BY <2>2, <2>3
<1>3. ASSUME NEW s \in Slots, ClientHandleCompleted(s) PROVE TypeOK'
  <2>1. s2c' \in Seq(ServerFrames) /\ UNCHANGED <<handlerVars, slotVars, bookVars>>
    BY <1>3 DEF ClientHandleCompleted, TypeOK, WireTypeOK
  <2>2. CASE ClearStreams
    <3>1. ClientTypeOK' /\ WireTypeOK'
      BY <2>1, <2>2, ClearTyped DEF WireTypeOK
    <3> QED BY <2>1, <3>1, Frame DEF TypeOK
  <2>3. CASE ~ClearStreams
    <3>1. WireTypeOK'
      BY <1>3, <2>1, <2>3 DEF ClientHandleCompleted, TypeOK, WireTypeOK
    <3>2. ClientTypeOK'
      BY <1>3, <2>3, CellsTyped DEF ClientHandleCompleted, TypeOK, ClientTypeOK
    <3> QED BY <2>1, <3>1, <3>2, Frame DEF TypeOK
  <2> QED BY <2>2, <2>3
<1>4. CASE ClientEof
  <2>1. ClientTypeOK' /\ WireTypeOK'
    BY <1>4, ClearTyped DEF ClientEof, TypeOK, WireTypeOK
  <2> QED BY <1>4, <2>1, Frame DEF ClientEof, TypeOK
<1>5. CASE LinkBreak
  <2>1. ClientTypeOK'
    BY <1>5 DEF LinkBreak, Idle, ClientTypeOK, ClientStates
  <2>2. WireTypeOK'
    <3>1. PICK n \in 0 .. Len(c2s) : c2s' = SubSeq(c2s, 1, n)
      BY <1>5 DEF LinkBreak
    <3>2. c2s' \in Seq(ClientFrames)
      BY <3>1, CutTyped DEF TypeOK, WireTypeOK
    <3>3. link' = FALSE /\ s2c' = <<>> /\ <<>> \in Seq(ServerFrames)
      BY <1>5 DEF LinkBreak
    <3> QED BY <3>2, <3>3 DEF WireTypeOK
  <2> QED BY <1>5, <2>1, <2>2, Frame DEF LinkBreak, TypeOK
<1> QED BY <1>1, <1>2, <1>3, <1>4, <1>5 DEF ClientTick

\* A write to the socket is of the server's frames, or goes nowhere.
LEMMA PutTyped ==
  ASSUME TypeOK, NEW f \in ServerFrames, Put(f)
  PROVE  s2c' \in Seq(ServerFrames)
BY DEF Put, TypeOK, WireTypeOK

\* Taking a frame off the queue of the client.
LEMMA TakeTyped ==
  ASSUME TypeOK, c2s # <<>>, c2s' = Tail(c2s), UNCHANGED <<s2c, link>>
  PROVE  WireTypeOK'
BY DEF TypeOK, WireTypeOK

\* The states the Handler goes through.
LEMMA HandlerStatesTyped ==
  ASSUME TypeOK
  PROVE  /\ h \in HandlerStates /\ h.slot \in Slots /\ Loop \in HandlerStates
         /\ [h EXCEPT !.at = "shutdown", !.then = "none"] \in HandlerStates
         /\ h.at = "boot" => h.then \in {"started", "refused"}
         /\ h.at = "machineClose" => [h EXCEPT !.at = "closeWait"] \in HandlerStates
         /\ h.at = "closeWait" /\ h.then = "completed"
              => [h EXCEPT !.at = "completed"] \in HandlerStates
         /\ h.at = "closeWait" /\ h.then = "release"
              => [h EXCEPT !.at = "released"] \in HandlerStates
         /\ h.at = "shutdown" => [h EXCEPT !.at = "done"] \in HandlerStates
<1>1. h \in HandlerStates
  BY DEF TypeOK, HandlerTypeOK
<1> QED BY <1>1 DEF HandlerStates, HandlerState, Loop

\* The states the Handler enters for a slot.
LEMMA HandlerBuildsTyped ==
  ASSUME NEW s \in Slots
  PROVE  /\ \A then \in {"completed", "release", "shutdown"} :
              [at |-> "machineClose", slot |-> s, then |-> then] \in HandlerStates
         /\ \A then \in {"started", "refused"} :
              [at |-> "boot", slot |-> s, then |-> then] \in HandlerStates
         /\ [at |-> "released", slot |-> s, then |-> "release"] \in HandlerStates
BY DEF HandlerStates, HandlerState

\* The end of Handle.
LEMMA FailTyped ==
  ASSUME TypeOK, NEW e \in HandlerErrors, Fail(e)
  PROVE  HandlerTypeOK'
BY HandlerStatesTyped DEF Fail, HandlerTypeOK

\* The handlers of received frames keep the types.
LEMMA HandlerTyped == ASSUME TypeOK, Handler PROVE TypeOK'
<1>0. h \in HandlerStates /\ h.slot \in Slots
  BY HandlerStatesTyped
<1>1. CASE HandleControl
  <2>1. WireTypeOK'
    BY <1>1, TakeTyped DEF HandleControl, AtLoop
  <2>2. HandlerTypeOK'
    BY <1>1 DEF HandleControl, TypeOK, HandlerTypeOK
  <2> QED BY <1>1, <2>1, <2>2, Frame DEF HandleControl, TypeOK
<1>2. ASSUME NEW s \in Slots, HandleTick(s) PROVE TypeOK'
  <2>1. WireTypeOK'
    BY <1>2, TakeTyped DEF HandleTick, AtLoop
  <2>2. HandlerTypeOK' /\ SlotTypeOK'
    <3>1. CASE UNCHANGED slotVars
      <4>1. HandlerTypeOK'
        <5>1. ASSUME UNCHANGED handlerVars PROVE HandlerTypeOK'
          BY <5>1, Frame
        <5>2. ASSUME ~UNCHANGED handlerVars PROVE Fail("machineClosed") \/ Fail("noRemote")
          BY <1>2, <5>2 DEF HandleTick, TelnetClient
        <5> QED BY <5>1, <5>2, FailTyped DEF HandlerErrors
      <4> QED BY <3>1, <4>1, Frame
    <3>2. CASE ~UNCHANGED slotVars
      <4>1. TelnetClient(s) /\ conn[s] # "none"
        BY <1>2, <3>2 DEF HandleTick, TelnetClient
      <4>2. PICK failed \in BOOLEAN : connClosed' = [connClosed EXCEPT ![s] = @ \/ failed]
        BY <4>1 DEF TelnetClient
      <4>3. connClosed' \in [Slots -> BOOLEAN]
        <5>1. (connClosed[s] \/ failed) \in BOOLEAN
          OBVIOUS
        <5> QED BY <4>2, <5>1 DEF TypeOK, SlotTypeOK
      <4>4. SlotTypeOK'
        BY <4>1, <4>3 DEF TelnetClient, TypeOK, SlotTypeOK
      <4>5. HandlerTypeOK'
        BY <4>1, Frame DEF TelnetClient
      <4> QED BY <4>4, <4>5
    <3> QED BY <3>1, <3>2
  <2> QED BY <1>2, <2>1, <2>2, Frame DEF HandleTick, TypeOK
<1>3. ASSUME NEW s \in Slots, HandleBoot(s) PROVE TypeOK'
  <2>1. WireTypeOK'
    BY <1>3, TakeTyped DEF HandleBoot, AtLoop
  <2>2. \/ h' = [at |-> "boot", slot |-> s, then |-> "refused"] /\ UNCHANGED slotVars
        \/ h' = [at |-> "boot", slot |-> s, then |-> "started"] /\ Bootup(s)
    BY <1>3 DEF HandleBoot
  <2>3. HandlerTypeOK'
    <3>1. needWait' = FALSE /\ UNCHANGED <<senderPaused, herr>>
      BY <1>3 DEF HandleBoot
    <3> QED BY <2>2, <3>1, HandlerBuildsTyped DEF TypeOK, HandlerTypeOK
  <2>4. SlotTypeOK'
    <3>1. CASE UNCHANGED slotVars
      BY <3>1, Frame
    <3>2. CASE Bootup(s)
      BY <3>2 DEF Bootup, TypeOK, SlotTypeOK, RemoteStates
    <3> QED BY <2>2, <3>1, <3>2
  <2>5. BookTypeOK'
    BY <1>3 DEF HandleBoot, ReadAsRequest, TypeOK, BookTypeOK
  <2> QED BY <1>3, <2>1, <2>3, <2>4, <2>5, Frame DEF HandleBoot, TypeOK
<1>4. CASE BootSignal
  <2>1. Stream(h.slot, h.then) \in ServerFrames
    BY <1>0, <1>4, FramesTyped, HandlerStatesTyped DEF BootSignal
  <2>2. WireTypeOK'
    BY <1>4, <2>1, PutTyped DEF BootSignal, TypeOK, WireTypeOK
  <2>3. HandlerTypeOK'
    BY <1>4, HandlerStatesTyped DEF BootSignal, Repause, TypeOK, HandlerTypeOK
  <2> QED BY <1>4, <2>2, <2>3, Frame DEF BootSignal, TypeOK
<1>5. ASSUME NEW s \in Slots, HandleClose(s) PROVE TypeOK'
  <2>1. WireTypeOK'
    BY <1>5, TakeTyped DEF HandleClose, AtLoop
  <2>2. HandlerTypeOK'
    <3>1. CASE UNCHANGED handlerVars
      BY <3>1, Frame
    <3>2. CASE Fail("closeInactive")
      BY <3>2, FailTyped DEF HandlerErrors
    <3>3. CASE CloseMachine(s, "completed") /\ needWait' = FALSE /\ UNCHANGED <<senderPaused, herr>>
      BY <3>3, HandlerBuildsTyped DEF CloseMachine, TypeOK, HandlerTypeOK
    <3> QED BY <1>5, <3>1, <3>2, <3>3 DEF HandleClose
  <2>3. SlotTypeOK'
    BY <1>5 DEF HandleClose, StreamClose, TypeOK, SlotTypeOK
  <2> QED BY <1>5, <2>1, <2>2, <2>3, Frame DEF HandleClose, TypeOK
<1>6. ASSUME NEW s \in Slots, HandleCompleted(s) PROVE TypeOK'
  <2>1. WireTypeOK'
    BY <1>6, TakeTyped DEF HandleCompleted, AtLoop
  <2>2. HandlerTypeOK'
    <3>1. CASE Fail("releaseInactive")
      BY <3>1, FailTyped DEF HandlerErrors
    <3>2. CASE ~Fail("releaseInactive")
      <4>1. /\ needWait' = FALSE /\ UNCHANGED <<senderPaused, herr>>
            /\ \/ CloseMachine(s, "release")
               \/ h' = [at |-> "released", slot |-> s, then |-> "release"]
        BY <1>6, <3>2 DEF HandleCompleted
      <4> QED BY <4>1, HandlerBuildsTyped DEF CloseMachine, TypeOK, HandlerTypeOK
    <3> QED BY <3>1, <3>2
  <2>3. SlotTypeOK'
    BY <1>6 DEF HandleCompleted, StreamRelease, TypeOK, SlotTypeOK
  <2> QED BY <1>6, <2>1, <2>2, <2>3, Frame DEF HandleCompleted, TypeOK
<1>7. CASE MachineClose
  <2>1. HandlerTypeOK'
    BY <1>7, HandlerStatesTyped DEF MachineClose, TypeOK, HandlerTypeOK
  <2>2. SlotTypeOK'
    BY <1>0, <1>7 DEF MachineClose, ConnClosedByClose, TypeOK, SlotTypeOK
  <2> QED BY <1>7, <2>1, <2>2, Frame DEF MachineClose, TypeOK
<1>8. CASE CloseWait
  <2>1. HandlerTypeOK'
    BY <1>8, HandlerStatesTyped DEF CloseWait, TypeOK, HandlerTypeOK
  <2>2. SlotTypeOK'
    BY <1>0, <1>8 DEF CloseWait, StreamRelease, TypeOK, SlotTypeOK
  <2> QED BY <1>8, <2>1, <2>2, Frame DEF CloseWait, TypeOK
<1>9. CASE SendCompleted
  <2>1. WireTypeOK'
    BY <1>0, <1>9, FramesTyped, PutTyped DEF SendCompleted, TypeOK, WireTypeOK
  <2>2. HandlerTypeOK'
    BY <1>9, HandlerStatesTyped DEF SendCompleted, Repause, TypeOK, HandlerTypeOK
  <2> QED BY <1>9, <2>1, <2>2, Frame DEF SendCompleted, TypeOK
<1>10. CASE Released
  <2>1. HandlerTypeOK'
    BY <1>10, HandlerStatesTyped DEF Released, Repause, TypeOK, HandlerTypeOK
  <2> QED BY <1>10, <2>1, Frame DEF Released, TypeOK
<1>11. CASE HandleEof
  BY <1>11, FailTyped, Frame DEF HandleEof, HandlerErrors, TypeOK
<1>12. CASE Shutdown
  <2>1. UNCHANGED <<clientVars, wireVars, senderPaused, needWait, herr,
                    rem, conn, connClosed, bookVars>>
    BY <1>12 DEF Shutdown
  <2>2. ASSUME NEW s \in Slots, StreamClose(s), CloseMachine(s, "shutdown") PROVE TypeOK'
    <3>1. HandlerTypeOK'
      BY <2>1, <2>2, HandlerBuildsTyped DEF CloseMachine, TypeOK, HandlerTypeOK
    <3>2. SlotTypeOK'
      BY <2>1, <2>2 DEF StreamClose, TypeOK, SlotTypeOK
    <3> QED BY <2>1, <3>1, <3>2, Frame DEF TypeOK
  <2>3. ASSUME NEW s \in Slots, StreamRelease(s), UNCHANGED h PROVE TypeOK'
    <3>1. HandlerTypeOK'
      BY <2>1, <2>3 DEF TypeOK, HandlerTypeOK
    <3>2. SlotTypeOK'
      BY <2>1, <2>3 DEF StreamRelease, TypeOK, SlotTypeOK
    <3> QED BY <2>1, <3>1, <3>2, Frame DEF TypeOK
  <2>4. CASE h' = [h EXCEPT !.at = "done"] /\ UNCHANGED srv
    <3>1. HandlerTypeOK'
      BY <1>12, <2>1, <2>4, HandlerStatesTyped DEF Shutdown, TypeOK, HandlerTypeOK
    <3>2. SlotTypeOK'
      BY <2>1, <2>4 DEF TypeOK, SlotTypeOK
    <3> QED BY <2>1, <3>1, <3>2, Frame DEF TypeOK
  <2> QED BY <1>12, <2>2, <2>3, <2>4 DEF Shutdown
<1> QED
  BY <1>1, <1>2, <1>3, <1>4, <1>5, <1>6, <1>7, <1>8, <1>9, <1>10, <1>11, <1>12 DEF Handler


\* The steps of the remote goroutines keep the types.
LEMMA RemoteTyped == ASSUME TypeOK, NEW s \in Slots, Remote(s) PROVE TypeOK'
<1>1. UNCHANGED <<clientVars, c2s, link, handlerVars, srv, connClosed, lateSeg, misread>>
  BY DEF Remote, RemoteHookOutput, RemoteDial, RemoteDialFailed, RemoteConnected,
         RemoteDeliver, RemoteBand, RemoteReadError, RemoteSignalClose, RemoteDone, RemoteFrame
<1>2. UNCHANGED <<s2c, overtaken>> \/ \E f \in ServerFrames : RemoteWrite(s, f)
  BY FramesTyped
     DEF Remote, RemoteHookOutput, RemoteDial, RemoteDialFailed, RemoteConnected,
         RemoteDeliver, RemoteBand, RemoteReadError, RemoteSignalClose, RemoteDone
<1>3. WireTypeOK'
  <2>1. s2c' \in Seq(ServerFrames)
    BY <1>2, PutTyped DEF RemoteWrite, TypeOK, WireTypeOK
  <2> QED BY <1>1, <2>1 DEF TypeOK, WireTypeOK
<1>4. overtaken' \in BOOLEAN
  BY <1>2 DEF RemoteWrite, TypeOK, BookTypeOK
<1>5. UNCHANGED used \/ used' = [used EXCEPT !.out = @ + 1]
  BY DEF Remote, RemoteHookOutput, RemoteDial, RemoteDialFailed, RemoteConnected,
         RemoteDeliver, RemoteBand, RemoteReadError, RemoteSignalClose, RemoteDone
<1>6. BookTypeOK'
  BY <1>1, <1>4, <1>5, FieldsTyped DEF TypeOK, BookTypeOK
<1>7. UNCHANGED rem \/ \E to \in RemoteStates : rem' = [rem EXCEPT ![s] = to]
  BY DEF Remote, RemoteHookOutput, RemoteDial, RemoteDialFailed, RemoteConnected,
         RemoteDeliver, RemoteBand, RemoteReadError, RemoteSignalClose, RemoteDone,
         Step, RemoteStates
<1>8. UNCHANGED conn \/ conn' = [conn EXCEPT ![s] = "queued"]
  BY DEF Remote, RemoteHookOutput, RemoteDial, RemoteDialFailed, RemoteConnected,
         RemoteDeliver, RemoteBand, RemoteReadError, RemoteSignalClose, RemoteDone, Deliver
<1>9. SlotTypeOK'
  BY <1>1, <1>7, <1>8 DEF TypeOK, SlotTypeOK
<1> QED BY <1>1, <1>3, <1>6, <1>9, Frame DEF TypeOK

\* What the Handler reads out of lost frame boundaries is of the client's frames.
LEMMA MisframeTyped == ASSUME TypeOK, Misframe PROVE TypeOK'
<1>1. WireTypeOK'
  <2>1. CASE UNCHANGED c2s
    BY <2>1 DEF Misframe, TypeOK, WireTypeOK
  <2>2. ASSUME NEW f \in ClientFrames, NEW n \in 0 .. Len(c2s),
               c2s' = <<f>> \o SubSeq(c2s, n + 1, Len(c2s))
        PROVE  WireTypeOK'
    <3>1. SubSeq(c2s, n + 1, Len(c2s)) \in Seq(ClientFrames)
      BY CutTyped DEF TypeOK, WireTypeOK
    <3>2. c2s' \in Seq(ClientFrames)
      BY <2>2, <3>1
    <3> QED BY <3>2 DEF Misframe, TypeOK, WireTypeOK
  <2> QED BY <2>1, <2>2 DEF Misframe
<1>2. HandlerTypeOK'
  BY FailTyped, Frame DEF Misframe, HandlerErrors
<1>3. BookTypeOK'
  BY FieldsTyped DEF Misframe, TypeOK, BookTypeOK
<1> QED BY <1>1, <1>2, <1>3, Frame DEF Misframe, TypeOK

\* Every step of the connection keeps the types.
LEMMA NextTyped == TypeOK /\ [Next]_vars => TypeOK'
<1> SUFFICES ASSUME TypeOK, [Next]_vars PROVE TypeOK'
  OBVIOUS
<1>1. CASE UNCHANGED vars
  BY <1>1, Frame DEF vars, TypeOK
<1>2. CASE Terminated
  BY <1>1, <1>2 DEF Terminated
<1> QED BY <1>1, <1>2, UserTyped, ClientTyped, HandlerTyped, MisframeTyped, RemoteTyped DEF Next

\* The states and the queues of both ends always hold values their code can give
\* them; in particular an initial response is sent only while booting.
THEOREM TypeCorrect == Spec => []TypeOK
BY InitTyped, NextTyped, PTL DEF Spec

----------------------------------------------------------------------------
(* One live goroutine per slot.                                             *)

\* What keeps a slot from being emptied under a live goroutine: only a slot the
\* Handler is closing may be closed or empty while its goroutine runs.
ClosingSlot(s) == h.slot = s /\ h.at \in {"machineClose", "closeWait"}
ClosedAreStopped ==
  \A s \in Slots : srv[s] # "open" /\ ~ClosingSlot(s) => rem[s] \in {"none", "done"}

\* It holds at the start and every step keeps it.
LEMMA InitStopped == Init => ClosedAreStopped
BY DEF Init, ClosedAreStopped

\* Only booting starts a goroutine, and only the close wait ends a closing.
LEMMA NextStopped == TypeOK /\ ClosedAreStopped /\ [Next]_vars => ClosedAreStopped'
<1> SUFFICES ASSUME TypeOK, ClosedAreStopped, [Next]_vars, NEW s \in Slots,
                    srv'[s] # "open", ~ClosingSlot(s)'
             PROVE  rem'[s] \in {"none", "done"}
  BY DEF ClosedAreStopped
<1>1. CASE UNCHANGED <<h, srv, rem>>
  BY <1>1 DEF ClosedAreStopped, ClosingSlot
<1>2. CASE User \/ ClientTick \/ ClientEof \/ LinkBreak \/ Terminated \/ UNCHANGED vars
  <2>1. UNCHANGED <<h, srv, rem>>
    BY <1>2 DEF User, Request, SendData, NextSegment, UserClose, Pause, Resume, ClientTick,
                ClientHandleStream, ClientHandleClose, ClientHandleCompleted, ClientEof,
                LinkBreak, Terminated, vars, handlerVars, slotVars
  <2> QED BY <1>1, <2>1
<1>3. CASE Handler
  <2>1. ASSUME UNCHANGED <<srv, rem>>, ~ClosingSlot(s) PROVE rem'[s] \in {"none", "done"}
    BY <2>1 DEF ClosedAreStopped
  <2>2. ASSUME NEW t \in Slots, HandleBoot(t) PROVE rem'[s] \in {"none", "done"}
    BY <2>2 DEF HandleBoot, Bootup, AtLoop, ClosedAreStopped, ClosingSlot, slotVars,
                TypeOK, SlotTypeOK
  <2>3. ASSUME NEW t \in Slots, HandleClose(t) PROVE rem'[s] \in {"none", "done"}
    BY <2>3 DEF HandleClose, StreamClose, CloseMachine, AtLoop, ClosedAreStopped, ClosingSlot,
                TypeOK, SlotTypeOK
  <2>4. ASSUME NEW t \in Slots, HandleCompleted(t) PROVE rem'[s] \in {"none", "done"}
    BY <2>4 DEF HandleCompleted, StreamRelease, CloseMachine, AtLoop, ClosedAreStopped,
                ClosingSlot, TypeOK, SlotTypeOK
  <2>5. CASE MachineClose
    BY <2>5, HandlerStatesTyped DEF MachineClose, ClosedAreStopped, ClosingSlot
  <2>6. CASE CloseWait
    BY <2>6 DEF CloseWait, WaitOver, StreamRelease, ClosedAreStopped, ClosingSlot,
                TypeOK, SlotTypeOK
  <2>7. CASE Shutdown
    BY <2>7 DEF Shutdown, StreamClose, StreamRelease, CloseMachine, ClosedAreStopped,
                ClosingSlot, TypeOK, SlotTypeOK
  <2>8. CASE HandleControl \/ BootSignal \/ SendCompleted \/ Released \/ HandleEof
             \/ \E t \in Slots : HandleTick(t)
    <3>1. UNCHANGED <<srv, rem>>
      BY <2>8 DEF HandleControl, BootSignal, SendCompleted, Released, HandleEof, HandleTick,
                  TelnetClient, slotVars
    <3>2. ~ClosingSlot(s)
      BY <2>8 DEF HandleControl, BootSignal, SendCompleted, Released, HandleEof, HandleTick,
                  AtLoop, ClosingSlot
    <3> QED BY <2>1, <3>1, <3>2
  <2> QED BY <1>3, <2>2, <2>3, <2>4, <2>5, <2>6, <2>7, <2>8 DEF Handler
<1>4. ASSUME NEW t \in Slots, Remote(t) PROVE rem'[s] \in {"none", "done"}
  <2>1. UNCHANGED <<h, srv>>
    BY <1>4 DEF Remote, RemoteHookOutput, RemoteDial, RemoteDialFailed, RemoteConnected,
                RemoteDeliver, RemoteBand, RemoteReadError, RemoteSignalClose, RemoteDone,
                RemoteFrame, handlerVars
  <2>2. rem[s] \in {"none", "done"}
    BY <2>1 DEF ClosedAreStopped, ClosingSlot
  <2>3. rem'[s] = rem[s] \/ rem'[s] = "done"
    BY <1>4, <2>2 DEF Remote, RemoteHookOutput, RemoteDial, RemoteDialFailed, RemoteConnected,
                RemoteDeliver, RemoteBand, RemoteReadError, RemoteSignalClose, RemoteDone, Step,
                TypeOK, SlotTypeOK
  <2> QED BY <2>2, <2>3
<1>5. CASE Misframe
  <2>1. UNCHANGED <<srv, rem>> /\ ~ClosingSlot(s)
    BY <1>5 DEF Misframe, slotVars, ClosingSlot
  <2> QED BY <2>1 DEF ClosedAreStopped
<1> QED BY <1>2, <1>3, <1>4, <1>5 DEF Next

\* A slot is released only after its remote goroutine has ended: Close waits on
\* closeWait before Release, on every path through handlers and shutdown.
THEOREM NoOrphanGoroutine == Spec => []ReleasedMeansStopped
<1>1. ClosedAreStopped => ReleasedMeansStopped
  BY DEF ClosedAreStopped, ReleasedMeansStopped, ClosingSlot
<1> QED BY <1>1, InitTyped, NextTyped, InitStopped, NextStopped, PTL DEF Spec


----------------------------------------------------------------------------
(* Silence while paused.                                                    *)

\* Between two requests a paused sender waits.
PausedWaits == senderPaused /\ h.at = "loop" => needWait

\* It holds at the start: nothing is paused.
LEMMA InitWaits == Init => PausedWaits
BY DEF Init, PausedWaits

\* Only handleControl pauses, and every handler that resumed for a while pauses
\* again before it returns to the loop.
LEMMA NextWaits == TypeOK /\ PausedWaits /\ [Next]_vars => PausedWaits'
<1> SUFFICES ASSUME TypeOK, PausedWaits, [Next]_vars PROVE PausedWaits'
  OBVIOUS
<1>1. ASSUME UNCHANGED handlerVars PROVE PausedWaits'
  BY <1>1 DEF PausedWaits, handlerVars
<1>2. CASE User \/ ClientTick \/ ClientEof \/ LinkBreak \/ Terminated \/ UNCHANGED vars
           \/ \E s \in Slots : Remote(s)
  <2>1. UNCHANGED handlerVars
    BY <1>2 DEF User, Request, SendData, NextSegment, UserClose, Pause, Resume, ClientTick,
                ClientHandleStream, ClientHandleClose, ClientHandleCompleted, ClientEof,
                LinkBreak, Terminated, vars, Remote, RemoteHookOutput, RemoteDial,
                RemoteDialFailed, RemoteConnected, RemoteDeliver, RemoteBand,
                RemoteReadError, RemoteSignalClose, RemoteDone, RemoteFrame
  <2> QED BY <1>1, <2>1
<1>3. CASE Handler
  <2>1. h \in HandlerStates
    BY HandlerStatesTyped
  <2>2. ASSUME ~senderPaused' \/ h'.at # "loop" PROVE PausedWaits'
    BY <2>2 DEF PausedWaits
  <2>3. CASE HandleControl
    BY <2>3 DEF HandleControl, PausedWaits
  <2>4. ASSUME NEW s \in Slots, HandleTick(s) PROVE PausedWaits'
    <3>1. UNCHANGED handlerVars \/ ~senderPaused'
      BY <2>4 DEF HandleTick, TelnetClient, Fail
    <3> QED BY <1>1, <2>2, <3>1
  <2>5. ASSUME NEW s \in Slots, HandleBoot(s) PROVE PausedWaits'
    <3>1. ~senderPaused' \/ h'.at = "boot"
      BY <2>5 DEF HandleBoot
    <3> QED BY <2>2, <3>1
  <2>6. ASSUME NEW s \in Slots, HandleClose(s) PROVE PausedWaits'
    <3>1. UNCHANGED handlerVars \/ ~senderPaused' \/ h'.at = "machineClose"
      BY <2>6 DEF HandleClose, CloseMachine, Fail
    <3> QED BY <1>1, <2>2, <3>1
  <2>7. ASSUME NEW s \in Slots, HandleCompleted(s) PROVE PausedWaits'
    <3>1. ~senderPaused' \/ h'.at \in {"machineClose", "released"}
      BY <2>7 DEF HandleCompleted, CloseMachine, Fail
    <3> QED BY <2>2, <3>1
  <2>8. CASE BootSignal \/ SendCompleted \/ Released
    <3>1. needWait' = senderPaused /\ senderPaused' = senderPaused
      BY <2>8 DEF BootSignal, SendCompleted, Released, Repause
    <3> QED BY <3>1, Zenon DEF PausedWaits
  <2>9. CASE MachineClose \/ CloseWait
    <3>1. h'.at # "loop"
      BY <2>1, <2>9 DEF MachineClose, CloseWait, HandlerStates, HandlerState
    <3> QED BY <2>2, <3>1
  <2>10. CASE HandleEof
    BY <2>2, <2>10 DEF HandleEof, Fail
  <2>11. CASE Shutdown
    <3>1. h'.at # "loop"
      BY <2>1, <2>11 DEF Shutdown, CloseMachine, HandlerStates, HandlerState
    <3> QED BY <2>2, <3>1
  <2> QED BY <1>3, <2>3, <2>4, <2>5, <2>6, <2>7, <2>8, <2>9, <2>10, <2>11 DEF Handler
<1>4. CASE Misframe
  <2>1. UNCHANGED handlerVars \/ ~senderPaused'
    BY <1>4 DEF Misframe, Fail
  <2> QED BY <1>1, <2>1 DEF PausedWaits
<1> QED BY <1>2, <1>3, <1>4 DEF Next

\* While the sender waits and the Handler is in its loop nothing is written.
LEMMA WaitingIsSilent ==
  ASSUME TypeOK, PausedWaits, [Next]_vars, senderPaused, h.at = "loop"
  PROVE  Len(s2c') <= Len(s2c)
<1>1. s2c \in Seq(ServerFrames) /\ Len(s2c) \in Nat
  BY DEF TypeOK, WireTypeOK
<1>2. ASSUME UNCHANGED s2c PROVE Len(s2c') <= Len(s2c)
  BY <1>1, <1>2
<1>3. ASSUME s2c # <<>>, s2c' = Tail(s2c) PROVE Len(s2c') <= Len(s2c)
  BY <1>1, <1>3
<1>4. CASE User \/ ClientEof \/ Terminated \/ UNCHANGED vars
  BY <1>2, <1>4 DEF User, Request, SendData, NextSegment, UserClose, Pause, Resume, ClientEof,
                    Terminated, vars, wireVars
<1>5. CASE ClientTick
  BY <1>3, <1>5 DEF ClientTick, ClientHandleStream, ClientHandleClose, ClientHandleCompleted
<1>6. CASE LinkBreak
  <2>1. s2c' = <<>>
    BY <1>6 DEF LinkBreak
  <2> QED BY <1>1, <2>1
<1>7. CASE Handler
  <2>1. UNCHANGED s2c
    BY <1>7 DEF Handler, HandleControl, HandleTick, HandleBoot, HandleClose, HandleCompleted,
                BootSignal, MachineClose, CloseWait, SendCompleted, Released, HandleEof,
                Shutdown, wireVars
  <2> QED BY <1>2, <2>1
<1>8. ASSUME NEW s \in Slots, Remote(s) PROVE Len(s2c') <= Len(s2c)
  <2>1. needWait
    BY DEF PausedWaits
  <2>2. UNCHANGED s2c
    BY <1>8, <2>1 DEF Remote, RemoteHookOutput, RemoteDial, RemoteDialFailed, RemoteConnected,
                      RemoteDeliver, RemoteBand, RemoteReadError, RemoteSignalClose, RemoteDone,
                      RemoteWrite
  <2> QED BY <1>2, <2>2
<1>9. CASE Misframe
  BY <1>2, <1>9 DEF Misframe
<1> QED BY <1>4, <1>5, <1>6, <1>7, <1>8, <1>9 DEF Next

\* A client that asked for silence gets it: the temporary resumes of handleStream,
\* handleClose and handleCompleted are all undone before the next request.
THEOREM PauseIsObeyed == Spec => PausedIsSilent
<1>1. TypeOK /\ PausedWaits /\ [Next]_vars
        => [senderPaused /\ h.at = "loop" => Len(s2c') <= Len(s2c)]_vars
  BY WaitingIsSilent
<1> QED BY <1>1, InitTyped, NextTyped, InitWaits, NextWaits, PTL DEF Spec, PausedIsSilent

----------------------------------------------------------------------------
(* The close handshake.                                                     *)

In(q, f) == \E i \in 1 .. Len(q) : q[i] = f
Once(q, f) == \A i, j \in 1 .. Len(q) : q[i] = f /\ q[j] = f => i = j
Before(q, f, g) == \A i, j \in 1 .. Len(q) : q[i] = f /\ q[j] = g => i < j

Responses(s) == {Stream(s, "started"), Stream(s, "refused")}
Dialogue(s)  == {Stream(s, "connected"), Stream(s, "failed"), Stream(s, "hook")}

\* Frame f is ahead of position i.
Ahead(q, i, f) == \E j \in 1 .. Len(q) : j < i /\ q[j] = f

\* Slot s in state c accepts the frame at position i after those ahead of it.
Fits(q, i, s, c) ==
  /\ c.active
  /\ c.shut => q[i] = Completed(s)
  /\ c.connected => q[i] \notin Dialogue(s)
  /\ q[i] \in Responses(s) => c.initing
  /\ c.initing => q[i] \in Responses(s) \/ Ahead(q, i, Stream(s, "started"))
  /\ q[i] = Completed(s) => c.shut \/ Ahead(q, i, Close(s))
  /\ q[i] = Stream(s, "band") => c.connected \/ Ahead(q, i, Stream(s, "connected"))

\* Frame g may follow frame f, at once or later.
Follows(s, f, g) ==
  /\ f \notin {Completed(s), Stream(s, "refused")} /\ g \notin Responses(s)
  /\ f = Close(s) => g = Completed(s)
  /\ f = Stream(s, "connected") => g \notin Dialogue(s)

\* The frames of slot s in q are those the slot accepts one after the other in state c.
Lane(q, s, c) ==
  /\ \A i \in 1 .. Len(q) : q[i].slot = s => Fits(q, i, s, c)
  /\ \A i, j \in 1 .. Len(q) : i < j /\ q[i].slot = s /\ q[j].slot = s => Follows(s, q[i], q[j])

Quiet(q, s) == \A i \in 1 .. Len(q) : q[i].slot # s

Owes(s)  == h.slot = s /\ h.then = "completed"
Boots(s) == h.slot = s /\ h.at = "boot"
Runs(s)  == rem[s] \notin {"none", "signalled", "done"}

Asks(s)   == In(c2s, Stream(s, "initial"))
Closes(s) == In(c2s, Close(s))
Acks(s)   == In(c2s, Completed(s))

\* What the browser has sent of slot s and the backend has not read.
UpOrder(s) ==
  /\ Once(c2s, Stream(s, "initial")) /\ Once(c2s, Close(s)) /\ Once(c2s, Completed(s))
  /\ Before(c2s, Close(s), Completed(s)) /\ Before(c2s, Completed(s), Stream(s, "initial"))

UpLane(s) ==
  /\ Closes(s) => cl[s].sclosed /\ ~Asks(s)
  /\ Acks(s) => cl[s].shut \/ ~cl[s].active \/ Asks(s)
  /\ Asks(s) => cl[s].active /\ cl[s].initing /\ Quiet(s2c, s) /\ srv[s] # "open"
                /\ (srv[s] = "closed" => Acks(s))

\* How far the browser's side of the slot is.
ClientPhase(s) ==
  /\ ~cl[s].active => cl[s] = Idle /\ ~Closes(s) /\ srv[s] # "open" /\ (srv[s] = "closed" => Acks(s))
  /\ cl[s].initing => ~cl[s].connected /\ ~cl[s].sclosed /\ ~cl[s].shut
  /\ cl[s].shut => cl[s].sclosed /\ (srv[s] = "empty" \/ Acks(s))
  /\ srv[s] = "open" => cl[s].active /\ (cl[s].sclosed => Closes(s))

\* How far the Handler is with the slot.
HandlerPhase(s) ==
  /\ Boots(s) => /\ cl[s].active /\ cl[s].initing /\ Quiet(s2c, s) /\ ~Asks(s) /\ ~Acks(s)
                 /\ h.then = "started" => srv[s] = "open" /\ rem[s] \in {"dialing", "dialed", "failed"}
                 /\ h.then = "refused" => srv[s] = "empty"
  /\ Owes(s) => srv[s] = "closed" /\ cl[s].active /\ cl[s].sclosed /\ ~Closes(s) /\ ~In(s2c, Completed(s))
  /\ srv[s] = "open" => ~In(s2c, Completed(s)) /\ ~In(s2c, Stream(s, "refused"))
  /\ In(s2c, Stream(s, "refused")) => srv[s] = "empty" /\ ~Acks(s)
  /\ In(s2c, Completed(s)) => cl[s].sclosed /\ ~Closes(s) /\ ~Runs(s)

\* How far the remote goroutine is.
RemotePhase(s) ==
  /\ Runs(s) => srv[s] # "empty" /\ cl[s].active /\ ~cl[s].shut /\ ~Asks(s) /\ ~In(s2c, Close(s))
                /\ (cl[s].initing => Boots(s) \/ In(s2c, Stream(s, "started")))
  /\ rem[s] \in {"dialing", "dialed", "failed"} =>
       ~cl[s].connected /\ ~In(s2c, Stream(s, "connected"))
  /\ rem[s] \in {"announced", "reading"} => cl[s].connected \/ In(s2c, Stream(s, "connected"))
  /\ (srv[s] = "open" \/ Owes(s)) /\ ~Runs(s) => cl[s].shut \/ In(s2c, Close(s))

Handshake(s) ==
  Lane(s2c, s, cl[s]) /\ UpOrder(s) /\ UpLane(s) /\ ClientPhase(s) /\ HandlerPhase(s) /\ RemotePhase(s)

InStep == cst = "serving" /\ Framed => link /\ \A s \in Slots : Handshake(s)

\* The frames of a slot differ from one another, and from those of other slots.
LEMMA FramesDiffer ==
  ASSUME NEW s
  PROVE  /\ Close(s) # Completed(s)
         /\ \A b : Stream(s, b) # Close(s) /\ Stream(s, b) # Completed(s) /\ Stream(s, b).slot = s
         /\ \A a, b : Stream(s, a) = Stream(s, b) => a = b
         /\ Close(s).slot = s /\ Completed(s).slot = s
         /\ \A b : Control(b) # Close(s) /\ Control(b) # Completed(s) /\ \A a : Control(b) # Stream(s, a)
BY DEF Stream, Close, Completed, Control

\* Queues: what the head and what an appended frame changes.
LEMMA TailFacts ==
  ASSUME NEW T, NEW q \in Seq(T), q # <<>>
  PROVE  /\ \A f : In(q, f) <=> In(Tail(q), f) \/ f = Head(q)
         /\ \A f : Once(q, f) => Once(Tail(q), f) /\ (f = Head(q) => ~In(Tail(q), f))
         /\ \A f, g : Before(q, f, g) => Before(Tail(q), f, g) /\ (g = Head(q) => ~In(q, f))
         /\ \A s : Quiet(q, s) <=> Quiet(Tail(q), s) /\ Head(q).slot # s
<1>1. /\ Len(q) \in Nat /\ Len(q) > 0 /\ Head(q) = q[1] /\ 1 \in 1 .. Len(q)
      /\ Len(Tail(q)) = Len(q) - 1
      /\ \A i \in 1 .. Len(Tail(q)) : i + 1 \in 1 .. Len(q) /\ Tail(q)[i] = q[i + 1] /\ 1 < i + 1
      /\ \A i \in 1 .. Len(q) : i = 1 \/ (i - 1 \in 1 .. Len(Tail(q)) /\ Tail(q)[i - 1] = q[i])
  OBVIOUS
<1>2. \A f : In(q, f) <=> In(Tail(q), f) \/ f = Head(q)
  BY <1>1 DEF In
<1>3. \A f : Once(q, f) => Once(Tail(q), f) /\ (f = Head(q) => ~In(Tail(q), f))
  BY <1>1 DEF In, Once
<1>4. \A f, g : Before(q, f, g) => Before(Tail(q), f, g) /\ (g = Head(q) => ~In(q, f))
  BY <1>1 DEF In, Before
<1>5. \A s : Quiet(q, s) <=> Quiet(Tail(q), s) /\ Head(q).slot # s
  BY <1>1 DEF Quiet
<1> QED BY <1>2, <1>3, <1>4, <1>5

\* The same for an appended frame.
LEMMA AppendFacts ==
  ASSUME NEW T, NEW q \in Seq(T), NEW e
  PROVE  /\ \A f : In(Append(q, e), f) <=> In(q, f) \/ f = e
         /\ \A f : Once(q, f) /\ (f = e => ~In(q, f)) => Once(Append(q, e), f)
         /\ \A f, g : Before(q, f, g) /\ (f = e => ~In(q, g) /\ f # g) => Before(Append(q, e), f, g)
         /\ \A s : Quiet(Append(q, e), s) <=> Quiet(q, s) /\ e.slot # s
<1>1. /\ Len(q) \in Nat /\ Len(Append(q, e)) = Len(q) + 1 /\ Append(q, e)[Len(q) + 1] = e
      /\ \A i \in 1 .. Len(q) : Append(q, e)[i] = q[i] /\ i \in 1 .. Len(Append(q, e))
      /\ \A i \in 1 .. Len(Append(q, e)) : i = Len(q) + 1 \/ i \in 1 .. Len(q)
      /\ Len(q) + 1 \in 1 .. Len(Append(q, e))
  OBVIOUS
<1>2. \A f : In(Append(q, e), f) <=> In(q, f) \/ f = e
  BY <1>1 DEF In
<1>3. \A f : Once(q, f) /\ (f = e => ~In(q, f)) => Once(Append(q, e), f)
  BY <1>1 DEF In, Once
<1>4. \A f, g : Before(q, f, g) /\ (f = e => ~In(q, g) /\ f # g) => Before(Append(q, e), f, g)
  BY <1>1 DEF In, Before
<1>5. \A s : Quiet(Append(q, e), s) <=> Quiet(q, s) /\ e.slot # s
  BY <1>1 DEF Quiet
<1> QED BY <1>2, <1>3, <1>4, <1>5

\* Lanes.
LEMMA QuietLane == ASSUME NEW q, NEW s, NEW c, Quiet(q, s) PROVE Lane(q, s, c)
BY DEF Quiet, Lane

\* A slot with a frame under way is not quiet.
LEMMA InNotQuiet ==
  ASSUME NEW q, NEW f, In(q, f) PROVE ~Quiet(q, f.slot)
BY DEF In, Quiet

\* A lane looks at four fields of the slot only.
LEMMA LaneSame ==
  ASSUME NEW q, NEW s, NEW c, NEW d, Lane(q, s, c), d.active = c.active, d.shut = c.shut,
         d.connected = c.connected, d.initing = c.initing
  PROVE  Lane(q, s, d)
BY DEF Lane, Fits

\* The head of a lane is what the slot accepts now.
LEMMA LaneHead ==
  ASSUME NEW q \in Seq(ServerFrames), q # <<>>, NEW s, NEW c, Lane(q, s, c), Head(q).slot = s
  PROVE  /\ c.active
         /\ c.shut => Head(q) = Completed(s)
         /\ c.connected => Head(q) \notin Dialogue(s)
         /\ Head(q) \in Responses(s) <=> c.initing
         /\ Head(q) = Completed(s) => c.shut
         /\ Head(q) = Stream(s, "band") => c.connected
<1>1. Len(q) > 0 /\ Head(q) = q[1] /\ 1 \in 1 .. Len(q) /\ \A f : ~Ahead(q, 1, f)
  BY DEF Ahead
<1> QED BY <1>1 DEF Lane, Fits

\* Positions after the head is gone.
LEMMA Shift ==
  ASSUME NEW T, NEW q \in Seq(T), q # <<>>
  PROVE  /\ \A i \in 1 .. Len(Tail(q)) :
              /\ i + 1 \in 1 .. Len(q) /\ Tail(q)[i] = q[i + 1]
              /\ \A f : Ahead(q, i + 1, f) <=> Head(q) = f \/ Ahead(Tail(q), i, f)
         /\ \A i, j \in 1 .. Len(Tail(q)) : i < j => i + 1 < j + 1
         /\ 1 \in 1 .. Len(q) /\ q[1] = Head(q) /\ \A i \in 1 .. Len(Tail(q)) : 1 < i + 1
<1> DEFINE r == Tail(q)
<1>1. /\ Len(q) \in Nat /\ Len(q) > 0 /\ Head(q) = q[1] /\ 1 \in 1 .. Len(q)
      /\ Len(r) = Len(q) - 1
      /\ \A i \in 1 .. Len(r) : i + 1 \in 1 .. Len(q) /\ r[i] = q[i + 1]
      /\ \A i \in 1 .. Len(q) : i = 1 \/ (i - 1 \in 1 .. Len(r) /\ r[i - 1] = q[i])
  OBVIOUS
<1> HIDE DEF r
<1>2. ASSUME NEW i \in 1 .. Len(r), NEW f, Ahead(q, i + 1, f), Head(q) # f PROVE Ahead(r, i, f)
  <2>1. PICK j \in 1 .. Len(q) : j < i + 1 /\ q[j] = f
    BY <1>2 DEF Ahead
  <2>2. j - 1 \in 1 .. Len(r) /\ r[j - 1] = f /\ j - 1 < i
    BY <1>1, <1>2, <2>1
  <2> QED BY <2>2 DEF Ahead
<1>3. ASSUME NEW i \in 1 .. Len(r), NEW f, Head(q) = f \/ Ahead(r, i, f) PROVE Ahead(q, i + 1, f)
  BY <1>1, <1>3 DEF Ahead
<1>4. \A i, j \in 1 .. Len(r) : i < j => i + 1 < j + 1
  BY <1>1
<1>5. \A i \in 1 .. Len(r) : \A f : Ahead(q, i + 1, f) <=> Head(q) = f \/ Ahead(r, i, f)
  BY <1>2, <1>3
<1>6. \A i \in 1 .. Len(r) : 1 < i + 1
  BY <1>1
<1>7. /\ \A i \in 1 .. Len(r) : i + 1 \in 1 .. Len(q) /\ r[i] = q[i + 1]
      /\ 1 \in 1 .. Len(q) /\ q[1] = Head(q)
  BY <1>1
<1> QED BY <1>4, <1>5, <1>6, <1>7, Zenon DEF r

\* Another slot's frame at the head.
LEMMA LaneSkip ==
  ASSUME NEW q \in Seq(ServerFrames), q # <<>>, NEW s, NEW c, Lane(q, s, c), Head(q).slot # s
  PROVE  Lane(Tail(q), s, c)
<1>1. Head(q) # Stream(s, "started") /\ Head(q) # Close(s) /\ Head(q) # Stream(s, "connected")
  BY FramesDiffer
<1>2. ASSUME NEW i \in 1 .. Len(Tail(q)), Tail(q)[i].slot = s PROVE Fits(Tail(q), i, s, c)
  <2>1. Fits(q, i + 1, s, c)
    BY <1>2, Shift DEF Lane
  <2> QED BY <1>1, <1>2, <2>1, Shift DEF Fits
<1>3. ASSUME NEW i \in 1 .. Len(Tail(q)), NEW j \in 1 .. Len(Tail(q)), i < j,
             Tail(q)[i].slot = s, Tail(q)[j].slot = s
      PROVE  Follows(s, Tail(q)[i], Tail(q)[j])
  BY <1>3, Shift DEF Lane
<1> QED BY <1>2, <1>3 DEF Lane

\* The slot's own frame at the head: the rest fits the state it leads to.
LEMMA LaneTail ==
  ASSUME NEW q \in Seq(ServerFrames), q # <<>>, NEW s, NEW c, NEW d, Lane(q, s, c), Head(q).slot = s,
         d.active, ~d.initing,
         d.shut <=> c.shut \/ Head(q) = Close(s),
         d.connected <=> c.connected \/ Head(q) = Stream(s, "connected")
  PROVE  Lane(Tail(q), s, d)
<1>1. ASSUME NEW i \in 1 .. Len(Tail(q)), Tail(q)[i].slot = s PROVE Fits(Tail(q), i, s, d)
  <2>1. Fits(q, i + 1, s, c) /\ Follows(s, Head(q), q[i + 1])
    BY <1>1, Shift DEF Lane
  <2> QED BY <1>1, <2>1, Shift DEF Fits, Follows
<1>2. ASSUME NEW i \in 1 .. Len(Tail(q)), NEW j \in 1 .. Len(Tail(q)), i < j,
             Tail(q)[i].slot = s, Tail(q)[j].slot = s
      PROVE  Follows(s, Tail(q)[i], Tail(q)[j])
  BY <1>2, Shift DEF Lane
<1> QED BY <1>1, <1>2 DEF Lane

\* The frame that ends a stream is the last.
LEMMA LaneEnds ==
  ASSUME NEW q \in Seq(ServerFrames), q # <<>>, NEW s, NEW c, Lane(q, s, c),
         Head(q) \in {Completed(s), Stream(s, "refused")}
  PROVE  Quiet(Tail(q), s)
<1>1. Head(q).slot = s
  BY FramesDiffer
<1> SUFFICES ASSUME NEW i \in 1 .. Len(Tail(q)), Tail(q)[i].slot = s PROVE FALSE
  BY DEF Quiet
<1>2. Follows(s, Head(q), q[i + 1])
  BY <1>1, Shift DEF Lane
<1> QED BY <1>2 DEF Follows

\* A frame at the end of the queue.
LEMMA LaneAppend ==
  ASSUME NEW q \in Seq(ServerFrames), NEW e, NEW s, NEW c, Lane(q, s, c), e.slot = s =>
           /\ c.active
           /\ c.shut => e = Completed(s)
           /\ c.connected => e \notin Dialogue(s)
           /\ e \in Responses(s) => c.initing /\ Quiet(q, s)
           /\ c.initing => e \in Responses(s) \/ In(q, Stream(s, "started"))
           /\ e = Completed(s) => c.shut \/ In(q, Close(s))
           /\ e = Stream(s, "band") => c.connected \/ In(q, Stream(s, "connected"))
           /\ ~In(q, Completed(s)) /\ ~In(q, Stream(s, "refused"))
           /\ In(q, Close(s)) => e = Completed(s)
           /\ In(q, Stream(s, "connected")) => e \notin Dialogue(s)
  PROVE  Lane(Append(q, e), s, c)
<1> DEFINE r == Append(q, e)
           n == Len(q) + 1
<1>1. /\ Len(q) \in Nat /\ Len(r) = n /\ r[n] = e /\ n \in 1 .. Len(r)
      /\ \A i \in 1 .. Len(q) : r[i] = q[i] /\ i \in 1 .. Len(r) /\ i < n
      /\ \A i \in 1 .. Len(r) : i = n \/ i \in 1 .. Len(q)
      /\ \A i, j \in 1 .. Len(r) : i < j => i \in 1 .. Len(q)
  OBVIOUS
<1> HIDE DEF r, n
<1>2. \A f : Ahead(r, n, f) <=> In(q, f)
  BY <1>1 DEF Ahead, In
<1>3. \A f : \A i \in 1 .. Len(q) : Ahead(q, i, f) => Ahead(r, i, f)
  BY <1>1 DEF Ahead
<1>4. ASSUME NEW i \in 1 .. Len(r), r[i].slot = s PROVE Fits(r, i, s, c)
  <2>1. CASE i = n
    BY <1>1, <1>2, <1>4, <2>1 DEF Fits
  <2>2. CASE i \in 1 .. Len(q)
    <3>1. Fits(q, i, s, c)
      BY <1>1, <1>4, <2>2 DEF Lane
    <3> QED BY <1>1, <1>3, <2>2, <3>1 DEF Fits
  <2> QED BY <1>1, <2>1, <2>2
<1>5. ASSUME NEW i \in 1 .. Len(r), NEW j \in 1 .. Len(r), i < j, r[i].slot = s, r[j].slot = s
      PROVE  Follows(s, r[i], r[j])
  <2>1. i \in 1 .. Len(q) /\ r[i] = q[i]
    BY <1>1, <1>5
  <2>2. CASE j = n
    <3>1. In(q, r[i]) /\ ~Quiet(q, s)
      BY <1>5, <2>1 DEF In, Quiet
    <3> QED BY <1>1, <1>5, <2>2, <3>1 DEF Follows
  <2>3. CASE j \in 1 .. Len(q)
    BY <1>1, <1>5, <2>1, <2>3 DEF Lane
  <2> QED BY <1>1, <2>2, <2>3
<1> QED BY <1>4, <1>5 DEF Lane, r

----------------------------------------------------------------------------
(* What a step leaves of a slot.                                            *)

\* Frames of the handshake among those of the browser.
Signals(s) == {Stream(s, "initial"), Close(s), Completed(s)}

UpKept(s) ==
  /\ \A f \in Signals(s) : In(c2s', f) <=> In(c2s, f)
  /\ UpOrder(s) => UpOrder(s)'

DownKept(s) ==
  /\ \A f : f.slot = s => (In(s2c', f) <=> In(s2c, f))
  /\ Quiet(s2c', s) <=> Quiet(s2c, s)
  /\ \A c : Lane(s2c, s, c) => Lane(s2c', s, c)

HandlerKept(s) ==
  /\ (Boots(s) <=> Boots(s)') /\ (Owes(s) <=> Owes(s)')
  /\ Boots(s) => h'.then = h.then

SlotKept(s) == cl'[s] = cl[s] /\ srv'[s] = srv[s] /\ rem'[s] = rem[s]

\* What is said of a slot depends on these only.
LEMMA Untouched ==
  ASSUME NEW s \in Slots, Handshake(s), UpKept(s), DownKept(s), HandlerKept(s), SlotKept(s)
  PROVE  Handshake(s)'
<1> USE DEF SlotKept
<1>1. /\ (Asks(s)' <=> Asks(s)) /\ (Closes(s)' <=> Closes(s)) /\ (Acks(s)' <=> Acks(s))
      /\ (Runs(s)' <=> Runs(s)) /\ (Boots(s)' <=> Boots(s)) /\ (Owes(s)' <=> Owes(s))
  BY DEF UpKept, Signals, Asks, Closes, Acks, Runs, HandlerKept
<1>2. /\ \A b : In(s2c', Stream(s, b)) <=> In(s2c, Stream(s, b))
      /\ In(s2c', Close(s)) <=> In(s2c, Close(s))
      /\ In(s2c', Completed(s)) <=> In(s2c, Completed(s))
      /\ Quiet(s2c', s) <=> Quiet(s2c, s)
  BY FramesDiffer DEF DownKept
<1>3. Lane(s2c', s, cl'[s])
  BY DEF DownKept, Handshake
<1>4. UpOrder(s)'
  BY DEF UpKept, Handshake
<1>5. UpLane(s)'
  BY <1>1, <1>2 DEF Handshake, UpLane
<1>6. ClientPhase(s)'
  BY <1>1 DEF Handshake, ClientPhase
<1>7. HandlerPhase(s)'
  BY <1>1, <1>2 DEF Handshake, HandlerPhase, HandlerKept
<1>8. RemotePhase(s)'
  BY <1>1, <1>2 DEF Handshake, RemotePhase
<1> QED BY <1>3, <1>4, <1>5, <1>6, <1>7, <1>8 DEF Handshake

\* Queues that do not change for a slot.
LEMMA UpSame == ASSUME NEW s \in Slots, UNCHANGED c2s PROVE UpKept(s)
BY DEF UpKept, UpOrder

\* A frame of no concern to the slot is sent,
LEMMA UpAppend ==
  ASSUME NEW s \in Slots, TypeOK, NEW e, e \notin Signals(s), c2s' = Append(c2s, e)
  PROVE  UpKept(s)
<1>1. c2s \in Seq(ClientFrames)
  BY DEF TypeOK, WireTypeOK
<1> QED BY <1>1, AppendFacts DEF UpKept, UpOrder, Signals

\* or taken,
LEMMA UpTail ==
  ASSUME NEW s \in Slots, TypeOK, c2s # <<>>, Head(c2s) \notin Signals(s), c2s' = Tail(c2s)
  PROVE  UpKept(s)
<1>1. c2s \in Seq(ClientFrames)
  BY DEF TypeOK, WireTypeOK
<1> QED BY <1>1, TailFacts DEF UpKept, UpOrder, Signals

\* or another slot's CLOSE is answered.
LEMMA UpReply ==
  ASSUME NEW s \in Slots, NEW t \in Slots, t # s, TypeOK, c2s' = c2s \o CloseReply(t)
  PROVE  UpKept(s)
<1> DEFINE m == Append(c2s, Close(t))
<1>1. c2s \in Seq(ClientFrames) /\ m \in Seq(ClientFrames)
  BY FramesTyped DEF TypeOK, WireTypeOK
<1>2. Close(t) \notin Signals(s) /\ Completed(t) \notin Signals(s)
  BY DEF Signals, Stream, Close, Completed
<1>3. c2s' = Append(c2s, Completed(t)) \/ c2s' = Append(m, Completed(t))
  BY <1>1, FramesTyped DEF CloseReply
<1>4. CASE c2s' = Append(c2s, Completed(t))
  BY <1>2, <1>4, UpAppend
<1>5. CASE c2s' = Append(m, Completed(t))
  <2> HIDE DEF m
  <2>1. \A f \in Signals(s) : In(m, f) <=> In(c2s, f)
    BY <1>1, <1>2, AppendFacts DEF m
  <2>2. UpOrder(s) => /\ Once(m, Stream(s, "initial")) /\ Once(m, Close(s)) /\ Once(m, Completed(s))
                      /\ Before(m, Close(s), Completed(s)) /\ Before(m, Completed(s), Stream(s, "initial"))
    BY <1>1, <1>2, AppendFacts DEF m, UpOrder, Signals
  <2> QED BY <1>1, <1>2, <1>5, <2>1, <2>2, AppendFacts DEF UpKept, UpOrder, Signals
<1> QED BY <1>3, <1>4, <1>5

\* The same for the frames to the browser: none moves,
LEMMA DownSame == ASSUME NEW s \in Slots, UNCHANGED s2c PROVE DownKept(s)
BY DEF DownKept

\* another slot's frame is sent,
LEMMA DownAppend ==
  ASSUME NEW s \in Slots, TypeOK, NEW e, e.slot # s, s2c' = Append(s2c, e)
  PROVE  DownKept(s)
<1>1. s2c \in Seq(ServerFrames)
  BY DEF TypeOK, WireTypeOK
<1>2. \A c : Lane(s2c, s, c) => Lane(s2c', s, c)
  BY <1>1, LaneAppend
<1> QED BY <1>1, <1>2, AppendFacts DEF DownKept

\* or another slot's frame is taken.
LEMMA DownTail ==
  ASSUME NEW s \in Slots, TypeOK, s2c # <<>>, Head(s2c).slot # s, s2c' = Tail(s2c)
  PROVE  DownKept(s)
<1>1. s2c \in Seq(ServerFrames)
  BY DEF TypeOK, WireTypeOK
<1>2. \A c : Lane(s2c, s, c) => Lane(s2c', s, c)
  BY <1>1, LaneSkip
<1> QED BY <1>1, <1>2, TailFacts DEF DownKept

\* A step of others leaves the Handler where it is.
LEMMA HandlerSame == ASSUME NEW s \in Slots, UNCHANGED h PROVE HandlerKept(s)
BY DEF HandlerKept, Boots, Owes

----------------------------------------------------------------------------
(* The user.                                                                *)

\* Requests, input and closing tabs keep the handshake of every slot in step.
LEMMA UserInStep ==
  ASSUME TypeOK, User, NEW s \in Slots, Handshake(s)
  PROVE  Handshake(s)'
<1>0. /\ c2s \in Seq(ClientFrames) /\ cl \in [Slots -> ClientStates] /\ cl[s] \in ClientStates
  BY DEF TypeOK, WireTypeOK, ClientTypeOK
<1>1. UNCHANGED <<s2c, h, srv, rem>> /\ DownKept(s) /\ HandlerKept(s)
  BY DownSame, HandlerSame DEF User, Request, SendData, NextSegment, UserClose, Pause, Resume,
     handlerVars, slotVars
<1>2. ASSUME UNCHANGED cl, NEW e, c2s' = Append(c2s, e), e \notin Signals(s) PROVE Handshake(s)'
  BY <1>1, <1>2, UpAppend, Untouched DEF SlotKept
<1>3. ASSUME NEW t \in Slots, t # s, cl' = [cl EXCEPT ![t] = cl'[t]],
             NEW e \in Signals(t), c2s' = Append(c2s, e)
      PROVE Handshake(s)'
  <2>1. e \notin Signals(s)
    BY <1>3 DEF Signals, Stream, Close, Completed
  <2>2. cl'[s] = cl[s]
    BY <1>0, <1>3
  <2> QED BY <1>1, <1>3, <2>1, <2>2, UpAppend, Untouched DEF SlotKept
<1>4. ASSUME NEW t \in Slots, Request(t) PROVE Handshake(s)'
  <2>1. cl' = [cl EXCEPT ![t] = Started] /\ c2s' = Append(c2s, Stream(t, "initial")) /\ ~cl[t].active
    BY <1>4 DEF Request
  <2>2. CASE t # s
    <3>1. cl' = [cl EXCEPT ![t] = cl'[t]]
      BY <1>0, <2>1
    <3> QED BY <1>3, <2>1, <2>2, <3>1 DEF Signals
  <2>3. CASE t = s
    <3>1. /\ cl[s] = Idle /\ ~Closes(s) /\ ~Asks(s) /\ srv[s] # "open" /\ (srv[s] = "closed" => Acks(s))
          /\ ~Boots(s) /\ ~Owes(s) /\ ~Runs(s)
      BY <2>1, <2>3 DEF Handshake, UpLane, ClientPhase, HandlerPhase, RemotePhase
    <3>2. Quiet(s2c, s)
      BY <2>1, <2>3 DEF Handshake, Lane, Fits, Quiet
    <3>3. cl'[s] = Started
      BY <1>0, <2>1, <2>3
    <3>4. /\ Asks(s)' /\ ~Closes(s)' /\ (Acks(s)' <=> Acks(s))
          /\ UpOrder(s)'
      BY <1>0, <2>1, <2>3, <3>1, AppendFacts, FramesDiffer
         DEF Asks, Closes, Acks, Handshake, UpOrder
    <3>5. Lane(s2c', s, cl'[s]) /\ Quiet(s2c, s)'
      BY <1>1, <3>2, QuietLane
    <3>6. ~In(s2c, Completed(s))' /\ ~In(s2c, Stream(s, "refused"))' /\ ~In(s2c, Close(s))'
          /\ ~In(s2c, Stream(s, "connected"))'
      BY <1>1, <3>2, InNotQuiet, FramesDiffer
    <3>7. ~Boots(s)' /\ ~Owes(s)' /\ ~Runs(s)' /\ UNCHANGED srv /\ UNCHANGED rem
      BY <1>1, <3>1 DEF Boots, Owes, Runs
    <3>8. /\ Started.active /\ Started.initing /\ ~Started.shut /\ ~Started.sclosed /\ ~Started.connected
      BY DEF Started, Idle
    <3>9. UpLane(s)'
      BY <3>1, <3>3, <3>4, <3>5, <3>7, <3>8 DEF UpLane
    <3>10. ClientPhase(s)' /\ HandlerPhase(s)'
      BY <3>1, <3>3, <3>4, <3>6, <3>7, <3>8 DEF ClientPhase, HandlerPhase
    <3>11. RemotePhase(s)'
      BY <3>1, <3>3, <3>6, <3>7, <3>8 DEF RemotePhase, Runs, Handshake, ClientPhase
    <3> QED BY <3>4, <3>5, <3>9, <3>10, <3>11 DEF Handshake
  <2> QED BY <2>2, <2>3
<1>5. ASSUME NEW t \in Slots, SendData(t) \/ NextSegment(t) PROVE Handshake(s)'
  <2>1. Stream(t, "stdin") \notin Signals(s)
    BY DEF Signals, Stream, Close, Completed
  <2> QED BY <1>2, <1>5, <2>1 DEF SendData, NextSegment
<1>6. ASSUME NEW t \in Slots, UserClose(t) PROVE Handshake(s)'
  <2>1. cl' = [cl EXCEPT ![t].sclosed = TRUE] /\ c2s' = Append(c2s, Close(t))
        /\ cl[t].connected /\ ~cl[t].sclosed
    BY <1>6 DEF UserClose
  <2>2. CASE t # s
    <3>1. cl' = [cl EXCEPT ![t] = cl'[t]]
      BY <1>0, <2>1
    <3> QED BY <1>3, <2>1, <2>2, <3>1 DEF Signals
  <2>3. CASE t = s
    <3> DEFINE c == cl[s]
               d == cl'[s]
    <3>1. d = [c EXCEPT !.sclosed = TRUE]
      BY <1>0, <2>1, <2>3
    <3>2. d.active = c.active /\ d.initing = c.initing /\ d.shut = c.shut /\ d.connected = c.connected
          /\ d.sclosed
      BY <1>0, <3>1 DEF ClientStates
    <3>3. ~c.initing /\ ~c.shut /\ ~Closes(s) /\ ~Asks(s) /\ c.active /\ ~Boots(s) /\ ~Owes(s)
          /\ ~In(s2c, Completed(s))
      BY <2>1, <2>3 DEF Handshake, UpLane, ClientPhase, HandlerPhase, Idle
    <3>4. Lane(s2c', s, d)
      BY <1>1, <3>2, LaneSame DEF Handshake
    <3>5. ~Acks(s)
      BY <2>1, <2>3, <3>3 DEF Handshake, UpLane
    <3>6. Closes(s)' /\ ~Asks(s)' /\ ~Acks(s)' /\ UpOrder(s)'
      BY <1>0, <2>1, <2>3, <3>3, <3>5, AppendFacts, FramesDiffer
         DEF Asks, Closes, Acks, Handshake, UpOrder
    <3>7. (Boots(s)' <=> Boots(s)) /\ (Owes(s)' <=> Owes(s)) /\ UNCHANGED <<s2c, srv, rem, h>>
          /\ (Runs(s)' <=> Runs(s))
      BY <1>1 DEF Boots, Owes, Runs
    <3>8. UpLane(s)' /\ ClientPhase(s)'
      BY <2>1, <3>2, <3>3, <3>6, <3>7 DEF Handshake, UpLane, ClientPhase
    <3>9. HandlerPhase(s)'
      BY <3>2, <3>3, <3>5, <3>6, <3>7 DEF Handshake, HandlerPhase
    <3>10. RemotePhase(s)'
      BY <3>2, <3>6, <3>7 DEF Handshake, RemotePhase
    <3> QED BY <3>4, <3>6, <3>8, <3>9, <3>10 DEF Handshake
  <2> QED BY <2>2, <2>3
<1>7. ASSUME Pause \/ Resume PROVE Handshake(s)'
  <2>1. Control("pause") \notin Signals(s) /\ Control("resume") \notin Signals(s)
    BY FramesDiffer DEF Signals
  <2> QED BY <1>2, <1>7, <2>1 DEF Pause, Resume, clientVars
<1> QED BY <1>4, <1>5, <1>6, <1>7 DEF User

----------------------------------------------------------------------------
(* The browser's tick.                                                      *)

\* What a lane says of any of its frames.
LEMMA LaneIn ==
  ASSUME NEW q, NEW s, NEW c, Lane(q, s, c), NEW f, f.slot = s, In(q, f)
  PROVE  /\ c.active /\ (c.shut => f = Completed(s)) /\ (c.connected => f \notin Dialogue(s))
         /\ (f \in Responses(s) => c.initing)
BY DEF Lane, Fits, In

\* A CLOSE from the backend is answered.
LEMMA CloseInStep ==
  ASSUME TypeOK, NEW s \in Slots, Handshake(s), ClientHandleClose(s), ~ClearStreams
  PROVE  Handshake(s)'
<1> DEFINE c == cl[s]
           d == cl'[s]
<1>0. /\ c2s \in Seq(ClientFrames) /\ s2c \in Seq(ServerFrames) /\ cl \in [Slots -> ClientStates]
      /\ c \in ClientStates
  BY DEF TypeOK, WireTypeOK, ClientTypeOK
<1>1. /\ s2c # <<>> /\ Head(s2c) = Close(s) /\ s2c' = Tail(s2c) /\ c.active /\ ~c.shut
      /\ cl' = [cl EXCEPT ![s] = AfterClose(s)] /\ c2s' = c2s \o CloseReply(s)
      /\ UNCHANGED <<h, srv, rem>>
  BY DEF ClientHandleClose, handlerVars, slotVars
<1>2. d = [c EXCEPT !.shut = TRUE, !.sclosed = TRUE]
  BY <1>0, <1>1 DEF AfterClose
<1>3. d.active /\ d.shut /\ d.sclosed /\ d.initing = c.initing /\ d.connected = c.connected
  BY <1>0, <1>1, <1>2 DEF ClientStates
<1> HIDE DEF c, d
<1>4. ~c.initing
  <2>1. Head(s2c).slot = s /\ Head(s2c) \notin Responses(s)
    BY <1>1, FramesDiffer DEF Responses
  <2>2. Lane(s2c, s, c)
    BY DEF Handshake, c
  <2> QED BY <1>0, <1>1, <2>1, <2>2, LaneHead
<1>5. Lane(s2c', s, d)
  <2>1. Head(s2c) # Stream(s, "connected") /\ Head(s2c).slot = s
    BY <1>1, FramesDiffer
  <2> QED BY <1>0, <1>1, <1>3, <1>4, <2>1, LaneTail DEF Handshake, c
<1>6. /\ In(s2c, Close(s)) /\ (In(s2c', Completed(s)) => In(s2c, Completed(s)))
      /\ ~In(s2c', Stream(s, "refused"))
      /\ \A f : In(s2c', f) => In(s2c, f)
  <2>1. In(s2c, Close(s)) /\ \A f : In(s2c', f) => In(s2c, f)
    BY <1>0, <1>1, TailFacts
  <2> QED BY <1>3, <1>5, <2>1, LaneIn, FramesDiffer
<1>7. ~Runs(s) /\ ~Asks(s) /\ ~Acks(s) /\ ~Boots(s) /\ (~c.sclosed => ~Closes(s))
  BY <1>1, <1>4, <1>6 DEF Handshake, UpLane, HandlerPhase, RemotePhase, c
<1>8. /\ ~Asks(s)' /\ Acks(s)' /\ (Closes(s)' <=> Closes(s) \/ ~c.sclosed) /\ UpOrder(s)'
  <2>1. CASE c.sclosed
    <3>1. c2s' = Append(c2s, Completed(s))
      BY <1>0, <1>1, <2>1 DEF CloseReply, c
    <3> QED BY <1>0, <1>7, <2>1, <3>1, AppendFacts, FramesDiffer
            DEF Asks, Acks, Closes, Handshake, UpOrder
  <2>2. CASE ~c.sclosed
    <3> DEFINE m == Append(c2s, Close(s))
    <3>1. c2s' = Append(m, Completed(s)) /\ m \in Seq(ClientFrames)
      BY <1>0, <1>1, <2>2, FramesTyped DEF CloseReply, c
    <3>2. /\ ~In(m, Stream(s, "initial")) /\ In(m, Close(s)) /\ ~In(m, Completed(s))
          /\ Once(m, Stream(s, "initial")) /\ Once(m, Close(s)) /\ Once(m, Completed(s))
          /\ Before(m, Close(s), Completed(s)) /\ Before(m, Completed(s), Stream(s, "initial"))
      BY <1>0, <1>7, <2>2, AppendFacts, FramesDiffer DEF Asks, Acks, Closes, Handshake, UpOrder
    <3> HIDE DEF m
    <3> QED BY <2>2, <3>1, <3>2, AppendFacts, FramesDiffer DEF Asks, Acks, Closes, UpOrder
  <2> QED BY <2>1, <2>2
<1>9. (Boots(s)' <=> Boots(s)) /\ (Owes(s)' <=> Owes(s)) /\ (Runs(s)' <=> Runs(s))
  BY <1>1 DEF Boots, Owes, Runs
<1>10. UpLane(s)'
  BY <1>3, <1>8 DEF UpLane, d
<1>11. ClientPhase(s)'
  BY <1>1, <1>3, <1>4, <1>8 DEF Handshake, ClientPhase, c, d
<1>12. HandlerPhase(s)'
  BY <1>1, <1>3, <1>6, <1>7, <1>8, <1>9 DEF Handshake, HandlerPhase, c, d
<1>13. RemotePhase(s)'
  BY <1>1, <1>3, <1>7, <1>9 DEF RemotePhase, Runs, d
<1> QED BY <1>5, <1>8, <1>10, <1>11, <1>12, <1>13 DEF Handshake, d

\* A refusal or a COMPLETED frees the slot.
LEMMA FreedInStep ==
  ASSUME TypeOK, NEW s \in Slots, Handshake(s), s2c # <<>>, s2c' = Tail(s2c),
         Head(s2c) \in {Stream(s, "refused"), Completed(s)},
         cl'[s] = Idle, UNCHANGED <<c2s, h, srv, rem>>
  PROVE  Handshake(s)'
<1>0. s2c \in Seq(ServerFrames)
  BY DEF TypeOK, WireTypeOK
<1>1. Quiet(s2c', s)
  BY <1>0, LaneEnds DEF Handshake
<1>2. Lane(s2c', s, Idle)
  BY <1>1, QuietLane
<1>3. ~Idle.active /\ ~Idle.initing /\ ~Idle.shut /\ ~Idle.sclosed /\ ~Idle.connected
  BY DEF Idle
<1>4. ~In(s2c', Completed(s)) /\ ~In(s2c', Stream(s, "refused")) /\ ~In(s2c', Close(s))
      /\ ~In(s2c', Stream(s, "connected"))
  BY <1>1, InNotQuiet, FramesDiffer
<1>5. ~Quiet(s2c, s) /\ In(s2c, Head(s2c)) /\ Head(s2c).slot = s
  BY <1>0, TailFacts, FramesDiffer
<1>6. ~Asks(s) /\ ~Boots(s)
  BY <1>5 DEF Handshake, UpLane, HandlerPhase
<1>7. (Boots(s)' <=> Boots(s)) /\ (Owes(s)' <=> Owes(s)) /\ (Runs(s)' <=> Runs(s))
      /\ (Asks(s)' <=> Asks(s)) /\ (Acks(s)' <=> Acks(s)) /\ (Closes(s)' <=> Closes(s))
  BY DEF Boots, Owes, Runs, Asks, Acks, Closes
<1>8. UpOrder(s)'
  BY DEF Handshake, UpOrder
<1>9. ~Closes(s) /\ srv[s] # "open" /\ (srv[s] = "closed" => Acks(s)) /\ ~Runs(s) /\ ~Owes(s)
  <2>1. CASE Head(s2c) = Stream(s, "refused")
    <3>1. cl[s].initing /\ srv[s] = "empty"
      BY <1>0, <1>5, <2>1, LaneHead DEF Handshake, HandlerPhase, Responses
    <3> QED BY <3>1 DEF Handshake, UpLane, ClientPhase, HandlerPhase, RemotePhase
  <2>2. CASE Head(s2c) = Completed(s)
    <3>1. cl[s].shut
      BY <1>0, <1>5, <2>2, LaneHead DEF Handshake
    <3> QED BY <1>5, <2>2, <3>1 DEF Handshake, ClientPhase, HandlerPhase
  <2> QED BY <2>1, <2>2
<1>10. UpLane(s)'
  BY <1>3, <1>6, <1>7, <1>9 DEF Handshake, UpLane
<1>11. ClientPhase(s)'
  BY <1>3, <1>7, <1>9 DEF ClientPhase
<1>12. HandlerPhase(s)'
  BY <1>4, <1>6, <1>7, <1>9 DEF HandlerPhase
<1>13. RemotePhase(s)'
  BY <1>7, <1>9 DEF RemotePhase, Runs
<1> QED BY <1>2, <1>8, <1>10, <1>11, <1>12, <1>13 DEF Handshake

\* Any other frame of a command moves the slot on.
LEMMA MovedInStep ==
  ASSUME TypeOK, NEW s \in Slots, Handshake(s), s2c # <<>>, s2c' = Tail(s2c),
         NEW b, Head(s2c) = Stream(s, b), b # "refused", NEW d, cl'[s] = d,
         d.active, ~d.initing, ~d.shut, d.sclosed = cl[s].sclosed, ~cl[s].shut,
         d.connected <=> cl[s].connected \/ b = "connected",
         UNCHANGED <<c2s, h, srv, rem>>
  PROVE  Handshake(s)'
<1>0. s2c \in Seq(ServerFrames)
  BY DEF TypeOK, WireTypeOK
<1>1. /\ Head(s2c).slot = s /\ Head(s2c) # Close(s) /\ Head(s2c) # Completed(s)
      /\ (Head(s2c) = Stream(s, "connected") <=> b = "connected") /\ Head(s2c) # Stream(s, "refused")
      /\ (Head(s2c) = Stream(s, "started") <=> b = "started")
  BY FramesDiffer
<1>2. Lane(s2c', s, d)
  BY <1>0, <1>1, LaneTail DEF Handshake
<1>3. /\ \A f : In(s2c', f) => In(s2c, f)
      /\ In(s2c', Close(s)) <=> In(s2c, Close(s))
      /\ In(s2c', Completed(s)) <=> In(s2c, Completed(s))
      /\ In(s2c', Stream(s, "refused")) <=> In(s2c, Stream(s, "refused"))
      /\ In(s2c, Stream(s, "connected")) => In(s2c', Stream(s, "connected")) \/ b = "connected"
      /\ b = "connected" => In(s2c, Stream(s, "connected"))
      /\ ~Quiet(s2c, s)
  BY <1>0, <1>1, TailFacts
<1>4. ~Asks(s) /\ ~Boots(s) /\ cl[s].active
  BY <1>0, <1>1, <1>3, LaneHead DEF Handshake, UpLane, HandlerPhase
<1>7. (Boots(s)' <=> Boots(s)) /\ (Owes(s)' <=> Owes(s)) /\ (Runs(s)' <=> Runs(s))
      /\ (Asks(s)' <=> Asks(s)) /\ (Acks(s)' <=> Acks(s)) /\ (Closes(s)' <=> Closes(s))
  BY DEF Boots, Owes, Runs, Asks, Acks, Closes
<1>8. UpOrder(s)'
  BY DEF Handshake, UpOrder
<1>9. UpLane(s)'
  BY <1>4, <1>7 DEF Handshake, UpLane
<1>10. ClientPhase(s)'
  BY <1>4, <1>7 DEF Handshake, ClientPhase
<1>11. HandlerPhase(s)'
  BY <1>3, <1>4, <1>7 DEF Handshake, HandlerPhase
<1>12. RemotePhase(s)'
  BY <1>3, <1>4, <1>7 DEF Handshake, RemotePhase
<1> QED BY <1>2, <1>8, <1>9, <1>10, <1>11, <1>12 DEF Handshake

\* So does every frame Streams.tick takes, unless it throws.
LEMMA TickInStep ==
  ASSUME TypeOK, ClientTick, cst' = "serving", NEW s \in Slots, Handshake(s)
  PROVE  Handshake(s)'
<1>0. /\ s2c \in Seq(ServerFrames) /\ cl \in [Slots -> ClientStates] /\ cl[s] \in ClientStates
  BY DEF TypeOK, WireTypeOK, ClientTypeOK
<1>1. ~ClearStreams
  BY DEF ClearStreams
<1>2. UNCHANGED <<h, srv, rem>> /\ s2c # <<>> /\ s2c' = Tail(s2c) /\ HandlerKept(s)
  BY HandlerSame DEF ClientTick, ClientHandleStream, ClientHandleClose, ClientHandleCompleted,
     handlerVars, slotVars
<1>3. ASSUME NEW t \in Slots, t # s, Head(s2c).slot = t, cl' = [cl EXCEPT ![t] = cl'[t]], UpKept(s)
      PROVE  Handshake(s)'
  <2>1. cl'[s] = cl[s]
    BY <1>0, <1>3
  <2> QED BY <1>2, <1>3, <2>1, DownTail, Untouched DEF SlotKept
<1>4. ASSUME NEW t \in Slots, ClientHandleStream(t) PROVE Handshake(s)'
  <2> DEFINE b == Head(s2c).body
  <2>1. /\ Head(s2c) = Stream(t, b) /\ UNCHANGED c2s /\ cl[t].active /\ ~TickThrows(t, b)
        /\ IF cl[t].initing
           THEN ClientInitialize(t, b)
           ELSE cl' = [cl EXCEPT ![t].connected = @ \/ b = "connected"]
    BY <1>1, <1>4 DEF ClientHandleStream
  <2> HIDE DEF b
  <2>2. CASE t # s
    <3>1. cl' = [cl EXCEPT ![t] = cl'[t]]
      BY <1>0, <2>1 DEF ClientInitialize
    <3> QED BY <1>3, <2>1, <2>2, <3>1, UpSame, FramesDiffer
  <2>3. CASE t = s
    <3>1. ~cl[s].shut /\ cl[s].active
      BY <2>1, <2>3 DEF TickThrows
    <3>2. cl[s].initing <=> b \in {"started", "refused"}
      <4>1. cl[s].initing <=> Head(s2c) \in Responses(s)
        <5>1. Head(s2c).slot = s
          BY <2>1, <2>3, FramesDiffer
        <5>2. Lane(s2c, s, cl[s])
          BY DEF Handshake
        <5> QED BY <1>0, <1>2, <5>1, <5>2, LaneHead
      <4> QED BY <2>1, <2>3, <4>1, FramesDiffer DEF Responses
    <3>3. CASE b = "refused"
      <4>1. cl' = [cl EXCEPT ![s] = Idle]
        BY <2>1, <2>3, <3>2, <3>3 DEF ClientInitialize
      <4> QED BY <1>0, <1>2, <2>1, <2>3, <3>3, <4>1, FreedInStep
    <3>4. CASE b # "refused"
      <4> DEFINE d == cl'[s]
      <4>1. /\ d.active /\ ~d.initing /\ ~d.shut /\ d.sclosed = cl[s].sclosed
            /\ d.connected <=> cl[s].connected \/ b = "connected"
        <5>1. CASE cl[s].initing
          <6>1. b = "started" /\ cl' = [cl EXCEPT ![s].initing = FALSE]
            BY <2>1, <2>3, <3>2, <3>4, <5>1 DEF ClientInitialize
          <6>2. d = [cl[s] EXCEPT !.initing = FALSE]
            BY <1>0, <6>1
          <6> QED BY <1>0, <3>1, <6>1, <6>2 DEF ClientStates
        <5>2. CASE ~cl[s].initing
          <6>1. d = [cl[s] EXCEPT !.connected = cl[s].connected \/ b = "connected"]
            BY <1>0, <2>1, <2>3, <5>2
          <6> QED BY <1>0, <3>1, <5>2, <6>1 DEF ClientStates
        <5> QED BY <5>1, <5>2
      <4> HIDE DEF d
      <4> QED BY <1>2, <2>1, <2>3, <3>1, <3>4, <4>1, MovedInStep DEF d
    <3> QED BY <3>3, <3>4
  <2> QED BY <2>2, <2>3
<1>5. ASSUME NEW t \in Slots, ClientHandleClose(t) PROVE Handshake(s)'
  <2>1. Head(s2c) = Close(t) /\ cl' = [cl EXCEPT ![t] = AfterClose(t)] /\ c2s' = c2s \o CloseReply(t)
    BY <1>1, <1>5 DEF ClientHandleClose
  <2>2. CASE t # s
    <3>1. cl' = [cl EXCEPT ![t] = cl'[t]]
      BY <1>0, <2>1
    <3> QED BY <1>3, <2>1, <2>2, <3>1, UpReply, FramesDiffer
  <2>3. CASE t = s
    BY <1>1, <1>5, <2>3, CloseInStep
  <2> QED BY <2>2, <2>3
<1>6. ASSUME NEW t \in Slots, ClientHandleCompleted(t) PROVE Handshake(s)'
  <2>1. Head(s2c) = Completed(t) /\ cl' = [cl EXCEPT ![t] = Idle] /\ UNCHANGED c2s
    BY <1>1, <1>6 DEF ClientHandleCompleted
  <2>2. CASE t # s
    <3>1. cl' = [cl EXCEPT ![t] = cl'[t]]
      BY <1>0, <2>1
    <3> QED BY <1>3, <2>1, <2>2, <3>1, UpSame, FramesDiffer
  <2>3. CASE t = s
    BY <1>0, <1>2, <2>1, <2>3, FreedInStep
  <2> QED BY <2>2, <2>3
<1> QED BY <1>4, <1>5, <1>6 DEF ClientTick

----------------------------------------------------------------------------
(* The Handler.                                                             *)

\* The Handler has no business with a slot while it is in its loop or shuts down.
LEMMA NoBusiness ==
  ASSUME TypeOK
  PROVE  /\ h.at \in {"loop", "shutdown"} => \A s : ~Boots(s) /\ ~Owes(s)
         /\ h.at = "machineClose" \/ h.at = "closeWait" \/ h.at = "completed" \/ h.at = "released"
              => \A s : ~Boots(s)
         /\ h.at \in {"boot", "released"} => \A s : ~Owes(s)
         /\ h.at = "completed" => Owes(h.slot)
BY HandlerStatesTyped DEF HandlerStates, HandlerState, Boots, Owes

\* The end of Handle and the return to the loop leave it with none.
LEMMA NoBusinessNext ==
  ASSUME TypeOK
  PROVE  /\ \A e : Fail(e) => \A s : ~Boots(s)' /\ ~Owes(s)'
         /\ h' = Loop => \A s : ~Boots(s)' /\ ~Owes(s)'
<1>1. h \in [at : {"loop", "shutdown", "done", "boot", "machineClose", "closeWait", "completed", "released"},
             slot : Slots, then : {"none", "started", "refused", "completed", "release", "shutdown"}]
  BY HandlerStatesTyped DEF HandlerStates, HandlerState
<1>2. /\ \A e : Fail(e) => h'.then = "none" /\ h'.at = "shutdown"
      /\ h' = Loop => h'.then = "none" /\ h'.at = "loop"
  BY <1>1 DEF Fail, Loop
<1> QED BY <1>2 DEF Boots, Owes

\* A slot is booted, or refused.
LEMMA BootInStep ==
  ASSUME TypeOK, NEW s \in Slots, Handshake(s), c2s # <<>>, Head(c2s) = Stream(s, "initial"),
         c2s' = Tail(c2s), UNCHANGED <<s2c, cl>>, srv[s] = "empty",
         NEW r \in {"started", "refused"}, h' = [at |-> "boot", slot |-> s, then |-> r],
         r = "refused" => UNCHANGED <<srv, rem>>,
         r = "started" => srv'[s] = "open" /\ rem'[s] = "dialing"
  PROVE  Handshake(s)'
<1>0. c2s \in Seq(ClientFrames)
  BY DEF TypeOK, WireTypeOK
<1>1. Asks(s) /\ ~Asks(s)' /\ ~Acks(s) /\ ~Acks(s)' /\ (Closes(s)' => Closes(s)) /\ UpOrder(s)'
  BY <1>0, TailFacts DEF Asks, Acks, Closes, Handshake, UpOrder
<1>2. /\ cl[s].active /\ cl[s].initing /\ Quiet(s2c, s) /\ ~Closes(s)
      /\ ~cl[s].connected /\ ~cl[s].sclosed /\ ~cl[s].shut /\ ~Runs(s)
  BY <1>1 DEF Handshake, UpLane, ClientPhase, RemotePhase
<1>3. ~In(s2c, Completed(s)) /\ ~In(s2c, Stream(s, "refused")) /\ ~In(s2c, Close(s))
      /\ ~In(s2c, Stream(s, "connected"))
  BY <1>2, InNotQuiet, FramesDiffer
<1>4. h'.at = "boot" /\ h'.slot = s /\ h'.then = r /\ Boots(s)' /\ ~Owes(s)'
  BY DEF Boots, Owes
<1>5. Lane(s2c', s, cl'[s]) /\ UpLane(s)' /\ ClientPhase(s)'
  BY <1>1, <1>2 DEF Handshake, UpLane, ClientPhase
<1>6. HandlerPhase(s)'
  BY <1>1, <1>2, <1>3, <1>4 DEF HandlerPhase
<1>7. RemotePhase(s)'
  BY <1>1, <1>2, <1>3, <1>4 DEF RemotePhase, Runs
<1> QED BY <1>1, <1>5, <1>6, <1>7 DEF Handshake

\* The initial response.
LEMMA SignalInStep ==
  ASSUME TypeOK, NEW s \in Slots, Handshake(s), Boots(s), s2c' = Append(s2c, Stream(s, h.then)),
         UNCHANGED <<c2s, cl, srv, rem>>, ~Boots(s)', ~Owes(s)'
  PROVE  Handshake(s)'
<1>0. s2c \in Seq(ServerFrames) /\ h.then \in {"started", "refused"}
  BY HandlerStatesTyped DEF TypeOK, WireTypeOK, Boots
<1>1. /\ cl[s].active /\ cl[s].initing /\ Quiet(s2c, s) /\ ~Asks(s) /\ ~Acks(s)
      /\ ~cl[s].connected /\ ~cl[s].sclosed /\ ~cl[s].shut
      /\ h.then = "started" => srv[s] = "open" /\ Runs(s) /\ rem[s] \in {"dialing", "dialed", "failed"}
      /\ h.then = "refused" => srv[s] = "empty" /\ ~Runs(s)
  BY DEF Handshake, ClientPhase, HandlerPhase, RemotePhase, Runs
<1>2. ~In(s2c, Completed(s)) /\ ~In(s2c, Stream(s, "refused")) /\ ~In(s2c, Close(s))
      /\ ~In(s2c, Stream(s, "connected"))
  BY <1>1, InNotQuiet, FramesDiffer
<1>3. ~In(s2c', Completed(s)) /\ ~In(s2c', Close(s)) /\ ~In(s2c', Stream(s, "connected"))
      /\ (In(s2c', Stream(s, "refused")) => h.then = "refused")
      /\ In(s2c', Stream(s, h.then))
  BY <1>0, <1>2, AppendFacts, FramesDiffer
<1>4. Lane(s2c', s, cl'[s])
  BY <1>0, <1>1, <1>2, LaneAppend, FramesDiffer DEF Handshake, Responses, Dialogue
<1>5. UpOrder(s)' /\ UpLane(s)' /\ ClientPhase(s)'
  BY <1>1 DEF Handshake, UpOrder, UpLane, ClientPhase, Asks, Acks, Closes
<1>6. HandlerPhase(s)'
  BY <1>1, <1>3 DEF HandlerPhase, Acks
<1>7. RemotePhase(s)'
  BY <1>0, <1>1, <1>3 DEF Handshake, RemotePhase, Runs, Asks
<1> QED BY <1>4, <1>5, <1>6, <1>7 DEF Handshake

\* COMPLETED.
LEMMA CompletedInStep ==
  ASSUME TypeOK, NEW s \in Slots, Handshake(s), Owes(s), ~Boots(s), ~Runs(s),
         s2c' = Append(s2c, Completed(s)),
         UNCHANGED <<c2s, cl, srv, rem>>, ~Boots(s)', ~Owes(s)'
  PROVE  Handshake(s)'
<1>0. s2c \in Seq(ServerFrames)
  BY DEF TypeOK, WireTypeOK
<1>1. /\ srv[s] = "closed" /\ cl[s].active /\ cl[s].sclosed /\ ~Closes(s) /\ ~cl[s].initing
      /\ ~In(s2c, Completed(s)) /\ ~In(s2c, Stream(s, "refused")) /\ ~Asks(s)
      /\ (cl[s].shut \/ In(s2c, Close(s)))
  BY DEF Handshake, UpLane, ClientPhase, HandlerPhase, RemotePhase
<1>2. /\ \A b : In(s2c', Stream(s, b)) <=> In(s2c, Stream(s, b))
      /\ In(s2c', Close(s)) <=> In(s2c, Close(s))
  BY <1>0, AppendFacts, FramesDiffer
<1>3. Lane(s2c', s, cl'[s])
  BY <1>0, <1>1, LaneAppend, FramesDiffer DEF Handshake, Responses, Dialogue
<1>4. UpOrder(s)' /\ UpLane(s)' /\ ClientPhase(s)'
  BY <1>1 DEF Handshake, UpOrder, UpLane, ClientPhase, Asks, Acks, Closes
<1>5. HandlerPhase(s)'
  BY <1>1, <1>2 DEF HandlerPhase, Closes, Runs
<1>6. RemotePhase(s)'
  BY <1>1, <1>2 DEF Handshake, RemotePhase, Runs
<1> QED BY <1>3, <1>4, <1>5, <1>6 DEF Handshake

\* The Handler takes a frame of the handshake, or closes or empties the slot.
LEMMA SlotInStep ==
  ASSUME TypeOK, NEW s \in Slots, Handshake(s), UNCHANGED <<s2c, cl, rem>>, UpOrder(s)', ~Boots(s)',
         ~Boots(s), Asks(s)' <=> Asks(s), Closes(s)' => Closes(s), Acks(s)' => Acks(s),
         \/ /\ srv'[s] = "empty" /\ ~Runs(s) /\ ~Owes(s)'
         \/ /\ srv'[s] = "closed" /\ srv[s] = "open" /\ (Acks(s)' <=> Acks(s))
            /\ Owes(s)' => cl[s].sclosed /\ ~Closes(s)'
         \/ /\ srv'[s] = "closed" /\ srv[s] = "closed" /\ (Acks(s)' <=> Acks(s)) /\ ~Owes(s)'
  PROVE  Handshake(s)'
<1>1. (Runs(s)' <=> Runs(s)) /\ srv'[s] # "open"
  BY DEF Runs
<1>2. UpLane(s)'
  BY <1>1 DEF Handshake, UpLane, ClientPhase
<1>3. ClientPhase(s)'
  BY <1>1 DEF Handshake, ClientPhase
<1>4. HandlerPhase(s)'
  BY <1>1 DEF Handshake, HandlerPhase, ClientPhase
<1>5. RemotePhase(s)'
  BY <1>1 DEF Handshake, RemotePhase
<1> QED BY <1>2, <1>3, <1>4, <1>5 DEF Handshake

\* A CLOSE or a COMPLETED leaves the queue of the browser.
LEMMA TakeSignal ==
  ASSUME TypeOK, NEW s \in Slots, UpOrder(s), c2s # <<>>, c2s' = Tail(c2s)
  PROVE  /\ UpOrder(s)' /\ (Closes(s)' => Closes(s)) /\ (Acks(s)' => Acks(s))
         /\ Head(c2s) \in {Close(s), Completed(s)} => (Asks(s)' <=> Asks(s))
         /\ Head(c2s) = Close(s) => Closes(s) /\ ~Closes(s)' /\ (Acks(s)' <=> Acks(s))
         /\ Head(c2s) = Completed(s) => Acks(s) /\ ~Closes(s)
         /\ Head(c2s) = Stream(s, "initial") => Asks(s) /\ ~Acks(s)
<1>0. c2s \in Seq(ClientFrames)
  BY DEF TypeOK, WireTypeOK
<1> QED BY <1>0, TailFacts, FramesDiffer DEF UpOrder, Asks, Closes, Acks

\* Unless data is misread, a slot is booted by a request.
LEMMA BootReadsRequest ==
  ASSUME NEW t \in Slots, HandleBoot(t), misread' = "none"
  PROVE  Head(c2s).body = "initial" /\ misread = "none"
BY DEF HandleBoot, ReadAsRequest

\* So does every step of the Handler: its replies fit what the browser waits for.
LEMMA HandlerInStep ==
  ASSUME TypeOK, ClosedAreStopped, link, \A t \in Slots : Handshake(t), Handler,
         misread' = "none", NEW s \in Slots
  PROVE  Handshake(s)'
<1> USE DEF SlotKept
<1>0. /\ c2s \in Seq(ClientFrames) /\ s2c \in Seq(ServerFrames) /\ h.slot \in Slots
      /\ srv \in [Slots -> {"empty", "open", "closed"}] /\ rem \in [Slots -> RemoteStates]
      /\ h \in HandlerStates
  BY HandlerStatesTyped DEF TypeOK, WireTypeOK, SlotTypeOK
<1>1. Handshake(s) /\ UpOrder(s)
  BY DEF Handshake
<1>2. UNCHANGED cl
  BY DEF Handler, HandleControl, HandleTick, HandleBoot, HandleClose, HandleCompleted, BootSignal,
         MachineClose, CloseWait, SendCompleted, Released, HandleEof, Shutdown, clientVars
<1>3. ASSUME ~Boots(s), ~Owes(s), ~Boots(s)', ~Owes(s)' PROVE HandlerKept(s)
  BY <1>3 DEF HandlerKept
<1>4. AtLoop \/ h.at = "shutdown" => ~Boots(s) /\ ~Owes(s)
  BY NoBusiness DEF AtLoop
<1>5. ASSUME NEW t \in Slots, t # s, h'.slot = t PROVE ~Boots(s)' /\ ~Owes(s)'
  BY <1>5 DEF Boots, Owes
<1>6. CASE HandleControl
  <2>1. Head(c2s) \notin Signals(s)
    BY <1>6, FramesDiffer DEF HandleControl, Signals, Stream, Close, Completed
  <2> QED BY <1>1, <1>2, <1>6, <2>1, UpTail, DownSame, HandlerSame, Untouched
          DEF HandleControl, AtLoop, slotVars
<1>7. ASSUME NEW t \in Slots, HandleTick(t) PROVE Handshake(s)'
  <2>1. AtLoop /\ Head(c2s).type = "Stream" /\ Head(c2s).slot = t /\ srv[t] # "empty"
        /\ c2s' = Tail(c2s) /\ UNCHANGED <<s2c, srv, rem>>
    BY <1>7 DEF HandleTick, TelnetClient, slotVars
  <2>2. Head(c2s) # Stream(t, "initial")
    <3>1. ~Asks(t) \/ Acks(t)
      BY <1>0, <2>1 DEF Handshake, UpLane
    <3>2. UpOrder(t)
      BY DEF Handshake
    <3> QED BY <2>1, <3>1, <3>2, TakeSignal DEF AtLoop
  <2>3. Head(c2s) \notin Signals(s)
    BY <2>1, <2>2 DEF Signals, Stream, Close, Completed
  <2>4. HandlerKept(s)
    <3>1. UNCHANGED h \/ Fail("machineClosed") \/ Fail("noRemote")
      BY <1>7 DEF HandleTick, TelnetClient, handlerVars
    <3> QED BY <1>3, <1>4, <2>1, <3>1, HandlerSame, NoBusinessNext
  <2> QED BY <1>1, <1>2, <2>1, <2>3, <2>4, UpTail, DownSame, Untouched DEF AtLoop
<1>8. ASSUME NEW t \in Slots, HandleBoot(t) PROVE Handshake(s)'
  <2>1. AtLoop /\ Head(c2s).type = "Stream" /\ Head(c2s).slot = t /\ srv[t] = "empty"
        /\ c2s' = Tail(c2s) /\ UNCHANGED s2c
    BY <1>8 DEF HandleBoot
  <2>2. Head(c2s).body = "initial"
    BY <1>8, BootReadsRequest
  <2>3. Head(c2s) = Stream(t, "initial")
    <3>1. Head(c2s) \in ClientFrames
      BY <1>0, <2>1 DEF AtLoop
    <3> QED BY <2>1, <2>2, <3>1 DEF ClientFrames, Stream, Close, Completed, Control
  <2>4. PICK r \in {"started", "refused"} :
           /\ h' = [at |-> "boot", slot |-> t, then |-> r]
           /\ r = "refused" => UNCHANGED <<srv, rem>>
           /\ r = "started" => Bootup(t)
    BY <1>8, <2>2 DEF HandleBoot, slotVars
  <2>5. CASE t = s
    <3>1. r = "started" => srv'[s] = "open" /\ rem'[s] = "dialing"
      BY <1>0, <2>4, <2>5 DEF Bootup
    <3> QED BY <1>1, <1>2, <2>1, <2>3, <2>4, <2>5, <3>1, BootInStep DEF AtLoop
  <2>6. CASE t # s
    <3>1. srv'[s] = srv[s] /\ rem'[s] = rem[s]
      BY <1>0, <2>4, <2>6 DEF Bootup
    <3>2. Head(c2s) \notin Signals(s)
      BY <2>3, <2>6 DEF Signals, Stream, Close, Completed
    <3>3. HandlerKept(s)
      BY <1>3, <1>4, <1>5, <2>1, <2>4, <2>6
    <3> QED BY <1>1, <1>2, <2>1, <3>1, <3>2, <3>3, UpTail, DownSame, Untouched DEF AtLoop
  <2> QED BY <2>5, <2>6
<1>9. CASE BootSignal
  <2>1. /\ h.at = "boot" /\ s2c' = Append(s2c, Stream(h.slot, h.then)) /\ h' = Loop
        /\ UNCHANGED <<c2s, srv, rem>>
    BY <1>9 DEF BootSignal, Put, slotVars
  <2>2. ~Boots(s)' /\ ~Owes(s)'
    BY <2>1, NoBusinessNext
  <2>3. CASE h.slot = s
    BY <1>1, <1>2, <2>1, <2>2, <2>3, SignalInStep DEF Boots
  <2>4. CASE h.slot # s
    <3>1. HandlerKept(s)
      BY <1>3, <2>2, <2>4 DEF Boots, Owes
    <3> QED BY <1>1, <1>2, <2>1, <2>4, <3>1, UpSame, DownAppend, Untouched, FramesDiffer
  <2> QED BY <2>3, <2>4
<1>10. ASSUME NEW t \in Slots, HandleClose(t) PROVE Handshake(s)'
  <2>1. /\ AtLoop /\ Head(c2s) = Close(t) /\ c2s' = Tail(c2s) /\ UNCHANGED <<s2c, rem>>
        /\ \/ srv[t] = "closed" /\ UNCHANGED <<h, srv>>
           \/ srv[t] = "empty" /\ Fail("closeInactive") /\ UNCHANGED srv
           \/ srv[t] = "open" /\ StreamClose(t) /\ CloseMachine(t, "completed")
    BY <1>10 DEF HandleClose, handlerVars
  <2>2. ~Boots(s) /\ ~Owes(s)
    BY <1>4, <2>1
  <2>3. CASE t # s
    <3>1. srv'[s] = srv[s] /\ Head(c2s) \notin Signals(s)
      BY <1>0, <2>1, <2>3 DEF StreamClose, Signals, Stream, Close, Completed
    <3>2. HandlerKept(s)
      <4>1. UNCHANGED h \/ Fail("closeInactive") \/ h'.slot = t
        BY <2>1 DEF CloseMachine
      <4> QED BY <1>3, <1>5, <2>2, <2>3, <4>1, HandlerSame, NoBusinessNext
    <3> QED BY <1>1, <1>2, <2>1, <3>1, <3>2, UpTail, DownSame, Untouched DEF AtLoop
  <2>4. CASE t = s
    <3>1. /\ UpOrder(s)' /\ (Asks(s)' <=> Asks(s)) /\ Closes(s) /\ ~Closes(s)' /\ (Acks(s)' <=> Acks(s))
      BY <1>1, <2>1, <2>4, TakeSignal DEF AtLoop
    <3>2. CASE srv[s] = "open"
      <4>1. srv'[s] = "closed" /\ h'.at = "machineClose"
        BY <1>0, <2>1, <2>4, <3>2 DEF StreamClose, CloseMachine
      <4>2. ~Boots(s)' /\ cl[s].sclosed
        BY <1>1, <3>1, <4>1 DEF Boots, Handshake, UpLane
      <4> QED BY <1>1, <1>2, <2>1, <2>2, <3>1, <3>2, <4>1, <4>2, SlotInStep
    <3>3. CASE srv[s] # "open"
      <4>1. UNCHANGED srv /\ ~Boots(s)' /\ ~Owes(s)'
        <5>1. UNCHANGED srv /\ (UNCHANGED h \/ Fail("closeInactive"))
          BY <2>1, <2>4, <3>3
        <5> QED BY <2>2, <5>1, NoBusinessNext DEF Boots, Owes
      <4>2. srv[s] = "empty" => ~Runs(s)
        BY <1>1 DEF Handshake, RemotePhase
      <4>3. srv[s] \in {"empty", "closed"}
        BY <1>0, <3>3
      <4> QED BY <1>1, <1>2, <2>1, <2>2, <3>1, <4>1, <4>2, <4>3, SlotInStep
    <3> QED BY <3>2, <3>3
  <2> QED BY <2>3, <2>4
<1>11. CASE MachineClose
  <2>1. h.at = "machineClose" /\ h' = [h EXCEPT !.at = "closeWait"] /\ UNCHANGED <<c2s, s2c, srv, rem>>
    BY <1>11 DEF MachineClose, wireVars
  <2>2. h'.at = "closeWait" /\ h'.slot = h.slot /\ h'.then = h.then
    BY <1>0, <2>1 DEF HandlerStates, HandlerState
  <2>3. HandlerKept(s)
    BY <2>1, <2>2 DEF HandlerKept, Boots, Owes
  <2> QED BY <1>1, <1>2, <2>1, <2>3, UpSame, DownSame, Untouched
<1>12. CASE CloseWait
  <2>1. /\ h.at = "closeWait" /\ rem[h.slot] = "done" /\ UNCHANGED <<c2s, s2c, rem>>
        /\ \/ h.then = "completed" /\ h' = [h EXCEPT !.at = "completed"] /\ UNCHANGED srv
           \/ h.then = "release" /\ h' = [h EXCEPT !.at = "released"] /\ UNCHANGED srv
           \/ h.then = "shutdown" /\ h' = [h EXCEPT !.at = "shutdown", !.then = "none"]
              /\ StreamRelease(h.slot)
    BY <1>12 DEF CloseWait, WaitOver, wireVars
  <2>2. h'.slot = h.slot /\ h'.at \in {"completed", "released", "shutdown"}
        /\ (h'.then = "completed" <=> h.then = "completed")
    BY <1>0, <2>1 DEF HandlerStates, HandlerState
  <2>3. HandlerKept(s)
    BY <2>1, <2>2 DEF HandlerKept, Boots, Owes
  <2>4. CASE h.slot = s /\ h.then = "shutdown"
    <3>1. srv'[s] = "empty" /\ ~Runs(s) /\ ~Boots(s) /\ ~Boots(s)' /\ ~Owes(s)'
      BY <1>0, <2>1, <2>2, <2>4 DEF StreamRelease, Runs, Boots, Owes
    <3>2. UpOrder(s)' /\ (Asks(s)' <=> Asks(s)) /\ (Closes(s)' <=> Closes(s)) /\ (Acks(s)' <=> Acks(s))
      BY <1>1, <2>1 DEF UpOrder, Asks, Closes, Acks
    <3> QED BY <1>1, <1>2, <2>1, <3>1, <3>2, SlotInStep
  <2>5. CASE ~(h.slot = s /\ h.then = "shutdown")
    <3>1. srv'[s] = srv[s]
      BY <1>0, <2>1, <2>5 DEF StreamRelease
    <3> QED BY <1>1, <1>2, <2>1, <2>3, <3>1, UpSame, DownSame, Untouched
  <2> QED BY <2>4, <2>5
<1>13. CASE SendCompleted
  <2>1. /\ h.at = "completed" /\ s2c' = Append(s2c, Completed(h.slot)) /\ h' = Loop
        /\ UNCHANGED <<c2s, srv, rem>>
    BY <1>13 DEF SendCompleted, Put, slotVars
  <2>2. ~Boots(s)' /\ ~Owes(s)' /\ ~Boots(s)
    BY <2>1, NoBusinessNext, NoBusiness
  <2>3. CASE h.slot = s
    <3>1. Owes(s) /\ srv[s] = "closed"
      BY <1>1, <2>1, <2>3, NoBusiness DEF Handshake, HandlerPhase
    <3>2. ~Runs(s)
      BY <2>1, <3>1 DEF ClosedAreStopped, ClosingSlot, Runs
    <3> QED BY <1>1, <1>2, <2>1, <2>2, <2>3, <3>1, <3>2, CompletedInStep
  <2>4. CASE h.slot # s
    <3>1. HandlerKept(s)
      BY <1>3, <2>2, <2>4 DEF Owes
    <3> QED BY <1>1, <1>2, <2>1, <2>4, <3>1, UpSame, DownAppend, Untouched, FramesDiffer
  <2> QED BY <2>3, <2>4
<1>14. ASSUME NEW t \in Slots, HandleCompleted(t) PROVE Handshake(s)'
  <2>1. /\ AtLoop /\ Head(c2s) = Completed(t) /\ c2s' = Tail(c2s) /\ UNCHANGED <<s2c, rem>>
        /\ \/ srv[t] = "empty" /\ Fail("releaseInactive") /\ UNCHANGED srv
           \/ srv[t] # "empty" /\ StreamRelease(t)
              /\ IF srv[t] = "open"
                 THEN CloseMachine(t, "release")
                 ELSE h' = [at |-> "released", slot |-> t, then |-> "release"]
    BY <1>14 DEF HandleCompleted
  <2>2. ~Boots(s) /\ ~Owes(s)
    BY <1>4, <2>1
  <2>3. CASE t # s
    <3>1. srv'[s] = srv[s] /\ Head(c2s) \notin Signals(s)
      BY <1>0, <2>1, <2>3 DEF StreamRelease, Signals, Stream, Close, Completed
    <3>2. HandlerKept(s)
      <4>1. Fail("releaseInactive") \/ h'.slot = t
        BY <2>1 DEF CloseMachine
      <4> QED BY <1>3, <1>5, <2>2, <2>3, <4>1, NoBusinessNext
    <3> QED BY <1>1, <1>2, <2>1, <3>1, <3>2, UpTail, DownSame, Untouched DEF AtLoop
  <2>4. CASE t = s
    <3>1. /\ UpOrder(s)' /\ (Asks(s)' <=> Asks(s)) /\ (Closes(s)' => Closes(s)) /\ ~Closes(s)
          /\ (Acks(s)' => Acks(s)) /\ Acks(s)
      BY <1>1, <2>1, <2>4, TakeSignal DEF AtLoop
    <3>2. srv[s] # "open"
      BY <1>1, <3>1 DEF Handshake, UpLane, ClientPhase
    <3>3. srv'[s] = "empty" /\ ~Boots(s)' /\ ~Owes(s)'
      <4>1. CASE Fail("releaseInactive") /\ srv[t] = "empty" /\ UNCHANGED srv
        BY <2>4, <4>1, NoBusinessNext
      <4>2. CASE StreamRelease(t) /\ h' = [at |-> "released", slot |-> t, then |-> "release"]
        BY <1>0, <2>4, <4>2 DEF StreamRelease, Boots, Owes
      <4> QED BY <2>1, <2>4, <3>2, <4>1, <4>2
    <3>4. ~Runs(s)
      BY <2>1, <3>2 DEF ClosedAreStopped, ClosingSlot, AtLoop, Runs
    <3> QED BY <1>1, <1>2, <2>1, <2>2, <3>1, <3>3, <3>4, SlotInStep
  <2> QED BY <2>3, <2>4
<1>15. CASE Released
  <2>1. h.at = "released" /\ h' = Loop /\ UNCHANGED <<c2s, s2c, srv, rem>>
    BY <1>15 DEF Released, wireVars, slotVars
  <2>2. HandlerKept(s)
    BY <1>3, <2>1, NoBusiness, NoBusinessNext
  <2> QED BY <1>1, <1>2, <2>1, <2>2, UpSame, DownSame, Untouched
<1>16. CASE HandleEof
  BY <1>16 DEF HandleEof
<1>17. CASE Shutdown
  <2>1. h.at = "shutdown" /\ UNCHANGED <<c2s, s2c, rem>> /\ ~Boots(s) /\ ~Owes(s)
    BY <1>4, <1>17 DEF Shutdown, wireVars
  <2>2. UpOrder(s)' /\ (Asks(s)' <=> Asks(s)) /\ (Closes(s)' <=> Closes(s)) /\ (Acks(s)' <=> Acks(s))
    BY <1>1, <2>1 DEF UpOrder, Asks, Closes, Acks
  <2>3. ~Boots(s)' /\ ~Owes(s)'
    <3>1. \/ \E t \in Slots : CloseMachine(t, "shutdown")
          \/ UNCHANGED h
          \/ h' = [h EXCEPT !.at = "done"]
      BY <1>17 DEF Shutdown
    <3>2. CASE \E t \in Slots : CloseMachine(t, "shutdown")
      BY <3>2 DEF CloseMachine, Boots, Owes
    <3>3. CASE UNCHANGED h
      BY <2>1, <3>3 DEF Boots, Owes
    <3>4. CASE h' = [h EXCEPT !.at = "done"]
      <4>1. h'.at = "done" /\ h'.then = "none"
        BY <1>0, <2>1, <3>4 DEF HandlerStates, HandlerState
      <4> QED BY <4>1 DEF Boots, Owes
    <3> QED BY <3>1, <3>2, <3>3, <3>4
  <2>4. \/ srv'[s] = srv[s]
        \/ srv[s] = "open" /\ srv'[s] = "closed"
        \/ srv[s] = "closed" /\ srv'[s] = "empty"
    BY <1>0, <1>17 DEF Shutdown, StreamClose, StreamRelease
  <2>5. CASE srv'[s] = srv[s]
    BY <1>1, <1>2, <1>3, <2>1, <2>3, <2>5, UpSame, DownSame, Untouched
  <2>6. CASE srv[s] = "open" /\ srv'[s] = "closed"
    BY <1>1, <1>2, <2>1, <2>2, <2>3, <2>6, SlotInStep
  <2>7. CASE srv[s] = "closed" /\ srv'[s] = "empty"
    <3>1. ~Runs(s)
      BY <2>1, <2>7 DEF ClosedAreStopped, ClosingSlot, Runs
    <3> QED BY <1>1, <1>2, <2>1, <2>2, <2>3, <2>7, <3>1, SlotInStep
  <2> QED BY <2>4, <2>5, <2>6, <2>7
<1> QED BY <1>6, <1>7, <1>8, <1>9, <1>10, <1>11, <1>12, <1>13, <1>14, <1>15, <1>16, <1>17 DEF Handler

----------------------------------------------------------------------------
(* The remote goroutine.                                                    *)

\* A running goroutine writes a frame of its phase.
LEMMA WriteInStep ==
  ASSUME TypeOK, NEW s \in Slots, Handshake(s), Runs(s), ~Boots(s), UNCHANGED <<c2s, cl, h, srv>>,
         NEW f, s2c' = Append(s2c, f),
         \/ f = Stream(s, "hook") /\ rem[s] = "dialing" /\ rem'[s] = "dialing"
         \/ f = Stream(s, "failed") /\ rem[s] = "failed" /\ rem'[s] = "exit"
         \/ f = Stream(s, "connected") /\ rem[s] = "dialed" /\ rem'[s] = "announced"
         \/ f = Stream(s, "band") /\ rem[s] = "reading" /\ rem'[s] = "reading"
         \/ f = Close(s) /\ rem[s] = "exit" /\ rem'[s] = "signalled"
  PROVE  Handshake(s)'
<1>0. s2c \in Seq(ServerFrames)
  BY DEF TypeOK, WireTypeOK
<1>1. /\ srv[s] # "empty" /\ cl[s].active /\ ~cl[s].shut /\ ~Asks(s) /\ ~In(s2c, Close(s))
      /\ cl[s].initing => In(s2c, Stream(s, "started"))
      /\ ~In(s2c, Completed(s)) /\ ~In(s2c, Stream(s, "refused"))
      /\ rem[s] \in {"dialing", "dialed", "failed"} =>
           ~cl[s].connected /\ ~In(s2c, Stream(s, "connected"))
      /\ rem[s] = "reading" => cl[s].connected \/ In(s2c, Stream(s, "connected"))
  BY DEF Handshake, HandlerPhase, RemotePhase
<1>2. f.slot = s /\ f # Completed(s) /\ f \notin Responses(s)
  BY FramesDiffer DEF Responses
<1>3. f \in Dialogue(s) => rem[s] \in {"dialing", "dialed", "failed"}
  BY DEF Dialogue, Stream, Close
<1>4. Lane(s2c', s, cl'[s])
  <2>1. f = Stream(s, "band") => rem[s] = "reading"
    BY FramesDiffer
  <2> QED BY <1>0, <1>1, <1>2, <1>3, <2>1, LaneAppend DEF Handshake
<1>5. /\ \A g : In(s2c', g) <=> In(s2c, g) \/ g = f
      /\ ~In(s2c', Completed(s)) /\ ~In(s2c', Stream(s, "refused"))
  BY <1>0, <1>1, <1>2, AppendFacts DEF Responses
<1>6. (Boots(s)' <=> Boots(s)) /\ (Owes(s)' <=> Owes(s))
      /\ (Asks(s)' <=> Asks(s)) /\ (Acks(s)' <=> Acks(s)) /\ (Closes(s)' <=> Closes(s))
  BY DEF Boots, Owes, Asks, Acks, Closes
<1>7. UpOrder(s)' /\ UpLane(s)' /\ ClientPhase(s)'
  BY <1>1, <1>6 DEF Handshake, UpOrder, UpLane, ClientPhase
<1>8. HandlerPhase(s)'
  BY <1>5, <1>6 DEF Handshake, HandlerPhase
<1>9. RemotePhase(s)'
  BY <1>1, <1>5, <1>6, FramesDiffer DEF Handshake, RemotePhase, Runs
<1> QED BY <1>4, <1>7, <1>8, <1>9 DEF Handshake

\* The goroutine moves on in silence.
LEMMA SilentInStep ==
  ASSUME TypeOK, NEW s \in Slots, Handshake(s), UNCHANGED <<c2s, s2c, cl, h, srv>>,
         \/ rem[s] = "dialing" /\ rem'[s] \in {"dialed", "failed"}
         \/ rem[s] = "announced" /\ rem'[s] = "reading"
         \/ rem[s] = "reading" /\ rem'[s] = "exit"
         \/ rem[s] = "signalled" /\ rem'[s] = "done"
  PROVE  Handshake(s)'
<1>1. Runs(s)' <=> Runs(s)
  BY DEF Runs
<1>2. (Boots(s)' <=> Boots(s)) /\ (Owes(s)' <=> Owes(s))
      /\ (Asks(s)' <=> Asks(s)) /\ (Acks(s)' <=> Acks(s)) /\ (Closes(s)' <=> Closes(s))
  BY DEF Boots, Owes, Asks, Acks, Closes
<1>3. UpOrder(s)' /\ UpLane(s)' /\ ClientPhase(s)' /\ Lane(s2c', s, cl'[s])
  BY <1>2 DEF Handshake, UpOrder, UpLane, ClientPhase
<1>4. HandlerPhase(s)'
  BY <1>1, <1>2 DEF Handshake, HandlerPhase
<1>5. RemotePhase(s)'
  BY <1>1, <1>2 DEF Handshake, RemotePhase
<1> QED BY <1>3, <1>4, <1>5 DEF Handshake

\* What a goroutine's step writes, and where it takes the goroutine.
LEMMA RemoteMoves ==
  ASSUME link, ~overtaken', NEW t \in Slots, Remote(t)
  PROVE  \/ /\ UNCHANGED s2c
            /\ \/ rem[t] = "dialing" /\ rem' = [rem EXCEPT ![t] = "dialed"]
               \/ rem[t] = "dialing" /\ rem' = [rem EXCEPT ![t] = "failed"]
               \/ rem[t] = "announced" /\ rem' = [rem EXCEPT ![t] = "reading"]
               \/ rem[t] = "reading" /\ rem' = [rem EXCEPT ![t] = "exit"]
               \/ rem[t] = "signalled" /\ rem' = [rem EXCEPT ![t] = "done"]
         \/ /\ ~Boots(t)
            /\ \/ /\ s2c' = Append(s2c, Stream(t, "hook")) /\ rem[t] = "dialing" /\ UNCHANGED rem
               \/ /\ s2c' = Append(s2c, Stream(t, "failed"))
                  /\ rem[t] = "failed" /\ rem' = [rem EXCEPT ![t] = "exit"]
               \/ /\ s2c' = Append(s2c, Stream(t, "connected"))
                  /\ rem[t] = "dialed" /\ rem' = [rem EXCEPT ![t] = "announced"]
               \/ /\ s2c' = Append(s2c, Stream(t, "band")) /\ rem[t] = "reading" /\ UNCHANGED rem
               \/ /\ s2c' = Append(s2c, Close(t))
                  /\ rem[t] = "exit" /\ rem' = [rem EXCEPT ![t] = "signalled"]
<1>1. ASSUME NEW f, RemoteWrite(t, f) PROVE s2c' = Append(s2c, f) /\ ~Boots(t)
  BY <1>1 DEF RemoteWrite, Put, Boots
<1>2. CASE RemoteHookOutput(t)
  BY <1>1, <1>2 DEF RemoteHookOutput
<1>3. CASE RemoteDial(t)
  BY <1>3 DEF RemoteDial, Step
<1>4. CASE RemoteDialFailed(t)
  BY <1>1, <1>4 DEF RemoteDialFailed, Step
<1>5. CASE RemoteConnected(t)
  BY <1>1, <1>5 DEF RemoteConnected, Step
<1>6. CASE RemoteDeliver(t) \/ RemoteReadError(t) \/ RemoteDone(t)
  BY <1>6 DEF RemoteDeliver, RemoteReadError, RemoteDone, Step
<1>7. CASE RemoteBand(t)
  BY <1>1, <1>7 DEF RemoteBand, Step
<1>8. CASE RemoteSignalClose(t)
  BY <1>1, <1>8 DEF RemoteSignalClose, Step
<1> QED BY <1>2, <1>3, <1>4, <1>5, <1>6, <1>7, <1>8 DEF Remote

\* So does every step of a goroutine, as long as it overtakes no initial response.
LEMMA RemoteInStep ==
  ASSUME TypeOK, link, ~overtaken', NEW t \in Slots, Remote(t), NEW s \in Slots, Handshake(s)
  PROVE  Handshake(s)'
<1>0. s2c \in Seq(ServerFrames) /\ rem \in [Slots -> RemoteStates]
  BY DEF TypeOK, WireTypeOK, SlotTypeOK
<1>1. UNCHANGED <<c2s, cl, h, srv>>
  BY DEF Remote, RemoteHookOutput, RemoteDial, RemoteDialFailed, RemoteConnected, RemoteDeliver,
         RemoteBand, RemoteReadError, RemoteSignalClose, RemoteDone, RemoteFrame, clientVars, handlerVars
<1>2. \/ /\ UNCHANGED s2c
         /\ \/ rem[t] = "dialing" /\ rem' = [rem EXCEPT ![t] = "dialed"]
            \/ rem[t] = "dialing" /\ rem' = [rem EXCEPT ![t] = "failed"]
            \/ rem[t] = "announced" /\ rem' = [rem EXCEPT ![t] = "reading"]
            \/ rem[t] = "reading" /\ rem' = [rem EXCEPT ![t] = "exit"]
            \/ rem[t] = "signalled" /\ rem' = [rem EXCEPT ![t] = "done"]
      \/ /\ ~Boots(t)
         /\ \/ /\ s2c' = Append(s2c, Stream(t, "hook")) /\ rem[t] = "dialing" /\ UNCHANGED rem
            \/ /\ s2c' = Append(s2c, Stream(t, "failed"))
               /\ rem[t] = "failed" /\ rem' = [rem EXCEPT ![t] = "exit"]
            \/ /\ s2c' = Append(s2c, Stream(t, "connected"))
               /\ rem[t] = "dialed" /\ rem' = [rem EXCEPT ![t] = "announced"]
            \/ /\ s2c' = Append(s2c, Stream(t, "band")) /\ rem[t] = "reading" /\ UNCHANGED rem
            \/ /\ s2c' = Append(s2c, Close(t))
               /\ rem[t] = "exit" /\ rem' = [rem EXCEPT ![t] = "signalled"]
  BY RemoteMoves
<1>3. CASE t = s
  <2>1. CASE UNCHANGED s2c /\ rem'[s] # rem[s]
    <3>1. \/ rem[s] = "dialing" /\ rem'[s] \in {"dialed", "failed"}
          \/ rem[s] = "announced" /\ rem'[s] = "reading"
          \/ rem[s] = "reading" /\ rem'[s] = "exit"
          \/ rem[s] = "signalled" /\ rem'[s] = "done"
      <4>1. \A f : s2c' # Append(s2c, f)
        BY <1>0, <2>1
      <4> QED BY <1>0, <1>2, <1>3, <2>1, <4>1
    <3> QED BY <1>1, <2>1, <3>1, SilentInStep
  <2>2. CASE ~(UNCHANGED s2c /\ rem'[s] # rem[s])
    <3>1. PICK f : /\ ~Boots(s) /\ s2c' = Append(s2c, f)
                   /\ \/ f = Stream(s, "hook") /\ rem[s] = "dialing" /\ rem'[s] = "dialing"
                      \/ f = Stream(s, "failed") /\ rem[s] = "failed" /\ rem'[s] = "exit"
                      \/ f = Stream(s, "connected") /\ rem[s] = "dialed" /\ rem'[s] = "announced"
                      \/ f = Stream(s, "band") /\ rem[s] = "reading" /\ rem'[s] = "reading"
                      \/ f = Close(s) /\ rem[s] = "exit" /\ rem'[s] = "signalled"
      BY <1>0, <1>2, <1>3, <2>2
    <3>2. Runs(s)
      BY <3>1 DEF Runs
    <3> QED BY <1>1, <3>1, <3>2, WriteInStep
  <2> QED BY <2>1, <2>2
<1>4. CASE t # s
  <2>1. rem'[s] = rem[s]
    BY <1>0, <1>2, <1>4
  <2>2. DownKept(s)
    <3>1. CASE UNCHANGED s2c
      BY <3>1, DownSame
    <3>2. ASSUME NEW f, f.slot = t, s2c' = Append(s2c, f) PROVE DownKept(s)
      BY <1>4, <3>2, DownAppend
    <3> QED BY <1>2, <3>1, <3>2, FramesDiffer
  <2> QED BY <1>1, <2>1, <2>2, UpSame, HandlerSame, Untouched DEF SlotKept
<1> QED BY <1>3, <1>4

----------------------------------------------------------------------------

\* The invariant holds at the start, when every slot is idle and nothing is under way.
LEMMA InitInStep == Init => InStep
<1> SUFFICES ASSUME Init, NEW s \in Slots PROVE link /\ Handshake(s)
  BY ZeroIsSlot DEF InStep
<1>1. /\ cl[s] = Idle /\ c2s = <<>> /\ s2c = <<>> /\ srv[s] = "empty" /\ rem[s] = "none"
      /\ h.at = "loop" /\ h.then = "none" /\ link
  BY DEF Init
<1>2. Quiet(s2c, s) /\ \A f : ~In(s2c, f) /\ ~In(c2s, f)
  BY <1>1 DEF Quiet, In
<1>3. ~Boots(s) /\ ~Owes(s) /\ ~Runs(s) /\ ~Asks(s) /\ ~Acks(s) /\ ~Closes(s)
  BY <1>1, <1>2 DEF Boots, Owes, Runs, Asks, Acks, Closes
<1>4. ~Idle.active /\ ~Idle.initing /\ ~Idle.shut /\ ~Idle.sclosed /\ ~Idle.connected
  BY DEF Idle
<1>5. UpOrder(s)
  BY <1>1 DEF UpOrder, Once, Before
<1>6. Lane(s2c, s, cl[s])
  BY <1>2, QuietLane
<1>7. UpLane(s) /\ ClientPhase(s) /\ HandlerPhase(s) /\ RemotePhase(s)
  BY <1>1, <1>2, <1>3, <1>4 DEF UpLane, ClientPhase, HandlerPhase, RemotePhase, Runs
<1> QED BY <1>1, <1>5, <1>6, <1>7 DEF Handshake

\* Once misread, always misread.
LEMMA ReadStays == ASSUME [Next]_vars, misread' = "none" PROVE misread = "none"
<1>1. CASE User \/ ClientTick \/ ClientEof \/ LinkBreak \/ Terminated \/ UNCHANGED vars
  BY <1>1 DEF User, Request, SendData, NextSegment, UserClose, Pause, Resume, ClientTick,
     ClientHandleStream, ClientHandleClose, ClientHandleCompleted, ClientEof, LinkBreak,
     Terminated, bookVars, vars
<1>2. CASE Handler
  <2>1. ASSUME NEW t \in Slots, HandleBoot(t) PROVE misread = "none"
    BY <2>1, BootReadsRequest
  <2> QED BY <1>2, <2>1 DEF Handler, HandleControl, HandleTick, HandleClose, HandleCompleted,
       BootSignal, MachineClose, CloseWait, SendCompleted, Released, HandleEof, Shutdown, bookVars
<1>3. CASE Misframe
  BY <1>3 DEF Misframe
<1>4. ASSUME NEW t \in Slots, Remote(t) PROVE misread = "none"
  BY <1>4 DEF Remote, RemoteHookOutput, RemoteDial, RemoteDialFailed, RemoteConnected,
     RemoteDeliver, RemoteBand, RemoteReadError, RemoteSignalClose, RemoteDone, RemoteFrame
<1> QED BY <1>1, <1>2, <1>3, <1>4 DEF Next

\* Every step keeps it: what would break it has stopped the browser, overtaken a response
\* or misread data.
LEMMA NextInStep == TypeOK /\ ClosedAreStopped /\ InStep /\ [Next]_vars => InStep'
<1> SUFFICES ASSUME TypeOK, ClosedAreStopped, InStep, [Next]_vars, cst' = "serving",
                    ~overtaken', misread' = "none"
             PROVE  link' /\ \A s \in Slots : Handshake(s)'
  BY DEF InStep, Framed
<1>0. misread = "none"
  BY ReadStays
<1>1. cst = "serving" /\ ~overtaken /\ link'= link
  <2>1. ~ClearStreams
    BY DEF ClearStreams
  <2>2. CASE User \/ Terminated \/ UNCHANGED vars
    BY <2>2 DEF User, Request, SendData, NextSegment, UserClose, Pause, Resume, Terminated,
                clientVars, wireVars, bookVars, vars
  <2>3. CASE ClientTick
    BY <2>1, <2>3 DEF ClientTick, ClientHandleStream, ClientHandleClose, ClientHandleCompleted, bookVars
  <2>4. CASE ClientEof \/ LinkBreak
    BY <2>1, <2>4 DEF ClientEof, LinkBreak
  <2>5. CASE Handler
    BY <2>5 DEF Handler, HandleControl, HandleTick, HandleBoot, HandleClose, HandleCompleted, BootSignal,
         MachineClose, CloseWait, SendCompleted, Released, HandleEof, Shutdown, clientVars, wireVars, bookVars
  <2>6. ASSUME NEW t \in Slots, Remote(t) PROVE cst = "serving" /\ ~overtaken /\ link' = link
    <3>1. RemoteFrame(t)
      BY <2>6 DEF Remote, RemoteHookOutput, RemoteDial, RemoteDialFailed, RemoteConnected,
           RemoteDeliver, RemoteBand, RemoteReadError, RemoteSignalClose, RemoteDone
    <3>2. ASSUME NEW f, RemoteWrite(t, f) PROVE ~overtaken
      BY <3>2 DEF RemoteWrite
    <3>3. ~overtaken
      BY <2>6, <3>2 DEF Remote, RemoteHookOutput, RemoteDial, RemoteDialFailed, RemoteConnected,
           RemoteDeliver, RemoteBand, RemoteReadError, RemoteSignalClose, RemoteDone
    <3> QED BY <3>1, <3>3 DEF RemoteFrame, clientVars
  <2> QED BY <1>0, <2>2, <2>3, <2>4, <2>5, <2>6 DEF Next, Misframe
<1>2. link /\ \A s \in Slots : Handshake(s)
  BY <1>0, <1>1 DEF InStep, Framed
<1> SUFFICES ASSUME NEW s \in Slots PROVE Handshake(s)'
  BY <1>1, <1>2
<1>3. CASE User
  BY <1>2, <1>3, UserInStep
<1>4. CASE ClientTick
  BY <1>2, <1>4, TickInStep
<1>5. CASE ClientEof \/ LinkBreak
  BY <1>5 DEF ClientEof, LinkBreak, ClearStreams
<1>6. CASE Handler
  BY <1>2, <1>6, HandlerInStep
<1>7. ASSUME NEW t \in Slots, Remote(t) PROVE Handshake(s)'
  BY <1>2, <1>7, RemoteInStep
<1>8. CASE Terminated \/ UNCHANGED vars
  <2>1. UNCHANGED <<c2s, s2c, cl, srv, rem, h>>
    BY <1>8 DEF Terminated, vars, clientVars, wireVars, handlerVars, slotVars
  <2> QED BY <1>2, <2>1, UpSame, DownSame, HandlerSame, Untouched DEF SlotKept
<1> QED BY <1>0, <1>3, <1>4, <1>5, <1>6, <1>7, <1>8 DEF Next, Misframe

\* So both ends stay in step for as long as the browser serves and neither defect strikes.
LEMMA AlwaysInStep == Spec => []InStep
BY InitTyped, NextTyped, InitStopped, NextStopped, InitInStep, NextInStep, PTL DEF Spec

\* AcceptableToClient: no frame of the backend ever finds the browser in a state where
\* Streams.tick or stream.js throws and ends every session of the connection, for any
\* number of slots and any interleaving, up to the first initial response that is
\* overtaken and the first late data segment that is read as a request.
THEOREM FramesAreAccepted == Spec => []AcceptableToClient
<1>1. TypeOK /\ InStep => AcceptableToClient
  <2> SUFFICES ASSUME TypeOK, InStep, cst = "serving", s2c # <<>>, Framed
               PROVE  LET f == Head(s2c) IN
                        /\ cl[f.slot].active
                        /\ cl[f.slot].shut = (f.type = "Completed")
                        /\ f.type = "Stream" =>
                             IF cl[f.slot].initing THEN f.body \in {"started", "refused"}
                                                   ELSE Expected(f.slot, f.body)
    BY DEF AcceptableToClient
  <2> DEFINE f == Head(s2c)
             s == f.slot
             c == cl[s]
  <2>1. s2c \in Seq(ServerFrames) /\ f \in ServerFrames
    BY DEF TypeOK, WireTypeOK
  <2>2. s \in Slots
    BY <2>1 DEF ServerFrames, Stream, Close, Completed
  <2>3. Lane(s2c, s, c) /\ c \in ClientStates
    BY <2>2 DEF InStep, Handshake, TypeOK, ClientTypeOK
  <2>4. /\ c.active /\ (c.shut => f = Completed(s)) /\ (f = Completed(s) => c.shut)
        /\ (c.connected => f \notin Dialogue(s)) /\ (f \in Responses(s) <=> c.initing)
        /\ (f = Stream(s, "band") => c.connected)
    <3> HIDE DEF c
    <3> QED BY <2>1, <2>3, LaneHead
  <2>5. \/ f \in {Stream(s, b) : b \in {"started", "refused", "connected", "failed", "hook", "band"}}
        \/ f = Close(s) \/ f = Completed(s)
    BY <2>1 DEF ServerFrames, Stream, Close, Completed
  <2> HIDE DEF f, s, c
  <2>6. c.shut = (f.type = "Completed")
    BY <2>3, <2>4, <2>5 DEF Stream, Close, Completed, ClientStates
  <2>7. ASSUME f.type = "Stream" PROVE IF c.initing THEN f.body \in {"started", "refused"}
                                                    ELSE Expected(s, f.body)
    <3>1. PICK b \in {"started", "refused", "connected", "failed", "hook", "band"} : f = Stream(s, b)
      BY <2>5, <2>7 DEF Stream, Close, Completed
    <3>2. f.body = b /\ (f \in Responses(s) <=> b \in {"started", "refused"})
          /\ (f \in Dialogue(s) <=> b \in {"connected", "failed", "hook"})
          /\ (f = Stream(s, "band") <=> b = "band")
      BY <3>1, FramesDiffer DEF Responses, Dialogue, Stream
    <3> QED BY <2>4, <3>1, <3>2 DEF Expected, c
  <2> QED BY <2>4, <2>6, <2>7 DEF f, s, c
<1> QED BY <1>1, InitTyped, NextTyped, AlwaysInStep, PTL DEF Spec

\* FreeSlotIsReusable: the slot Streams.request hands out has no frame of the command
\* before it under way, and the backend has released it or is about to, up to the same
\* two defects: a late data segment read as a request is answered on a free slot.
THEOREM SlotsAreReusable == Spec => []FreeSlotIsReusable
<1>1. TypeOK /\ InStep => FreeSlotIsReusable
  <2> SUFFICES ASSUME TypeOK, InStep, NEW s \in Slots, cst = "serving", ~cl[s].active, Framed
               PROVE  /\ \A i \in 1 .. Len(s2c) : s2c[i].slot # s
                      /\ srv[s] = "empty" \/ (srv[s] = "closed" /\ \E i \in 1 .. Len(c2s) : c2s[i] = Completed(s))
    BY DEF FreeSlotIsReusable
  <2>1. Lane(s2c, s, cl[s]) /\ srv[s] # "open" /\ (srv[s] = "closed" => Acks(s))
    BY DEF InStep, Handshake, ClientPhase
  <2>2. srv[s] \in {"empty", "open", "closed"}
    BY DEF TypeOK, SlotTypeOK
  <2> QED BY <2>1, <2>2 DEF Lane, Fits, Acks, In
<1> QED BY <1>1, InitTyped, NextTyped, AlwaysInStep, PTL DEF Spec

----------------------------------------------------------------------------
(* StreamMux implements StreamContract: the initial state maps to its       *)
(* initial state and every step to a step of the contract or to none, until *)
(* the connection ends or one of the two defects breaks the promise.        *)

\* What else a step of the contract needs: nothing of a Sender is left to send but what
\* it may send, a closed slot gets no second CLOSE, and streams are not shut down before
\* Handle has failed.
Settled(s) ==
  /\ segs[s].left > 0 /\ ~segs[s].late => cl[s].connected /\ ~cl[s].sclosed
  /\ srv[s] = "closed" => ~Closes(s) /\ (cl[s].active /\ ~cl[s].sclosed => Asks(s))
  /\ srv[s] # "empty" => rem[s] # "none"

InOrder ==
  ~Broken => /\ h.then # "shutdown" /\ h.at \notin {"shutdown", "done"}
             /\ \A s \in Slots : Settled(s)

\* What ends the promises ends them for good.
LEMMA StaysBroken ==
  ASSUME [Next]_vars, ~Broken' PROVE ~Broken
<1>0. cst' = "serving" /\ herr' = "none" /\ ~overtaken' /\ ~lateSeg' /\ ~ClearStreams
  BY DEF Broken, Framed, ClearStreams
<1>1. misread = "none"
  BY ReadStays DEF Broken, Framed
<1>2. CASE User \/ Terminated \/ UNCHANGED vars
  BY <1>0, <1>1, <1>2 DEF User, Request, SendData, NextSegment, UserClose, Pause, Resume, Terminated,
     clientVars, handlerVars, bookVars, vars, Broken, Framed
<1>3. CASE ClientTick
  BY <1>0, <1>1, <1>3 DEF ClientTick, ClientHandleStream, ClientHandleClose, ClientHandleCompleted,
     handlerVars, bookVars, Broken, Framed
<1>4. CASE ClientEof \/ LinkBreak
  BY <1>0, <1>4 DEF ClientEof, LinkBreak
<1>5. CASE Handler
  <2>1. UNCHANGED <<cst, overtaken, lateSeg>>
    BY <1>5 DEF Handler, HandleControl, HandleTick, HandleBoot, HandleClose, HandleCompleted, BootSignal,
       MachineClose, CloseWait, SendCompleted, Released, HandleEof, Shutdown, clientVars, bookVars
  <2>2. UNCHANGED herr
    BY <1>0, <1>5 DEF Handler, HandleControl, HandleTick, HandleBoot, HandleClose, HandleCompleted,
       BootSignal, MachineClose, CloseWait, SendCompleted, Released, HandleEof, Shutdown, TelnetClient,
       handlerVars, Fail
  <2> QED BY <1>0, <1>1, <2>1, <2>2 DEF Broken, Framed
<1>6. ASSUME NEW t \in Slots, Remote(t) PROVE ~Broken
  <2>1. RemoteFrame(t)
    BY <1>6 DEF Remote, RemoteHookOutput, RemoteDial, RemoteDialFailed, RemoteConnected,
         RemoteDeliver, RemoteBand, RemoteReadError, RemoteSignalClose, RemoteDone
  <2>2. ASSUME NEW f, RemoteWrite(t, f) PROVE ~overtaken
    BY <1>0, <2>2 DEF RemoteWrite
  <2>3. ~overtaken
    BY <1>0, <1>6, <2>2 DEF Remote, RemoteHookOutput, RemoteDial, RemoteDialFailed, RemoteConnected,
         RemoteDeliver, RemoteBand, RemoteReadError, RemoteSignalClose, RemoteDone
  <2> QED BY <1>0, <1>1, <2>1, <2>3 DEF RemoteFrame, clientVars, handlerVars, Broken, Framed
<1> QED BY <1>1, <1>2, <1>3, <1>4, <1>5, <1>6 DEF Next, Misframe

\* What Settled says of a slot depends on these only.
LEMMA SettledKept ==
  ASSUME NEW s \in Slots, Settled(s), UpKept(s), cl'[s] = cl[s], segs'[s] = segs[s], srv'[s] = srv[s],
         rem'[s] = rem[s] \/ rem'[s] # "none"
  PROVE  Settled(s)'
<1>1. (Asks(s)' <=> Asks(s)) /\ (Closes(s)' <=> Closes(s))
  BY DEF UpKept, Signals, Asks, Closes
<1> QED BY <1>1 DEF Settled

\* The browser's steps.
LEMMA UserSettled ==
  ASSUME TypeOK, User, NEW s \in Slots, Handshake(s), Settled(s)
  PROVE  Settled(s)'
<1>0. /\ c2s \in Seq(ClientFrames) /\ cl \in [Slots -> ClientStates] /\ cl[s] \in ClientStates
      /\ segs \in [Slots -> [left : Nat, late : BOOLEAN]]
  BY DEF TypeOK, WireTypeOK, ClientTypeOK
<1>1. UNCHANGED <<srv, rem>>
  BY DEF User, Request, SendData, NextSegment, UserClose, Pause, Resume, slotVars
<1>2. ASSUME NEW t \in Slots, Request(t) PROVE Settled(s)'
  <2>1. cl' = [cl EXCEPT ![t] = Started] /\ c2s' = Append(c2s, Stream(t, "initial")) /\ UNCHANGED segs
        /\ ~cl[t].active
    BY <1>2 DEF Request
  <2>2. CASE t # s
    <3>1. Stream(t, "initial") \notin Signals(s)
      BY <2>2 DEF Signals, Stream, Close, Completed
    <3> QED BY <1>0, <1>1, <2>1, <2>2, <3>1, UpAppend, SettledKept
  <2>3. CASE t = s
    <3>1. cl[s] = Idle /\ ~Closes(s)
      BY <2>1, <2>3 DEF Handshake, ClientPhase
    <3>2. Asks(s)' /\ ~Closes(s)'
      BY <1>0, <2>1, <2>3, <3>1, AppendFacts, FramesDiffer DEF Asks, Closes
    <3> QED BY <1>1, <2>1, <3>1, <3>2 DEF Settled, Idle
  <2> QED BY <2>2, <2>3
<1>3. ASSUME NEW t \in Slots, SendData(t) \/ NextSegment(t) PROVE Settled(s)'
  <2>1. Stream(t, "stdin") \notin Signals(s)
    BY DEF Signals, Stream, Close, Completed
  <2>2. UpKept(s) /\ UNCHANGED cl
    BY <1>3, <2>1, UpAppend DEF SendData, NextSegment
  <2>3. CASE t # s
    <3>1. segs'[s] = segs[s]
      BY <1>0, <1>3, <2>3 DEF SendData, NextSegment
    <3> QED BY <1>1, <2>2, <3>1, SettledKept
  <2>4. CASE t = s
    <3>1. (Asks(s)' <=> Asks(s)) /\ (Closes(s)' <=> Closes(s))
      BY <2>2 DEF UpKept, Signals, Asks, Closes
    <3>2. segs'[s].left > 0 /\ ~segs'[s].late => cl[s].connected /\ ~cl[s].sclosed
      <4>1. CASE SendData(t)
        BY <2>4, <4>1 DEF SendData
      <4>2. CASE NextSegment(t)
        <5>1. segs'[s] = [left |-> segs[s].left - 1, late |-> segs[s].late /\ segs[s].left > 1]
          BY <1>0, <2>4, <4>2 DEF NextSegment
        <5>2. segs[s].left \in Nat /\ segs[s].left > 0
          BY <1>0, <2>4, <4>2 DEF NextSegment
        <5>3. CASE segs[s].left > 1
          <6>1. segs'[s].late = segs[s].late
            BY <1>0, <5>1, <5>3
          <6> QED BY <5>2, <5>3, <6>1 DEF Settled
        <5>4. CASE ~(segs[s].left > 1)
          <6>1. segs'[s].left = 0
            BY <5>1, <5>2, <5>4
          <6> QED BY <6>1
        <5> QED BY <5>3, <5>4
      <4> QED BY <1>3, <4>1, <4>2
    <3> QED BY <1>1, <2>2, <3>1, <3>2 DEF Settled
  <2> QED BY <2>3, <2>4
<1>4. ASSUME NEW t \in Slots, UserClose(t) PROVE Settled(s)'
  <2>1. cl' = [cl EXCEPT ![t].sclosed = TRUE] /\ c2s' = Append(c2s, Close(t))
        /\ cl[t].connected /\ ~cl[t].sclosed /\ segs' = [segs EXCEPT ![t].late = segs[t].left > 0]
    BY <1>4 DEF UserClose
  <2>2. CASE t # s
    <3>1. Close(t) \notin Signals(s)
      BY <2>2 DEF Signals, Stream, Close, Completed
    <3> QED BY <1>0, <1>1, <2>1, <2>2, <3>1, UpAppend, SettledKept
  <2>3. CASE t = s
    <3>1. cl[s].active /\ ~cl[s].initing
      BY <2>1, <2>3 DEF Handshake, ClientPhase, Idle
    <3>2. srv[s] # "closed"
      BY <2>1, <2>3, <3>1 DEF Settled, Handshake, UpLane
    <3>3. ~(segs'[s].left > 0 /\ ~segs'[s].late)
      BY <1>0, <2>1, <2>3
    <3> QED BY <1>1, <3>2, <3>3 DEF Settled
  <2> QED BY <2>2, <2>3
<1>5. ASSUME Pause \/ Resume PROVE Settled(s)'
  <2>1. Control("pause") \notin Signals(s) /\ Control("resume") \notin Signals(s)
    BY FramesDiffer DEF Signals
  <2> QED BY <1>1, <1>5, <2>1, UpAppend, SettledKept DEF Pause, Resume, clientVars
<1> QED BY <1>2, <1>3, <1>4, <1>5 DEF User

\* Streams.tick, as long as nothing throws.
LEMMA TickSettled ==
  ASSUME TypeOK, ClientTick, cst' = "serving", NEW s \in Slots, Handshake(s), Settled(s)
  PROVE  Settled(s)'
<1>0. /\ c2s \in Seq(ClientFrames) /\ cl \in [Slots -> ClientStates] /\ cl[s] \in ClientStates
      /\ segs \in [Slots -> [left : Nat, late : BOOLEAN]] /\ s2c \in Seq(ServerFrames)
  BY DEF TypeOK, WireTypeOK, ClientTypeOK
<1>1. ~ClearStreams
  BY DEF ClearStreams
<1>2. UNCHANGED <<srv, rem>> /\ s2c # <<>>
  BY DEF ClientTick, ClientHandleStream, ClientHandleClose, ClientHandleCompleted, slotVars
<1>3. ASSUME Head(s2c).slot = s PROVE ~Asks(s) /\ cl[s].active
  <2>1. ~Quiet(s2c, s) /\ Lane(s2c, s, cl[s])
    BY <1>0, <1>2, <1>3, TailFacts DEF Handshake
  <2> QED BY <1>0, <1>2, <1>3, <2>1, LaneHead DEF Handshake, UpLane
<1>4. ASSUME NEW t \in Slots, ClientHandleStream(t) PROVE Settled(s)'
  <2> DEFINE b == Head(s2c).body
  <2>1. /\ Head(s2c) = Stream(t, b) /\ UNCHANGED <<c2s, segs>> /\ cl[t].active
        /\ IF cl[t].initing
           THEN ClientInitialize(t, b)
           ELSE cl' = [cl EXCEPT ![t].connected = @ \/ b = "connected"]
    BY <1>1, <1>4 DEF ClientHandleStream
  <2> HIDE DEF b
  <2>2. CASE t # s
    <3>1. cl'[s] = cl[s]
      BY <1>0, <2>1, <2>2 DEF ClientInitialize
    <3> QED BY <1>2, <2>1, <3>1, UpSame, SettledKept
  <2>3. CASE t = s
    <3>1. ~Asks(s) /\ ~Asks(s)' /\ (Closes(s)' <=> Closes(s))
      <4>1. Head(s2c).slot = s
        BY <2>1, <2>3, FramesDiffer
      <4>2. ~Asks(s)
        BY <1>3, <4>1
      <4> QED BY <2>1, <4>2 DEF Asks, Closes
    <3>2. CASE cl[s].initing
      <4>1. ~cl[s].connected
        BY <3>2 DEF Handshake, ClientPhase
      <4>2. ~cl'[s].active \/ cl'[s].sclosed = cl[s].sclosed
        <5>1. cl'[s] = Idle \/ cl'[s] = [cl[s] EXCEPT !.initing = FALSE]
          BY <1>0, <2>1, <2>3, <3>2 DEF ClientInitialize
        <5> QED BY <1>0, <5>1 DEF Idle, ClientStates
      <4> QED BY <1>2, <2>1, <2>3, <3>1, <4>1, <4>2 DEF Settled
    <3>3. CASE ~cl[s].initing
      <4>1. cl'[s] = [cl[s] EXCEPT !.connected = cl[s].connected \/ b = "connected"]
        BY <1>0, <2>1, <2>3, <3>3
      <4>2. cl'[s].active = cl[s].active /\ cl'[s].sclosed = cl[s].sclosed
            /\ (cl[s].connected => cl'[s].connected)
        BY <1>0, <4>1 DEF ClientStates
      <4> QED BY <1>2, <2>1, <3>1, <4>2 DEF Settled
    <3> QED BY <3>2, <3>3
  <2> QED BY <2>2, <2>3
<1>5. ASSUME NEW t \in Slots, ClientHandleClose(t) PROVE Settled(s)'
  <2>1. /\ Head(s2c) = Close(t) /\ cl' = [cl EXCEPT ![t] = AfterClose(t)] /\ c2s' = c2s \o CloseReply(t)
        /\ segs' = [segs EXCEPT ![t].late = segs[t].left > 0] /\ cl[t].active
    BY <1>1, <1>5 DEF ClientHandleClose
  <2>2. CASE t # s
    BY <1>0, <1>2, <2>1, <2>2, UpReply, SettledKept
  <2>3. CASE t = s
    <3>1. ~(segs'[s].left > 0 /\ ~segs'[s].late)
      BY <1>0, <2>1, <2>3
    <3>2. cl'[s].sclosed
      BY <1>0, <2>1, <2>3 DEF AfterClose, ClientStates
    <3>3. srv[s] = "closed" => ~Closes(s)'
      <4>1. ASSUME srv[s] = "closed" PROVE cl[s].sclosed /\ ~Closes(s)
        <5>1. Head(s2c).slot = s
          BY <2>1, <2>3, FramesDiffer
        <5>2. ~Asks(s) /\ cl[s].active
          BY <1>3, <5>1
        <5> QED BY <4>1, <5>2 DEF Settled
      <4>2. ASSUME cl[s].sclosed, ~Closes(s) PROVE ~Closes(s)'
        <5>1. c2s' = Append(c2s, Completed(s))
          BY <1>0, <2>1, <2>3, <4>2 DEF CloseReply
        <5> QED BY <1>0, <4>2, <5>1, AppendFacts, FramesDiffer DEF Closes
      <4> QED BY <4>1, <4>2
    <3> QED BY <1>2, <3>1, <3>2, <3>3 DEF Settled
  <2> QED BY <2>2, <2>3
<1>6. ASSUME NEW t \in Slots, ClientHandleCompleted(t) PROVE Settled(s)'
  <2>1. Head(s2c) = Completed(t) /\ cl' = [cl EXCEPT ![t] = Idle] /\ UNCHANGED <<c2s, segs>> /\ cl[t].shut
    BY <1>1, <1>6 DEF ClientHandleCompleted
  <2>2. CASE t # s
    BY <1>0, <1>2, <2>1, <2>2, UpSame, SettledKept
  <2>3. CASE t = s
    <3>1. cl[s].sclosed /\ ~cl'[s].active
      BY <1>0, <2>1, <2>3 DEF Handshake, ClientPhase, Idle
    <3>2. Closes(s)' <=> Closes(s)
      BY <2>1 DEF Closes
    <3> QED BY <1>2, <2>1, <3>1, <3>2 DEF Settled
  <2> QED BY <2>2, <2>3
<1> QED BY <1>4, <1>5, <1>6 DEF ClientTick

\* The Handler's steps, as long as Handle has not failed.
LEMMA HandlerSettled ==
  ASSUME TypeOK, link, Handler, herr' = "none", h.then # "shutdown", h.at # "shutdown",
         NEW s \in Slots, \A t \in Slots : Handshake(t), Settled(s)
  PROVE  Settled(s)'
<1>0. /\ srv \in [Slots -> {"empty", "open", "closed"}] /\ rem \in [Slots -> RemoteStates]
  BY DEF TypeOK, SlotTypeOK
<1>1. UpOrder(s) /\ Handshake(s)
  BY DEF Handshake
<1>2. UNCHANGED <<cl, segs>>
  BY DEF Handler, HandleControl, HandleTick, HandleBoot, HandleClose, HandleCompleted, BootSignal,
         MachineClose, CloseWait, SendCompleted, Released, HandleEof, Shutdown, clientVars
<1>3. CASE HandleControl
  <2>1. Head(c2s) \notin Signals(s)
    BY <1>3, FramesDiffer DEF HandleControl, Signals, Stream, Close, Completed
  <2> QED BY <1>2, <1>3, <2>1, UpTail, SettledKept DEF HandleControl, AtLoop, slotVars
<1>4. ASSUME NEW t \in Slots, HandleTick(t) PROVE Settled(s)'
  <2>1. AtLoop /\ Head(c2s).type = "Stream" /\ Head(c2s).slot = t /\ srv[t] # "empty"
        /\ c2s' = Tail(c2s) /\ UNCHANGED <<srv, rem>>
    BY <1>4 DEF HandleTick, TelnetClient, slotVars
  <2>2. Head(c2s) # Stream(t, "initial")
    <3>1. ~Asks(t) \/ Acks(t)
      BY <1>0, <2>1 DEF Handshake, UpLane
    <3>2. UpOrder(t)
      BY DEF Handshake
    <3> QED BY <2>1, <3>1, <3>2, TakeSignal DEF AtLoop
  <2>3. Head(c2s) \notin Signals(s)
    BY <2>1, <2>2 DEF Signals, Stream, Close, Completed
  <2> QED BY <1>2, <2>1, <2>3, UpTail, SettledKept DEF AtLoop
<1>5. ASSUME NEW t \in Slots, HandleBoot(t) PROVE Settled(s)'
  <2>1. /\ AtLoop /\ Head(c2s).type = "Stream" /\ Head(c2s).slot = t /\ srv[t] = "empty"
        /\ c2s' = Tail(c2s) /\ (UNCHANGED slotVars \/ Bootup(t))
    BY <1>5 DEF HandleBoot
  <2>2. CASE t = s
    <3>1. srv'[s] = "empty" \/ (srv'[s] = "open" /\ rem'[s] = "dialing")
      BY <1>0, <2>1, <2>2 DEF Bootup, slotVars
    <3> QED BY <1>2, <3>1 DEF Settled
  <2>3. CASE t # s
    <3>1. srv'[s] = srv[s] /\ rem'[s] = rem[s]
      BY <1>0, <2>1, <2>3 DEF Bootup, slotVars
    <3>2. Head(c2s) \notin Signals(s)
      BY <2>1, <2>3 DEF Signals, Stream, Close, Completed
    <3> QED BY <1>2, <2>1, <3>1, <3>2, UpTail, SettledKept DEF AtLoop
  <2> QED BY <2>2, <2>3
<1>6. ASSUME NEW t \in Slots, HandleClose(t) PROVE Settled(s)'
  <2>1. /\ AtLoop /\ Head(c2s) = Close(t) /\ c2s' = Tail(c2s) /\ UNCHANGED rem
        /\ srv[t] # "empty" /\ (UNCHANGED srv \/ StreamClose(t))
    BY <1>6 DEF HandleClose, Fail
  <2>2. CASE t = s
    <3>1. Closes(s) /\ ~Closes(s)'
      BY <1>1, <2>1, <2>2, TakeSignal DEF AtLoop
    <3>2. cl[s].sclosed
      BY <1>1, <3>1 DEF Handshake, UpLane
    <3>3. srv'[s] # "empty" => rem'[s] # "none"
      BY <2>1, <2>2 DEF Settled
    <3> QED BY <1>2, <3>1, <3>2, <3>3 DEF Settled
  <2>3. CASE t # s
    <3>1. srv'[s] = srv[s] /\ Head(c2s) \notin Signals(s)
      BY <1>0, <2>1, <2>3 DEF StreamClose, Signals, Stream, Close, Completed
    <3> QED BY <1>2, <2>1, <3>1, UpTail, SettledKept DEF AtLoop
  <2> QED BY <2>2, <2>3
<1>7. ASSUME NEW t \in Slots, HandleCompleted(t) PROVE Settled(s)'
  <2>1. /\ AtLoop /\ Head(c2s) = Completed(t) /\ c2s' = Tail(c2s) /\ UNCHANGED rem /\ StreamRelease(t)
    BY <1>7 DEF HandleCompleted, Fail
  <2>2. CASE t = s
    <3>1. srv'[s] = "empty"
      BY <1>0, <2>1, <2>2 DEF StreamRelease
    <3> QED BY <1>2, <3>1 DEF Settled
  <2>3. CASE t # s
    <3>1. srv'[s] = srv[s] /\ Head(c2s) \notin Signals(s)
      BY <1>0, <2>1, <2>3 DEF StreamRelease, Signals, Stream, Close, Completed
    <3> QED BY <1>2, <2>1, <3>1, UpTail, SettledKept DEF AtLoop
  <2> QED BY <2>2, <2>3
<1>8. CASE BootSignal \/ MachineClose \/ CloseWait \/ SendCompleted \/ Released
  <2>1. UNCHANGED <<c2s, srv, rem>>
    BY <1>8 DEF BootSignal, MachineClose, CloseWait, SendCompleted, Released, wireVars, slotVars
  <2> QED BY <1>2, <2>1, UpSame, SettledKept
<1>9. CASE HandleEof \/ Shutdown
  BY <1>9 DEF HandleEof, Shutdown
<1> QED BY <1>3, <1>4, <1>5, <1>6, <1>7, <1>8, <1>9 DEF Handler

\* Nor does the Handler shut streams down before.
LEMMA HandlerStays ==
  ASSUME TypeOK, Handler, herr' = "none", h.then # "shutdown", h.at \notin {"shutdown", "done"}
  PROVE  h'.then # "shutdown" /\ h'.at \notin {"shutdown", "done"}
<1>0. h \in HandlerStates
  BY HandlerStatesTyped
<1>1. CASE HandleControl \/ \E t \in Slots : HandleTick(t)
  <2>1. UNCHANGED h
    BY <1>1 DEF HandleControl, HandleTick, TelnetClient, handlerVars, Fail
  <2> QED BY <2>1
<1>2. ASSUME NEW t \in Slots, HandleBoot(t) \/ HandleClose(t) \/ HandleCompleted(t)
      PROVE  h'.then # "shutdown" /\ h'.at \notin {"shutdown", "done"}
  <2>1. \/ UNCHANGED h
        \/ \E r \in {"started", "refused"} : h' = [at |-> "boot", slot |-> t, then |-> r]
        \/ CloseMachine(t, "completed") \/ CloseMachine(t, "release")
        \/ h' = [at |-> "released", slot |-> t, then |-> "release"]
    BY <1>2 DEF HandleBoot, HandleClose, HandleCompleted, handlerVars, Fail
  <2> QED BY <2>1 DEF CloseMachine
<1>3. CASE BootSignal \/ SendCompleted \/ Released
  <2>1. h' = Loop
    BY <1>3 DEF BootSignal, SendCompleted, Released
  <2> QED BY <1>0, <2>1 DEF Loop, HandlerStates, HandlerState
<1>4. CASE MachineClose \/ CloseWait
  <2>1. \/ h' = [h EXCEPT !.at = "closeWait"]
        \/ h' = [h EXCEPT !.at = "completed"]
        \/ h' = [h EXCEPT !.at = "released"]
    BY <1>4 DEF MachineClose, CloseWait
  <2> QED BY <1>0, <2>1 DEF HandlerStates, HandlerState
<1>5. CASE HandleEof \/ Shutdown
  BY <1>5 DEF HandleEof, Fail, Shutdown
<1> QED BY <1>1, <1>2, <1>3, <1>4, <1>5 DEF Handler

\* InOrder holds at the start,
LEMMA InitInOrder == Init => InOrder
<1> SUFFICES ASSUME Init, NEW s \in Slots
             PROVE  h.then # "shutdown" /\ h.at \notin {"shutdown", "done"} /\ Settled(s)
  BY ZeroIsSlot DEF InOrder
<1> QED BY DEF Init, Settled

\* and every step keeps it.
LEMMA NextInOrder == TypeOK /\ InStep /\ InOrder /\ [Next]_vars => InOrder'
<1> SUFFICES ASSUME TypeOK, InStep, InOrder, [Next]_vars, ~Broken'
             PROVE  h'.then # "shutdown" /\ h'.at \notin {"shutdown", "done"} /\ \A s \in Slots : Settled(s)'
  BY DEF InOrder
<1>1. ~Broken
  BY StaysBroken
<1>2. /\ link /\ \A s \in Slots : Handshake(s) /\ Settled(s)
      /\ h.then # "shutdown" /\ h.at \notin {"shutdown", "done"}
  BY <1>1 DEF InStep, InOrder, Broken, Framed
<1>3. cst' = "serving" /\ herr' = "none" /\ misread = "none"
  BY <1>1 DEF Broken, Framed
<1>4. CASE User
  <2>1. UNCHANGED h
    BY <1>4 DEF User, Request, SendData, NextSegment, UserClose, Pause, Resume, handlerVars
  <2> QED BY <1>2, <1>4, <2>1, UserSettled
<1>5. CASE ClientTick
  <2>1. UNCHANGED h
    BY <1>5 DEF ClientTick, ClientHandleStream, ClientHandleClose, ClientHandleCompleted, handlerVars
  <2> QED BY <1>2, <1>3, <1>5, <2>1, TickSettled
<1>6. CASE ClientEof \/ LinkBreak
  BY <1>3, <1>6 DEF ClientEof, LinkBreak, ClearStreams
<1>7. CASE Handler
  <2>1. \A s \in Slots : Settled(s)'
    BY <1>2, <1>3, <1>7, HandlerSettled
  <2>2. h'.then # "shutdown" /\ h'.at \notin {"shutdown", "done"}
    BY <1>2, <1>3, <1>7, HandlerStays
  <2> QED BY <2>1, <2>2
<1>8. ASSUME NEW t \in Slots, Remote(t)
      PROVE  UNCHANGED h /\ \A s \in Slots : Settled(s)'
  <2>1. UNCHANGED <<c2s, cl, segs, h, srv>>
    BY <1>8 DEF Remote, RemoteHookOutput, RemoteDial, RemoteDialFailed, RemoteConnected, RemoteDeliver,
           RemoteBand, RemoteReadError, RemoteSignalClose, RemoteDone, RemoteFrame, clientVars, handlerVars
  <2>2. UNCHANGED rem \/ \E r \in RemoteStates \ {"none"} : rem' = [rem EXCEPT ![t] = r]
    BY <1>8 DEF Remote, RemoteHookOutput, RemoteDial, RemoteDialFailed, RemoteConnected, RemoteDeliver,
           RemoteBand, RemoteReadError, RemoteSignalClose, RemoteDone, Step, RemoteStates
  <2>3. \A s \in Slots : rem'[s] = rem[s] \/ rem'[s] # "none"
    BY <2>2 DEF TypeOK, SlotTypeOK
  <2> QED BY <1>2, <2>1, <2>3, UpSame, SettledKept
<1>9. CASE Terminated \/ UNCHANGED vars
  <2>1. UNCHANGED <<c2s, cl, segs, srv, rem, h>>
    BY <1>9 DEF Terminated, vars, clientVars, wireVars, handlerVars, slotVars
  <2> QED BY <1>2, <2>1, UpSame, SettledKept
<1> QED BY <1>2, <1>3, <1>4, <1>5, <1>6, <1>7, <1>8, <1>9 DEF Next, Misframe

\* The mapped states of the contract, slot by slot.
LEMMA MapsByPoint ==
  \A s \in Slots : /\ UpMap[s] = UpOf(cl[s]) /\ AckedMap[s] = cl[s].shut /\ DownMap[s] = DownOf(s)
                   /\ OwesMap[s] = Owes(s)
BY DEF UpMap, AckedMap, DownMap, OwesMap, Owes

\* Giving a slot the state it has changes nothing.
LEMMA SameByPoint ==
  ASSUME NEW s \in Slots
  PROVE  /\ [UpMap EXCEPT ![s] = UpMap[s]] = UpMap /\ [AckedMap EXCEPT ![s] = AckedMap[s]] = AckedMap
         /\ [DownMap EXCEPT ![s] = DownMap[s]] = DownMap /\ [OwesMap EXCEPT ![s] = OwesMap[s]] = OwesMap
<1>1. ASSUME NEW f, f = [t \in Slots |-> f[t]] PROVE [f EXCEPT ![s] = f[s]] = f
  BY <1>1
<1>2. UpMap = [t \in Slots |-> UpMap[t]] /\ AckedMap = [t \in Slots |-> AckedMap[t]]
      /\ DownMap = [t \in Slots |-> DownMap[t]] /\ OwesMap = [t \in Slots |-> OwesMap[t]]
  BY DEF UpMap, AckedMap, DownMap, OwesMap
<1> QED BY <1>1, <1>2

\* Steps that leave a slot's Stream object, or the backend's part, leave the mapped state.
LEMMA UpStill == UNCHANGED cl => UNCHANGED <<UpMap, AckedMap>>
BY DEF UpMap, UpOf, AckedMap

\* The same for the slots and the Handler.
LEMMA DownStill == UNCHANGED <<h, srv, rem>> => UNCHANGED <<DownMap, OwesMap>>
BY DEF DownMap, DownOf, OwesMap

\* One slot changes.
LEMMA UpMoves ==
  ASSUME TypeOK, NEW s \in Slots, NEW d, cl' = [cl EXCEPT ![s] = d]
  PROVE  UpMap' = [UpMap EXCEPT ![s] = UpOf(d)] /\ AckedMap' = [AckedMap EXCEPT ![s] = d.shut]
<1>1. cl'[s] = d /\ \A t \in Slots : t # s => cl'[t] = cl[t]
  BY DEF TypeOK, ClientTypeOK
<1>2. ASSUME NEW t \in Slots, t # s PROVE cl'[t] = cl[t] /\ cl'[t].shut = cl[t].shut
  BY <1>1, <1>2
<1>3. UpMap' = [UpMap EXCEPT ![s] = UpOf(d)]
  <2> DEFINE A == [t \in Slots |-> UpOf(cl'[t])]
             B == [UpMap EXCEPT ![s] = UpOf(d)]
  <2>1. B = [t \in Slots |-> B[t]] /\ \A t \in Slots : B[t] = IF t = s THEN UpOf(d) ELSE UpOf(cl[t])
    BY DEF UpMap
  <2>2. \A t \in Slots : A[t] = B[t]
    <3> HIDE DEF B
    <3> QED BY <1>1, <1>2, <2>1
  <2>3. A = B
    <3> HIDE DEF B
    <3> QED BY <2>1, <2>2
  <2> QED BY <2>3 DEF UpMap
<1>4. AckedMap' = [AckedMap EXCEPT ![s] = d.shut]
  <2> DEFINE A == [t \in Slots |-> cl'[t].shut]
             B == [AckedMap EXCEPT ![s] = d.shut]
  <2>1. B = [t \in Slots |-> B[t]] /\ \A t \in Slots : B[t] = IF t = s THEN d.shut ELSE cl[t].shut
    BY DEF AckedMap
  <2>2. \A t \in Slots : A[t] = B[t]
    <3> HIDE DEF B
    <3> QED BY <1>1, <1>2, <2>1
  <2>3. A = B
    <3> HIDE DEF B
    <3> QED BY <2>1, <2>2
  <2> QED BY <2>3 DEF AckedMap
<1> QED BY <1>3, <1>4

\* The same for the backend's side,
LEMMA DownMoves ==
  ASSUME NEW s \in Slots, \A t \in Slots : t # s => DownOf(t)' = DownOf(t)
  PROVE  DownMap' = [DownMap EXCEPT ![s] = DownOf(s)']
BY DEF DownMap

\* and for the COMPLETED it owes.
LEMMA OwesMoves ==
  ASSUME NEW s \in Slots, \A t \in Slots : t # s => (Owes(t)' <=> Owes(t))
  PROVE  OwesMap' = [OwesMap EXCEPT ![s] = Owes(s)']
BY DEF OwesMap, Owes

\* A step of the contract.
ContractStep ==
  \/ Contract!SendControl \/ Contract!ReceiveDown
  \/ \E s \in Slots : \/ Contract!Open(s) \/ Contract!SendUp(s) \/ Contract!CloseUp(s)
                      \/ Contract!AnswerUp(s) \/ Contract!FreeUp(s) \/ Contract!ReceiveUp(s)
                      \/ Contract!OpenDown(s) \/ Contract!Refuse(s) \/ Contract!SendDown(s)
                      \/ Contract!CloseDown(s) \/ Contract!OweDown(s) \/ Contract!AnswerDown(s)
                      \/ Contract!FreeDown(s)
  \/ UNCHANGED <<c2s, s2c, UpMap, AckedMap, DownMap, OwesMap>>

\* Requests, input, CLOSE and flow control of the user interface are steps of the contract.
LEMMA UserContract ==
  ASSUME TypeOK, User, ~lateSeg', \A s \in Slots : Handshake(s) /\ Settled(s)
  PROVE  ContractStep
<1>0. UNCHANGED <<s2c, h, srv, rem>> /\ UNCHANGED <<DownMap, OwesMap>>
  <2>1. UNCHANGED <<s2c, h, srv, rem>>
    BY DEF User, Request, SendData, NextSegment, UserClose, Pause, Resume, slotVars, handlerVars
  <2> QED BY <2>1, DownStill
<1>1. ASSUME NEW s \in Slots, Request(s) PROVE Contract!Open(s)
  <2>1. cl' = [cl EXCEPT ![s] = Started] /\ c2s' = Append(c2s, Initial(s)) /\ ~cl[s].active
    BY <1>1 DEF Request, Initial
  <2>2. cl[s] = Idle
    BY <2>1 DEF Handshake, ClientPhase
  <2>3. UpMap[s] = "idle" /\ ~AckedMap[s] /\ AckedMap[s] = FALSE
    BY <2>1, <2>2, MapsByPoint DEF UpOf, Idle
  <2>4. UpMap' = [UpMap EXCEPT ![s] = "open"] /\ AckedMap' = [AckedMap EXCEPT ![s] = FALSE]
    <3>1. UpOf(Started) = "open" /\ Started.shut = FALSE
      BY DEF UpOf, Started, Idle
    <3>2. UpMap' = [UpMap EXCEPT ![s] = UpOf(Started)] /\ AckedMap' = [AckedMap EXCEPT ![s] = Started.shut]
      BY <2>1, UpMoves
    <3> QED BY <3>1, <3>2
  <2>5. AckedMap' = AckedMap
    BY <2>3, <2>4, SameByPoint
  <2> QED BY <1>0, <2>1, <2>3, <2>4, <2>5 DEF Contract!Open, Contract!Up
<1>2. ASSUME NEW s \in Slots, SendData(s) \/ NextSegment(s) PROVE Contract!SendUp(s)
  <2>1. UNCHANGED cl /\ c2s' = Append(c2s, Stream(s, "stdin"))
    BY <1>2 DEF SendData, NextSegment
  <2>2. cl[s].connected /\ ~cl[s].sclosed
    BY <1>2 DEF SendData, NextSegment, Settled
  <2>3. cl[s].active
    BY <2>2 DEF Handshake, ClientPhase, Idle
  <2>4. UpMap[s] = "open" /\ UNCHANGED <<UpMap, AckedMap>>
    BY <2>1, <2>2, <2>3, MapsByPoint, UpStill DEF UpOf
  <2>5. UpMap' = [UpMap EXCEPT ![s] = "open"]
    BY <2>4, SameByPoint
  <2>6. Stream(s, "stdin") \in BodyFrames({"stdin"}) /\ Stream(s, "stdin").slot = s
    BY FramesDiffer DEF BodyFrames
  <2> QED BY <1>0, <2>1, <2>4, <2>5, <2>6 DEF Contract!SendUp, Contract!Up
<1>3. ASSUME NEW s \in Slots, UserClose(s) PROVE Contract!CloseUp(s)
  <2>1. cl' = [cl EXCEPT ![s] = [cl[s] EXCEPT !.sclosed = TRUE]] /\ c2s' = Append(c2s, Close(s))
        /\ cl[s].connected /\ ~cl[s].sclosed
    BY <1>3 DEF UserClose
  <2>2. cl[s].active /\ cl[s] \in ClientStates
    BY <2>1 DEF Handshake, ClientPhase, Idle, TypeOK, ClientTypeOK
  <2>3. UpMap[s] = "open" /\ AckedMap[s] = cl[s].shut
    BY <2>1, <2>2, MapsByPoint DEF UpOf
  <2> DEFINE d == [cl[s] EXCEPT !.sclosed = TRUE]
  <2>4. UpOf(d) = "closed" /\ d.shut = cl[s].shut
    BY <2>2 DEF UpOf, ClientStates
  <2> HIDE DEF d
  <2>5. UpMap' = [UpMap EXCEPT ![s] = "closed"] /\ AckedMap' = [AckedMap EXCEPT ![s] = cl[s].shut]
    <3>1. UpMap' = [UpMap EXCEPT ![s] = UpOf(d)] /\ AckedMap' = [AckedMap EXCEPT ![s] = d.shut]
      BY <2>1, UpMoves DEF d
    <3> QED BY <2>4, <3>1
  <2>6. AckedMap' = AckedMap
    BY <2>3, <2>5, SameByPoint
  <2> QED BY <1>0, <2>1, <2>3, <2>5, <2>6 DEF Contract!CloseUp, Contract!Up
<1>4. ASSUME Pause \/ Resume PROVE Contract!SendControl
  <2>1. UNCHANGED cl /\ \E f \in {Control("pause"), Control("resume")} : c2s' = Append(c2s, f)
    BY <1>4 DEF Pause, Resume, clientVars
  <2> QED BY <1>0, <2>1, UpStill DEF Contract!SendControl
<1> QED BY <1>1, <1>2, <1>3, <1>4 DEF User, ContractStep

\* So is every frame Streams.tick takes.
LEMMA TickContract ==
  ASSUME TypeOK, ClientTick, cst' = "serving", \A s \in Slots : Handshake(s)
  PROVE  ContractStep
<1>0. ~ClearStreams /\ s2c \in Seq(ServerFrames)
  BY DEF ClearStreams, TypeOK, WireTypeOK
<1>1. s2c # <<>> /\ s2c' = Tail(s2c) /\ UNCHANGED <<DownMap, OwesMap>>
  <2>1. s2c # <<>> /\ s2c' = Tail(s2c) /\ UNCHANGED <<h, srv, rem>>
    BY DEF ClientTick, ClientHandleStream, ClientHandleClose, ClientHandleCompleted, slotVars, handlerVars
  <2> QED BY <2>1, DownStill
<1>2. ASSUME NEW s \in Slots, ClientHandleStream(s) PROVE Contract!ReceiveUp(s)
  <2> DEFINE b == Head(s2c).body
             c == cl[s]
             d == cl'[s]
  <2>0. IF c.initing
        THEN ClientInitialize(s, b)
        ELSE cl' = [cl EXCEPT ![s] = [cl[s] EXCEPT !.connected = cl[s].connected \/ b = "connected"]]
    BY <1>0, <1>2 DEF ClientHandleStream, TickThrows
  <2>1. Head(s2c) = Stream(s, b) /\ UNCHANGED c2s /\ c.active /\ ~c.shut
    BY <1>0, <1>2 DEF ClientHandleStream, TickThrows
  <2>2. c \in ClientStates /\ Lane(s2c, s, c) /\ cl \in [Slots -> ClientStates]
    BY DEF TypeOK, ClientTypeOK, Handshake
  <2>3. b \in {"started", "refused", "connected", "failed", "hook", "band"}
    <3>1. Head(s2c) \in ServerFrames
      BY <1>0, <1>1
    <3> HIDE DEF b
    <3> QED BY <2>1, <3>1 DEF ServerFrames, Stream, Close, Completed
  <2> HIDE DEF b, d
  <2>4. c.initing <=> b \in {"started", "refused"}
    <3>1. Head(s2c).slot = s
      BY <2>1, FramesDiffer
    <3>2. c.initing <=> Head(s2c) \in Responses(s)
      <4> HIDE DEF c
      <4> QED BY <1>0, <1>1, <2>2, <3>1, LaneHead
    <3> QED BY <2>1, <3>2, FramesDiffer DEF Responses
  <2>5. UpMap[s] # "idle" /\ AckedMap[s] = FALSE /\ ~AckedMap[s]
    BY <2>1, <2>2, MapsByPoint DEF UpOf, ClientStates
  <2>6. CASE b = "refused"
    <3>1. cl' = [cl EXCEPT ![s] = Idle] /\ ~c.sclosed
      BY <2>0, <2>4, <2>6 DEF ClientInitialize, Handshake, ClientPhase
    <3>2. UpMap' = [UpMap EXCEPT ![s] = "idle"] /\ AckedMap' = [AckedMap EXCEPT ![s] = FALSE]
      <4>1. UpOf(Idle) = "idle" /\ Idle.shut = FALSE
        BY DEF UpOf, Idle
      <4>2. UpMap' = [UpMap EXCEPT ![s] = UpOf(Idle)] /\ AckedMap' = [AckedMap EXCEPT ![s] = Idle.shut]
        BY <3>1, UpMoves
      <4> QED BY <4>1, <4>2
    <3>3. AckedMap' = AckedMap
      BY <2>5, <3>2, SameByPoint
    <3>4. UpMap[s] = "open"
      BY <2>1, <3>1, MapsByPoint DEF UpOf
    <3>5. Contract!Take(Refused(s))
      BY <1>1, <2>1, <2>6 DEF Contract!Take, Refused
    <3> QED BY <1>1, <2>1, <2>5, <3>2, <3>3, <3>4, <3>5 DEF Contract!ReceiveUp
  <2>7. CASE b # "refused"
    <3>1. cl' = [cl EXCEPT ![s] = d] /\ d.active = c.active /\ d.shut = c.shut /\ d.sclosed = c.sclosed
      <4>1. CASE c.initing
        <5>1. cl' = [cl EXCEPT ![s] = [cl[s] EXCEPT !.initing = FALSE]]
          BY <2>0, <2>4, <2>7, <4>1 DEF ClientInitialize
        <5> QED BY <2>2, <5>1 DEF ClientStates, d
      <4>2. CASE ~c.initing
        BY <2>0, <2>2, <4>2 DEF ClientStates, d
      <4> QED BY <4>1, <4>2
    <3>2. UNCHANGED <<UpMap, AckedMap>>
      <4>1. UpMap' = [UpMap EXCEPT ![s] = UpMap[s]] /\ AckedMap' = [AckedMap EXCEPT ![s] = AckedMap[s]]
        <5>1. UpMap[s] = UpOf(d) /\ AckedMap[s] = d.shut
          BY <3>1, MapsByPoint DEF UpOf
        <5> QED BY <3>1, <5>1, UpMoves
      <4> QED BY <4>1, SameByPoint
    <3>3. Head(s2c) \in BodyFrames({"started", "connected", "failed", "hook", "band"})
          /\ Head(s2c).slot = s
      BY <2>1, <2>3, <2>7, FramesDiffer DEF BodyFrames
    <3>4. Contract!Take(Head(s2c))
      BY <1>1 DEF Contract!Take
    <3> QED BY <1>1, <2>1, <2>5, <3>2, <3>3, <3>4 DEF Contract!ReceiveUp
  <2> QED BY <2>6, <2>7
<1>3. ASSUME NEW s \in Slots, ClientHandleClose(s) PROVE Contract!AnswerUp(s)
  <2>1. /\ Head(s2c) = Close(s) /\ cl' = [cl EXCEPT ![s] = AfterClose(s)] /\ c2s' = c2s \o CloseReply(s)
        /\ cl[s].active /\ ~cl[s].shut
    BY <1>0, <1>3 DEF ClientHandleClose
  <2>2. cl[s] \in ClientStates
    BY DEF TypeOK, ClientTypeOK
  <2>3. AfterClose(s).active /\ AfterClose(s).sclosed /\ AfterClose(s).shut
    BY <2>1, <2>2 DEF AfterClose, ClientStates
  <2>4. UpMap' = [UpMap EXCEPT ![s] = "closed"] /\ AckedMap' = [AckedMap EXCEPT ![s] = TRUE]
    <3> DEFINE d == AfterClose(s)
    <3>1. UpOf(d) = "closed" /\ d.shut = TRUE
      BY <2>2, <2>3 DEF UpOf, AfterClose, ClientStates
    <3> HIDE DEF d
    <3> QED BY <2>1, <3>1, UpMoves DEF d
  <2>5. UpMap[s] # "idle" /\ ~AckedMap[s] /\ (UpMap[s] = "open" <=> ~cl[s].sclosed)
    BY <2>1, MapsByPoint DEF UpOf
  <2>6. Contract!Take(Close(s))
    BY <1>1, <2>1 DEF Contract!Take
  <2> QED BY <1>1, <2>1, <2>4, <2>5, <2>6 DEF Contract!AnswerUp, CloseReply
<1>4. ASSUME NEW s \in Slots, ClientHandleCompleted(s) PROVE Contract!FreeUp(s)
  <2>1. Head(s2c) = Completed(s) /\ cl' = [cl EXCEPT ![s] = Idle] /\ UNCHANGED c2s /\ cl[s].active /\ cl[s].shut
    BY <1>0, <1>4 DEF ClientHandleCompleted
  <2>2. cl[s].sclosed
    BY <2>1 DEF Handshake, ClientPhase
  <2>3. UpMap' = [UpMap EXCEPT ![s] = "idle"] /\ AckedMap' = [AckedMap EXCEPT ![s] = FALSE]
    <3>1. UpOf(Idle) = "idle" /\ Idle.shut = FALSE
      BY DEF UpOf, Idle
    <3>2. UpMap' = [UpMap EXCEPT ![s] = UpOf(Idle)] /\ AckedMap' = [AckedMap EXCEPT ![s] = Idle.shut]
      BY <2>1, UpMoves
    <3> QED BY <3>1, <3>2
  <2>4. UpMap[s] = "closed" /\ AckedMap[s]
    BY <2>1, <2>2, MapsByPoint DEF UpOf
  <2>5. Contract!Take(Completed(s))
    BY <1>1, <2>1 DEF Contract!Take
  <2> QED BY <1>1, <2>1, <2>3, <2>4, <2>5 DEF Contract!FreeUp
<1> QED BY <1>2, <1>3, <1>4 DEF ClientTick, ContractStep

\* Only one slot's command or the Handler's business with it changes.
LEMMA OneSlot ==
  ASSUME NEW s \in Slots,
         \A t \in Slots : t # s => /\ srv'[t] = srv[t] /\ rem'[t] = rem[t]
                                  /\ (Boots(t)' <=> Boots(t)) /\ (Owes(t)' <=> Owes(t))
  PROVE  DownMap' = [DownMap EXCEPT ![s] = DownOf(s)'] /\ OwesMap' = [OwesMap EXCEPT ![s] = Owes(s)']
<1>1. \A t \in Slots : t # s => DownOf(t)' = DownOf(t)
  BY DEF DownOf, Boots
<1> QED BY <1>1, DownMoves, OwesMoves

\* Which state of the contract the backend's side of a slot is in.
LEMMA DownCases ==
  ASSUME NEW s \in Slots
  PROVE  /\ srv[s] = "empty" /\ ~Boots(s) => DownOf(s) = "idle"
         /\ srv[s] = "empty" /\ Boots(s) => DownOf(s) = "refusing"
         /\ srv[s] # "empty" /\ (Runs(s) \/ rem[s] = "none") => DownOf(s) = "open"
         /\ srv[s] # "empty" /\ ~Runs(s) /\ rem[s] # "none" => DownOf(s) = "closed"
         /\ srv[s] # "empty" => DownOf(s) \in {"open", "closed"}
BY DEF DownOf, Boots, Runs

\* The Handler, while Handle has not failed.
LEMMA HandlerContract ==
  ASSUME TypeOK, ClosedAreStopped, link, Handler, herr' = "none", h.then # "shutdown",
         h.at \notin {"shutdown", "done"}, misread' = "none",
         \A s \in Slots : Handshake(s) /\ Settled(s)
  PROVE  ContractStep
<1>0. /\ c2s \in Seq(ClientFrames) /\ h.slot \in Slots /\ h \in HandlerStates
      /\ srv \in [Slots -> {"empty", "open", "closed"}] /\ rem \in [Slots -> RemoteStates]
  BY HandlerStatesTyped DEF TypeOK, WireTypeOK, SlotTypeOK
<1>1. UNCHANGED <<UpMap, AckedMap>>
  <2>1. UNCHANGED cl
    BY DEF Handler, HandleControl, HandleTick, HandleBoot, HandleClose, HandleCompleted, BootSignal,
           MachineClose, CloseWait, SendCompleted, Released, HandleEof, Shutdown, clientVars
  <2> QED BY <2>1, UpStill
<1>2. \A e : Fail(e) => e = "none"
  BY DEF Fail
<1>3. AtLoop => \A s : ~Boots(s) /\ ~Owes(s)
  BY NoBusiness DEF AtLoop
<1>4. AtLoop => c2s # <<>> /\ Head(c2s) \in ClientFrames
  BY <1>0 DEF AtLoop
<1>5. CASE HandleControl
  <2>1. AtLoop /\ Head(c2s).type = "Control" /\ c2s' = Tail(c2s) /\ UNCHANGED <<s2c, h, srv, rem>>
    BY <1>5 DEF HandleControl, slotVars
  <2>2. Head(c2s) \in {Control("pause"), Control("resume")}
    BY <1>4, <2>1 DEF ClientFrames, Stream, Close, Completed, Control
  <2> QED BY <1>1, <1>4, <2>1, <2>2, DownStill DEF ContractStep, Contract!ReceiveDown, Contract!Accept
<1>6. ASSUME NEW t \in Slots, HandleTick(t) PROVE Contract!ReceiveDown
  <2>1. AtLoop /\ Head(c2s).type = "Stream" /\ Head(c2s).slot = t /\ srv[t] # "empty"
        /\ c2s' = Tail(c2s) /\ UNCHANGED <<s2c, srv, rem>>
    BY <1>6 DEF HandleTick, TelnetClient, slotVars
  <2>2. UNCHANGED h
    BY <1>2, <1>6 DEF HandleTick, TelnetClient, handlerVars
  <2>3. Head(c2s) # Stream(t, "initial")
    <3>1. ~Asks(t) \/ Acks(t)
      BY <1>0, <2>1 DEF Handshake, UpLane
    <3>2. UpOrder(t)
      BY DEF Handshake
    <3> QED BY <2>1, <3>1, <3>2, TakeSignal DEF AtLoop
  <2>4. Head(c2s) \in BodyFrames({"stdin"})
    <3>1. Head(c2s) = Stream(t, "stdin")
      BY <1>4, <2>1, <2>3 DEF ClientFrames, Stream, Close, Completed, Control
    <3> QED BY <3>1 DEF BodyFrames
  <2>5. DownMap[t] \in {"open", "closed"} /\ ~OwesMap[t]
    BY <1>3, <2>1, MapsByPoint, DownCases
  <2> QED BY <1>1, <1>4, <2>1, <2>2, <2>4, <2>5, DownStill DEF Contract!ReceiveDown, Contract!Accept
<1>7. ASSUME NEW t \in Slots, HandleBoot(t) PROVE Contract!OpenDown(t)
  <2>1. AtLoop /\ Head(c2s).type = "Stream" /\ Head(c2s).slot = t /\ srv[t] = "empty"
        /\ c2s' = Tail(c2s) /\ UNCHANGED s2c
    BY <1>7 DEF HandleBoot
  <2>2. Head(c2s).body = "initial"
    BY <1>7, BootReadsRequest
  <2>3. Head(c2s) = Initial(t)
    BY <1>4, <2>1, <2>2 DEF ClientFrames, Stream, Close, Completed, Control, Initial
  <2>4. PICK r \in {"started", "refused"} :
           /\ h' = [at |-> "boot", slot |-> t, then |-> r]
           /\ r = "refused" => UNCHANGED <<srv, rem>>
           /\ r = "started" => Bootup(t)
    BY <1>7 DEF HandleBoot, slotVars
  <2>5. \A s \in Slots : ~Owes(s)' /\ (Boots(s)' <=> s = t)
    BY <2>4 DEF Owes, Boots
  <2>6. \A s \in Slots : s # t => srv'[s] = srv[s] /\ rem'[s] = rem[s]
    BY <1>0, <2>4 DEF Bootup
  <2>7. DownMap' = [DownMap EXCEPT ![t] = DownOf(t)'] /\ OwesMap' = [OwesMap EXCEPT ![t] = Owes(t)']
    BY <1>3, <2>1, <2>5, <2>6, OneSlot
  <2>8. DownOf(t)' \in {"open", "refusing"}
    <3>1. CASE r = "refused"
      BY <2>1, <2>4, <2>5, <3>1 DEF DownOf, Boots
    <3>2. CASE r = "started"
      <4>1. srv'[t] = "open" /\ rem'[t] = "dialing"
        BY <1>0, <2>4, <3>2 DEF Bootup
      <4> QED BY <4>1 DEF DownOf
    <3> QED BY <3>1, <3>2
  <2>9. DownMap[t] = "idle" /\ OwesMap' = OwesMap
    <3>1. DownMap[t] = "idle"
      BY <1>3, <2>1, MapsByPoint, DownCases
    <3>2. Owes(t) = FALSE /\ Owes(t)' = FALSE
      BY <1>3, <2>1, <2>5 DEF Owes
    <3>3. OwesMap[t] = Owes(t)'
      BY <3>2, MapsByPoint
    <3> QED BY <2>7, <3>1, <3>3, SameByPoint
  <2> QED BY <1>1, <1>4, <2>1, <2>3, <2>7, <2>8, <2>9 DEF Contract!OpenDown, Contract!Accept
<1>8. CASE BootSignal
  <2> PICK t \in Slots : t = h.slot
    BY <1>0
  <2>1. /\ h.at = "boot" /\ s2c' = Append(s2c, Stream(t, h.then)) /\ h' = Loop /\ UNCHANGED <<c2s, srv, rem>>
    BY <1>8 DEF BootSignal, Put, slotVars
  <2>2. t \in Slots /\ h.then \in {"started", "refused"} /\ Boots(t)
    BY <1>0, <2>1 DEF HandlerStates, HandlerState, Boots
  <2>3. \A s \in Slots : ~Boots(s)' /\ ~Owes(s)' /\ ~Owes(s)
    BY <2>1, NoBusiness, NoBusinessNext
  <2>4. \A s \in Slots : s # t => ~Boots(s)
    BY DEF Boots
  <2>5. DownMap' = [DownMap EXCEPT ![t] = DownOf(t)'] /\ OwesMap' = OwesMap
    <3>1. DownMap' = [DownMap EXCEPT ![t] = DownOf(t)'] /\ OwesMap' = [OwesMap EXCEPT ![t] = Owes(t)']
      BY <2>1, <2>2, <2>3, <2>4, OneSlot
    <3>2. OwesMap[t] = Owes(t)'
      <4>1. Owes(t) = FALSE /\ Owes(t)' = FALSE
        BY <2>2, <2>3 DEF Owes
      <4> QED BY <4>1, MapsByPoint
    <3> QED BY <2>2, <3>1, <3>2, SameByPoint
  <2>6. CASE h.then = "refused"
    <3>1. srv[t] = "empty" /\ srv'[t] = "empty"
      BY <2>1, <2>2, <2>6 DEF Handshake, HandlerPhase
    <3>2. DownMap[t] = "refusing"
      BY <2>2, <3>1, MapsByPoint, DownCases
    <3>3. DownOf(t)' = "idle"
      BY <2>2, <2>3, <3>1 DEF DownOf, Boots
    <3>4. Contract!Refuse(t)
      BY <1>1, <2>1, <2>5, <2>6, <3>2, <3>3 DEF Contract!Refuse, Contract!Down, Refused
    <3> QED BY <2>2, <3>4 DEF ContractStep
  <2>7. CASE h.then = "started"
    <3>1. srv[t] = "open" /\ rem[t] \in {"dialing", "dialed", "failed"}
      BY <2>2, <2>7 DEF Handshake, HandlerPhase
    <3>2. DownMap[t] = "open" /\ DownOf(t)' = "open"
      BY <2>1, <2>2, <3>1, MapsByPoint DEF DownOf
    <3>3. Stream(t, "started") \in BodyFrames({"started", "connected", "failed", "hook", "band"})
          /\ Stream(t, "started").slot = t
      BY <2>2, FramesDiffer DEF BodyFrames
    <3>4. Contract!SendDown(t)
      BY <1>1, <2>1, <2>5, <2>7, <3>2, <3>3 DEF Contract!SendDown, Contract!Down
    <3> QED BY <2>2, <3>4 DEF ContractStep
  <2> QED BY <2>2, <2>6, <2>7
<1>9. ASSUME NEW t \in Slots, HandleClose(t) PROVE Contract!OweDown(t)
  <2>1. /\ AtLoop /\ Head(c2s) = Close(t) /\ c2s' = Tail(c2s) /\ UNCHANGED <<s2c, rem>>
        /\ \/ srv[t] = "closed"
           \/ srv[t] = "open" /\ StreamClose(t) /\ CloseMachine(t, "completed")
    BY <1>2, <1>9 DEF HandleClose, handlerVars
  <2>2. Closes(t)
    <3>1. UpOrder(t)
      BY DEF Handshake
    <3> QED BY <2>1, <3>1, TakeSignal DEF AtLoop
  <2>3. srv[t] = "open" /\ srv' = [srv EXCEPT ![t] = "closed"]
        /\ h' = [at |-> "machineClose", slot |-> t, then |-> "completed"]
    BY <2>1, <2>2 DEF Settled, StreamClose, CloseMachine
  <2>4. /\ \A s \in Slots : ~Boots(s)' /\ (Owes(s)' <=> s = t)
        /\ srv'[t] = "closed" /\ \A s \in Slots : s # t => srv'[s] = srv[s]
    BY <1>0, <2>3 DEF Boots, Owes
  <2>5. DownMap' = [DownMap EXCEPT ![t] = DownOf(t)'] /\ OwesMap' = [OwesMap EXCEPT ![t] = Owes(t)']
    BY <1>3, <2>1, <2>4, OneSlot
  <2>6. DownMap[t] \in {"open", "closed"} /\ ~OwesMap[t] /\ DownMap[t] = DownOf(t)'
    <3>1. DownOf(t)' = DownOf(t)
      BY <2>1, <2>3, <2>4 DEF DownOf
    <3> QED BY <1>3, <2>1, <2>3, <3>1, MapsByPoint, DownCases
  <2>7. DownMap' = DownMap /\ OwesMap' = [OwesMap EXCEPT ![t] = TRUE]
    <3>1. Owes(t)' = TRUE
      BY <2>4 DEF Owes
    <3> QED BY <2>5, <2>6, <3>1, SameByPoint
  <2> QED BY <1>1, <1>4, <2>1, <2>6, <2>7 DEF Contract!OweDown, Contract!Accept
<1>10. CASE MachineClose \/ CloseWait \/ Released
  <2>1. UNCHANGED <<c2s, s2c, srv, rem>>
    BY <1>10 DEF MachineClose, CloseWait, Released, wireVars, slotVars
  <2>2. \A s \in Slots : ~Boots(s) /\ ~Boots(s)' /\ (Owes(s)' <=> Owes(s))
    <3>1. CASE MachineClose \/ CloseWait
      <4>1. h.at \in {"machineClose", "closeWait"}
            /\ \E a \in {"closeWait", "completed", "released"} : h' = [h EXCEPT !.at = a]
        BY <3>1 DEF MachineClose, CloseWait
      <4>2. h'.at \in {"closeWait", "completed", "released"} /\ h'.slot = h.slot /\ h'.then = h.then
        BY <1>0, <4>1 DEF HandlerStates, HandlerState
      <4> QED BY <4>1, <4>2 DEF Boots, Owes
    <3>2. CASE Released
      BY <3>2, NoBusiness, NoBusinessNext DEF Released
    <3> QED BY <1>10, <3>1, <3>2
  <2>3. UNCHANGED <<DownMap, OwesMap>>
    <3>1. \A s \in Slots : DownOf(s)' = DownOf(s)
      BY <2>1, <2>2 DEF DownOf, Boots
    <3> QED BY <2>2, <3>1 DEF DownMap, OwesMap, Owes
  <2> QED BY <1>1, <2>1, <2>3 DEF ContractStep
<1>11. CASE SendCompleted
  <2> PICK t \in Slots : t = h.slot
    BY <1>0
  <2>1. /\ h.at = "completed" /\ s2c' = Append(s2c, Completed(t)) /\ h' = Loop /\ UNCHANGED <<c2s, srv, rem>>
    BY <1>11 DEF SendCompleted, Put, slotVars
  <2>2. t \in Slots /\ Owes(t) /\ (\A s \in Slots : s # t => ~Owes(s))
    BY <1>0, <2>1, NoBusiness DEF Owes
  <2>3. srv[t] = "closed" /\ rem[t] = "done"
    <3>1. srv[t] = "closed"
      BY <2>2 DEF Handshake, HandlerPhase
    <3>2. rem[t] # "none"
      BY <2>2, <3>1 DEF Settled
    <3> QED BY <2>1, <2>2, <3>1, <3>2 DEF ClosedAreStopped, ClosingSlot
  <2>4. \A s \in Slots : ~Boots(s)' /\ ~Owes(s)' /\ ~Boots(s)
    BY <2>1, NoBusiness, NoBusinessNext
  <2>5. DownMap' = [DownMap EXCEPT ![t] = DownOf(t)'] /\ OwesMap' = [OwesMap EXCEPT ![t] = Owes(t)']
    BY <2>1, <2>2, <2>4, OneSlot
  <2>6. DownMap[t] = "closed" /\ OwesMap[t] /\ DownOf(t)' = "closed"
    BY <2>1, <2>2, <2>3, MapsByPoint DEF DownOf
  <2>7. DownMap' = DownMap /\ OwesMap' = [OwesMap EXCEPT ![t] = FALSE]
    <3>1. Owes(t)' = FALSE
      BY <2>2, <2>4 DEF Owes
    <3> QED BY <2>2, <2>5, <2>6, <3>1, SameByPoint
  <2>8. Contract!AnswerDown(t)
    BY <1>1, <2>1, <2>6, <2>7 DEF Contract!AnswerDown
  <2> QED BY <2>2, <2>8 DEF ContractStep
<1>12. ASSUME NEW t \in Slots, HandleCompleted(t) PROVE Contract!FreeDown(t)
  <2>1. /\ AtLoop /\ Head(c2s) = Completed(t) /\ c2s' = Tail(c2s) /\ UNCHANGED <<s2c, rem>>
        /\ srv[t] # "empty" /\ StreamRelease(t)
        /\ srv[t] # "open" => h' = [at |-> "released", slot |-> t, then |-> "release"]
    BY <1>2, <1>12 DEF HandleCompleted
  <2>2. srv[t] = "closed"
    <3>1. Acks(t) /\ ~Closes(t)
      <4>1. UpOrder(t)
        BY DEF Handshake
      <4> QED BY <2>1, <4>1, TakeSignal DEF AtLoop
    <3>2. srv[t] # "open"
      BY <3>1 DEF Handshake, UpLane, ClientPhase
    <3> QED BY <1>0, <2>1, <3>2
  <2>3. rem[t] = "done"
    <3>1. rem[t] # "none"
      BY <2>2 DEF Settled
    <3> QED BY <2>1, <2>2, <3>1 DEF ClosedAreStopped, ClosingSlot, AtLoop
  <2>4. srv' = [srv EXCEPT ![t] = "empty"] /\ \A s \in Slots : ~Boots(s)' /\ ~Owes(s)'
    BY <2>1, <2>2 DEF StreamRelease, Boots, Owes
  <2>5. srv'[t] = "empty" /\ \A s \in Slots : s # t => srv'[s] = srv[s]
    BY <1>0, <2>4
  <2>6. DownMap' = [DownMap EXCEPT ![t] = DownOf(t)'] /\ OwesMap' = [OwesMap EXCEPT ![t] = Owes(t)']
    BY <1>3, <2>1, <2>4, <2>5, OneSlot
  <2>7. DownMap[t] = "closed" /\ ~OwesMap[t] /\ OwesMap[t] = Owes(t)' /\ DownOf(t)' = "idle"
    <3>1. DownOf(t)' = "idle"
      BY <2>4, <2>5 DEF DownOf, Boots
    <3>2. Owes(t) = FALSE /\ Owes(t)' = FALSE
      BY <1>3, <2>1, <2>4 DEF Owes
    <3>3. DownOf(t) = "closed"
      BY <2>2, <2>3 DEF DownOf
    <3> QED BY <3>1, <3>2, <3>3, MapsByPoint
  <2>8. DownMap' = [DownMap EXCEPT ![t] = "idle"] /\ OwesMap' = OwesMap
    BY <2>6, <2>7, SameByPoint
  <2> QED BY <1>1, <1>4, <2>1, <2>7, <2>8 DEF Contract!FreeDown, Contract!Accept
<1>13. CASE HandleEof \/ Shutdown
  BY <1>2, <1>13 DEF HandleEof, Shutdown
<1> QED BY <1>5, <1>6, <1>7, <1>8, <1>9, <1>10, <1>11, <1>12, <1>13 DEF Handler, ContractStep

\* The remote goroutines, as long as no frame overtakes an initial response.
LEMMA RemoteContract ==
  ASSUME TypeOK, link, ~overtaken', NEW t \in Slots, Remote(t), Handshake(t)
  PROVE  ContractStep
<1>0. s2c \in Seq(ServerFrames) /\ rem \in [Slots -> RemoteStates]
  BY DEF TypeOK, WireTypeOK, SlotTypeOK
<1>1. UNCHANGED <<c2s, cl, h, srv>> /\ UNCHANGED <<UpMap, AckedMap>>
  <2>1. UNCHANGED <<c2s, cl, h, srv>>
    BY DEF Remote, RemoteHookOutput, RemoteDial, RemoteDialFailed, RemoteConnected, RemoteDeliver,
           RemoteBand, RemoteReadError, RemoteSignalClose, RemoteDone, RemoteFrame, clientVars, handlerVars
  <2> QED BY <2>1, UpStill
<1>2. \A s \in Slots : (Boots(s)' <=> Boots(s)) /\ (Owes(s)' <=> Owes(s))
  BY <1>1 DEF Boots, Owes
<1>3. OwesMap' = OwesMap
  BY <1>1 DEF OwesMap
<1>4. ASSUME NEW a, rem' = [rem EXCEPT ![t] = a] \/ (rem[t] = a /\ UNCHANGED rem)
      PROVE  rem'[t] = a /\ DownMap' = [DownMap EXCEPT ![t] = DownOf(t)']
  <2>1. rem'[t] = a /\ \A s \in Slots : s # t => rem'[s] = rem[s]
    BY <1>0, <1>4
  <2> QED BY <1>1, <1>2, <2>1, OneSlot
<1>5. Runs(t) => srv[t] # "empty" /\ DownMap[t] = "open"
  BY MapsByPoint, DownCases DEF Handshake, RemotePhase
<1>6. CASE UNCHANGED s2c /\ ~\E f : s2c' = Append(s2c, f)
  <2>1. PICK a : /\ rem' = [rem EXCEPT ![t] = a]
                 /\ \/ rem[t] \in {"dialing", "announced", "reading"}
                       /\ a \in {"dialed", "failed", "reading", "exit"}
                    \/ rem[t] = "signalled" /\ a = "done"
    BY <1>6, RemoteMoves
  <2>2. rem'[t] = a /\ DownMap' = [DownMap EXCEPT ![t] = DownOf(t)']
    BY <1>4, <2>1
  <2>3. DownOf(t)' = DownOf(t)
    BY <1>1, <2>1, <2>2 DEF DownOf
  <2>4. DownMap' = DownMap
    BY <2>2, <2>3, MapsByPoint, SameByPoint
  <2> QED BY <1>1, <1>3, <1>6, <2>4 DEF ContractStep
<1>7. CASE \E f : s2c' = Append(s2c, f)
  <2>0. ~UNCHANGED s2c
    BY <1>0, <1>7
  <2>1. PICK f, a : /\ s2c' = Append(s2c, f) /\ (rem' = [rem EXCEPT ![t] = a] \/ (rem[t] = a /\ UNCHANGED rem))
                    /\ rem[t] \in {"dialing", "failed", "dialed", "reading", "exit"}
                    /\ \/ a \in {"dialing", "exit", "announced", "reading"}
                          /\ f \in {Stream(t, "hook"), Stream(t, "failed"), Stream(t, "connected"), Stream(t, "band")}
                       \/ a = "signalled" /\ f = Close(t)
    BY <2>0, RemoteMoves
  <2>2. rem'[t] = a /\ DownMap' = [DownMap EXCEPT ![t] = DownOf(t)']
    BY <1>4, <2>1
  <2>3. srv[t] # "empty" /\ DownMap[t] = "open"
    BY <1>5, <2>1 DEF Runs
  <2>4. CASE a = "signalled" /\ f = Close(t)
    <3>1. DownOf(t)' = "closed"
      BY <1>1, <2>2, <2>3, <2>4 DEF DownOf
    <3>2. Contract!CloseDown(t)
      BY <1>1, <1>3, <2>1, <2>2, <2>3, <2>4, <3>1 DEF Contract!CloseDown, Contract!Down
    <3> QED BY <3>2 DEF ContractStep
  <2>5. CASE f \in {Stream(t, "hook"), Stream(t, "failed"), Stream(t, "connected"), Stream(t, "band")}
    <3>1. a # "signalled"
      BY <2>1, <2>5, FramesDiffer
    <3>2. DownOf(t)' = "open"
      BY <1>1, <2>1, <2>2, <2>3, <3>1 DEF DownOf
    <3>3. f \in BodyFrames({"started", "connected", "failed", "hook", "band"}) /\ f.slot = t
      <4>1. \A b \in {"hook", "failed", "connected", "band"} :
               Stream(t, b) \in BodyFrames({"started", "connected", "failed", "hook", "band"})
        BY DEF BodyFrames
      <4>2. PICK b \in {"hook", "failed", "connected", "band"} : f = Stream(t, b)
        BY <2>5
      <4> QED BY <4>1, <4>2, FramesDiffer
    <3>4. Contract!SendDown(t)
      BY <1>1, <1>3, <2>1, <2>2, <2>3, <3>2, <3>3 DEF Contract!SendDown, Contract!Down
    <3> QED BY <3>4 DEF ContractStep
  <2> QED BY <2>1, <2>4, <2>5
<1> QED BY <1>6, <1>7, RemoteMoves

\* Init is an initial state of the contract.
LEMMA InitContract == Init => Contract!Init
<1> SUFFICES ASSUME Init PROVE Contract!Init
  OBVIOUS
<1>1. Broken = FALSE
  BY DEF Init, Broken, Framed
<1>2. /\ UpMap = [s \in Slots |-> "idle"] /\ AckedMap = [s \in Slots |-> FALSE]
      /\ DownMap = [s \in Slots |-> "idle"] /\ OwesMap = [s \in Slots |-> FALSE]
  BY DEF Init, Idle, UpMap, UpOf, AckedMap, DownMap, DownOf, OwesMap
<1> QED BY <1>1, <1>2 DEF Init, Contract!Init

\* A step of the code is a step of the contract or none, given the invariants.
LEMMA NextContract ==
  TypeOK /\ ClosedAreStopped /\ InStep /\ InOrder /\ [Next]_vars => [Contract!Next]_Contract!cvars
<1> SUFFICES ASSUME TypeOK, ClosedAreStopped, InStep, InOrder, [Next]_vars, ~Broken'
             PROVE  [Contract!Next]_Contract!cvars
  BY DEF Contract!Next
<1>1. ~Broken
  BY StaysBroken
<1>2. /\ link /\ \A s \in Slots : Handshake(s) /\ Settled(s)
      /\ h.then # "shutdown" /\ h.at \notin {"shutdown", "done"}
  BY <1>1 DEF InStep, InOrder, Broken, Framed
<1>3. cst' = "serving" /\ herr' = "none" /\ ~overtaken' /\ ~lateSeg' /\ misread' = "none" /\ misread = "none"
  BY <1>1 DEF Broken, Framed
<1>4. ContractStep
  <2>1. CASE User
    BY <1>2, <1>3, <2>1, UserContract
  <2>2. CASE ClientTick
    BY <1>2, <1>3, <2>2, TickContract
  <2>3. CASE ClientEof \/ LinkBreak
    BY <1>3, <2>3 DEF ClientEof, LinkBreak, ClearStreams
  <2>4. CASE Handler
    BY <1>2, <1>3, <2>4, HandlerContract
  <2>5. ASSUME NEW t \in Slots, Remote(t) PROVE ContractStep
    BY <1>2, <1>3, <2>5, RemoteContract
  <2>6. CASE Terminated \/ UNCHANGED vars
    <3>1. UNCHANGED <<c2s, s2c, cl, srv, rem, h>>
      BY <2>6 DEF Terminated, vars, clientVars, wireVars, handlerVars, slotVars
    <3> QED BY <3>1, UpStill, DownStill DEF ContractStep
  <2> QED BY <1>3, <2>1, <2>2, <2>3, <2>4, <2>5, <2>6 DEF Next, Misframe
<1>5. CASE UNCHANGED <<c2s, s2c, UpMap, AckedMap, DownMap, OwesMap>>
  <2>1. Broken' = Broken
    BY <1>1 DEF Broken
  <2> QED BY <1>5, <2>1 DEF Contract!cvars
<1>6. CASE ~UNCHANGED <<c2s, s2c, UpMap, AckedMap, DownMap, OwesMap>>
  BY <1>1, <1>4, <1>6 DEF ContractStep, Contract!Next
<1> QED BY <1>5, <1>6

\* ImplementsContract: up to the end of the connection or the first overtaken response or
\* late segment, the two ends take only the steps header.go allows for a slot: no data
\* after CLOSE, one COMPLETED for each CLOSE, no reuse before both directions completed.
THEOREM ContractImplemented == Spec => ImplementsContract
<1>1. Spec => [](TypeOK /\ ClosedAreStopped /\ InStep /\ InOrder)
  BY InitTyped, NextTyped, InitStopped, NextStopped, InitInStep, NextInStep, InitInOrder, NextInOrder, PTL DEF Spec
<1> QED BY <1>1, InitContract, NextContract, PTL DEF Spec, ImplementsContract, Contract!Spec

=============================================================================
