--------------------------- MODULE MoshSessionProofs ---------------------------
(***************************************************************************)
(* Proofs about MoshSession, for every bound: types, what a released slot  *)
(* leaves behind, the host key check, the order of frames the browser      *)
(* receives, and why Handle can end over a frame of the session.           *)
(***************************************************************************)
EXTENDS MoshSession, TLAPS

----------------------------------------------------------------------------
(* Types, one group of variables at a time.                                 *)

ClientTypes == [active : BOOLEAN, connected : BOOLEAN, sclosed : BOOLEAN, shut : BOOLEAN]
ClientOK ==
  /\ c \in ClientTypes /\ prompt \in {"none", "fingerprint", "credential"}
  /\ verdict \in {"none", "yes", "no"} /\ broken \in BOOLEAN
  /\ segs \in [left : Nat, late : BOOLEAN]
WireOK == link \in BOOLEAN /\ c2s \in Seq(ClientFrames) /\ s2c \in Seq(ServerFrames)
HandlerOK ==
  /\ h \in {"loop", "closing", "waiting", "completed", "shutdown", "done"}
  /\ senderPaused \in BOOLEAN /\ needWait \in BOOLEAN
  /\ herr \in {"none", "eof", "machineClosed", "sendFailed", "answeredTwice", "garbage"}
SlotOK == srv \in {"open", "closed", "released", "reused"}
AnswersOK ==
  /\ fp \in {"none", "yes", "no"} /\ cred \in {"none", "sent"}
  /\ answered \subseteq {"fingerprint", "credential"} /\ cut \in BOOLEAN
CacheOK == ctx \in BOOLEAN /\ offered \in BOOLEAN /\ cached \in BOOLEAN
RemoteOK ==
  /\ rem \in {"hooks", "dialing", "hostkey", "fpWait", "auth", "askCred", "credWait", "bootstrap",
              "session", "monitor", "ready", "announce", "recv", "received", "holding", "failed",
              "leaving", "exit", "signalled", "done"}
  /\ ssh \in {"none", "open", "closed"} /\ udp \in {"none", "open", "closed"}
WatchOK ==
  /\ mon \in {"none", "running", "exited", "failed"} /\ watch \in {"none", "waiting", "closing", "done"}
  /\ server \in {"none", "up", "gone"}
UsedTypes == [out : 0 .. MaxOut, input : 0 .. MaxInput, pause : 0 .. 2 * MaxPause]
UsedOK == used \in UsedTypes

Typed ==
  ClientOK /\ WireOK /\ HandlerOK /\ SlotOK /\ AnswersOK /\ CacheOK /\ RemoteOK /\ WatchOK /\ UsedOK

LEMMA TypedIsTypeOK == Typed <=> TypeOK
<1>1. TypeOK => Typed
  BY DEF Typed, TypeOK, ClientOK, ClientTypes, WireOK, HandlerOK, SlotOK, AnswersOK, CacheOK, RemoteOK,
         WatchOK, UsedOK, UsedTypes
<1>2. Typed => TypeOK
  BY DEF Typed, TypeOK, ClientOK, ClientTypes, WireOK, HandlerOK, SlotOK, AnswersOK, CacheOK, RemoteOK,
         WatchOK, UsedOK, UsedTypes
<1> QED BY <1>1, <1>2

\* A group that does not change keeps its types.
LEMMA Frame ==
  ASSUME Typed
  PROVE  /\ UNCHANGED clientVars => ClientOK'
         /\ UNCHANGED wireVars => WireOK'
         /\ UNCHANGED handlerVars => HandlerOK'
         /\ UNCHANGED srv => SlotOK'
         /\ UNCHANGED answerVars => AnswersOK'
         /\ UNCHANGED <<ctx, cacheVars>> => CacheOK'
         /\ UNCHANGED remoteVars => RemoteOK'
         /\ UNCHANGED watchVars => WatchOK'
         /\ UNCHANGED used => UsedOK'
<1>1. UNCHANGED clientVars => ClientOK'
  BY DEF Typed, ClientOK, clientVars
<1>2. UNCHANGED wireVars => WireOK'
  BY DEF Typed, WireOK, wireVars
<1>3. UNCHANGED handlerVars => HandlerOK'
  BY DEF Typed, HandlerOK, handlerVars
<1>4. UNCHANGED answerVars => AnswersOK'
  BY DEF Typed, AnswersOK, answerVars
<1>5. UNCHANGED <<ctx, cacheVars>> => CacheOK'
  BY DEF Typed, CacheOK, cacheVars
<1>6. UNCHANGED remoteVars => RemoteOK'
  BY DEF Typed, RemoteOK, remoteVars
<1>7. UNCHANGED watchVars => WatchOK'
  BY DEF Typed, WatchOK, watchVars
<1>8. (UNCHANGED srv => SlotOK') /\ (UNCHANGED used => UsedOK')
  BY DEF Typed, SlotOK, UsedOK, UsedTypes
<1> QED BY <1>1, <1>2, <1>3, <1>4, <1>5, <1>6, <1>7, <1>8

LEMMA InitTyped == Init => Typed
<1> SUFFICES ASSUME Init PROVE Typed
  OBVIOUS
<1>1. WireOK
  BY DEF Init, WireOK, ServerFrames
<1>2. UsedOK
  BY MoshBoundsAssumption DEF Init, UsedOK, UsedTypes, MoshBoundsAssumption
<1> QED
  BY <1>1, <1>2 DEF Init, Typed, ClientOK, ClientTypes, HandlerOK, SlotOK, AnswersOK, CacheOK, RemoteOK, WatchOK

LEMMA EmptyTyped == <<>> \in Seq(ClientFrames) /\ <<>> \in Seq(ServerFrames)
OBVIOUS

\* Frames join and leave the queues.
LEMMA QueuesTyped ==
  ASSUME Typed
  PROVE  /\ \A f \in ClientFrames : Append(c2s, f) \in Seq(ClientFrames)
         /\ \A f \in ServerFrames : Append(s2c, f) \in Seq(ServerFrames)
         /\ c2s # <<>> => Tail(c2s) \in Seq(ClientFrames)
         /\ s2c # <<>> => Tail(s2c) \in Seq(ServerFrames)
BY DEF Typed, WireOK

\* Updates of one field, which the actions make by EXCEPT; what is left of a bound is spent.
LEMMA FieldsTyped ==
  ASSUME Typed
  PROVE  /\ \A b \in BOOLEAN : [c EXCEPT !.connected = b] \in ClientTypes
         /\ [c EXCEPT !.sclosed = TRUE] \in ClientTypes
         /\ [c EXCEPT !.shut = TRUE, !.sclosed = TRUE] \in ClientTypes
         /\ [c EXCEPT !.active = FALSE] \in ClientTypes
         /\ used.out < MaxOut => [used EXCEPT !.out = @ + 1] \in UsedTypes
         /\ used.input < MaxInput => [used EXCEPT !.input = @ + 1] \in UsedTypes
         /\ used.pause < 2 * MaxPause => [used EXCEPT !.pause = @ + 1] \in UsedTypes
         /\ used.pause % 2 = 1 => used.pause < 2 * MaxPause
<1>1. c \in ClientTypes /\ used \in UsedTypes
  BY DEF Typed, ClientOK, UsedOK
<1>2. /\ \A b \in BOOLEAN : [c EXCEPT !.connected = b] \in ClientTypes
      /\ [c EXCEPT !.sclosed = TRUE] \in ClientTypes
      /\ [c EXCEPT !.shut = TRUE, !.sclosed = TRUE] \in ClientTypes
      /\ [c EXCEPT !.active = FALSE] \in ClientTypes
  BY <1>1 DEF ClientTypes
<1> DEFINE n == used.pause
<1>3. n \in 0 .. 2 * MaxPause /\ 2 * MaxPause \in Nat
  BY <1>1, MoshBoundsAssumption DEF UsedTypes, MoshBoundsAssumption
<1>4. n % 2 = 1 => n < 2 * MaxPause
  <2> HIDE DEF n
  <2> QED BY <1>3, MoshBoundsAssumption DEF MoshBoundsAssumption
<1>5. /\ used.out < MaxOut => [used EXCEPT !.out = @ + 1] \in UsedTypes
      /\ used.input < MaxInput => [used EXCEPT !.input = @ + 1] \in UsedTypes
      /\ used.pause < 2 * MaxPause => [used EXCEPT !.pause = @ + 1] \in UsedTypes
  BY <1>1, MoshBoundsAssumption DEF UsedTypes, MoshBoundsAssumption
<1> QED BY <1>2, <1>4, <1>5

\* The loop of sendData, and what the close of a connection leaves of it.
LEMMA SegsTyped ==
  ASSUME Typed
  PROVE  /\ \A n \in 1 .. MaxSegs : [segs EXCEPT !.left = n - 1] \in [left : Nat, late : BOOLEAN]
         /\ [segs EXCEPT !.left = 0] \in [left : Nat, late : BOOLEAN]
         /\ segs.left > 0 =>
              [left |-> segs.left - 1, late |-> segs.late \/ c.sclosed] \in [left : Nat, late : BOOLEAN]
<1>1. segs \in [left : Nat, late : BOOLEAN] /\ c.sclosed \in BOOLEAN
  BY DEF Typed, ClientOK, ClientTypes
<1>2. \A n \in 1 .. MaxSegs : n - 1 \in Nat
  BY MoshBoundsAssumption DEF MoshBoundsAssumption
<1>3. \A n \in Nat : [segs EXCEPT !.left = n] \in [left : Nat, late : BOOLEAN]
  BY <1>1
<1>4. segs.left > 0 => segs.left - 1 \in Nat
  BY <1>1
<1>5. (segs.late \/ c.sclosed) \in BOOLEAN
  BY <1>1
<1> QED BY <1>2, <1>3, <1>4, <1>5

\* The connection is cleared.
LEMMA ClearedTyped ==
  ASSUME Typed, Cleared, broken' \in BOOLEAN
  PROVE  ClientOK'
<1>1. segs' \in [left : Nat, late : BOOLEAN]
  BY SegsTyped DEF Cleared
<1> QED BY <1>1 DEF Cleared, Typed, ClientOK, ClientTypes

\* Frames the backend has received are the first of those sent.
LEMMA PrefixTyped ==
  ASSUME NEW T, NEW q \in Seq(T), NEW n \in 0 .. Len(q)
  PROVE  /\ SubSeq(q, 1, n) \in Seq(T) /\ Len(SubSeq(q, 1, n)) = n
         /\ \A i \in 1 .. n : SubSeq(q, 1, n)[i] = q[i] /\ i \in 1 .. Len(q)
OBVIOUS

LEMMA UserTyped == Typed /\ User => Typed'
<1> SUFFICES ASSUME Typed, User PROVE Typed'
  OBVIOUS
<1>q. \A f \in ClientFrames : Send(f) /\ UNCHANGED <<s2c, link>> => WireOK'
  BY QueuesTyped DEF Typed, WireOK, Send
<1>f. {"stdin", "resize", "fpYes", "fpNo", "cred", "close", "pause", "resume"} \subseteq ClientFrames
  BY DEF ClientFrames
<1> USE <1>q, <1>f, Frame, FieldsTyped DEF Backend, Typed, Spend
<1>1. CASE Answer
  <2>1. /\ ClientOK' /\ UNCHANGED <<used, Backend>>
    BY <1>1 DEF Answer, ClientOK
  <2>2. WireOK'
    BY <1>1 DEF Answer
  <2> QED BY <2>1, <2>2
<1>2. CASE UserInput
  <2>1. segs' \in [left : Nat, late : BOOLEAN]
    <3>1. segs' = segs \/ \E n \in 1 .. MaxSegs : segs' = [segs EXCEPT !.left = n - 1]
      BY <1>2 DEF UserInput
    <3> QED BY <3>1, SegsTyped DEF ClientOK
  <2>2. ClientOK'
    BY <1>2, <2>1 DEF UserInput, ClientOK
  <2> QED BY <1>2, <2>2 DEF UserInput, UsedOK
<1>6. CASE NextSegment
  <2>1. segs' \in [left : Nat, late : BOOLEAN]
    BY <1>6, SegsTyped DEF NextSegment
  <2>2. ClientOK'
    BY <1>6, <2>1 DEF NextSegment, ClientOK
  <2> QED BY <1>6, <2>2 DEF NextSegment
<1>3. CASE UserClose
  BY <1>3 DEF UserClose, ClientOK
<1>4. CASE Pause
  BY <1>4 DEF Pause, UsedOK
<1>5. CASE Resume
  BY <1>5 DEF Resume, UsedOK
<1> QED BY <1>1, <1>2, <1>3, <1>4, <1>5, <1>6 DEF User

LEMMA ClientTyped == Typed /\ (ClientTick \/ ClientEof \/ LinkBreak) => Typed'
<1> SUFFICES ASSUME Typed, ClientTick \/ ClientEof \/ LinkBreak PROVE Typed'
  OBVIOUS
<1> USE Frame DEF Backend, Typed
<1>1. CASE LinkBreak
  <2>1. link' = FALSE /\ s2c' = <<>> /\ \E n \in 0 .. Len(c2s) : c2s' = SubSeq(c2s, 1, n)
    BY <1>1 DEF LinkBreak, Cleared
  <2>2. WireOK'
    BY <2>1, EmptyTyped, PrefixTyped DEF WireOK
  <2>3. ClientOK'
    BY <1>1, ClearedTyped DEF LinkBreak, ClientOK
  <2> QED BY <1>1, <2>2, <2>3 DEF LinkBreak, Cleared
<1>3. CASE ClientEof
  <2>1. WireOK'
    BY <1>3 DEF ClientEof, Cleared, WireOK
  <2>2. ClientOK'
    BY <1>3, ClearedTyped DEF ClientEof, ClientOK
  <2> QED BY <1>3, <2>1, <2>2 DEF ClientEof, Cleared
<1>2. CASE ClientTick
  <2>q. s2c' \in Seq(ServerFrames) /\ c2s \in Seq(ClientFrames) /\ UNCHANGED <<used, Backend>>
    BY <1>2, QueuesTyped DEF ClientTick, ClientThrows, Cleared, WireOK
  <2>l. link' \in BOOLEAN
    BY <1>2 DEF ClientTick, ClientThrows, Cleared, WireOK
  <2>1. c2s' \in Seq(ClientFrames)
    <3>1. {"fpYes", "cred", "close", "completed"} \subseteq ClientFrames
      BY DEF ClientFrames
    <3>2. CASE c2s' \in {c2s, Append(c2s, "fpYes"), Append(c2s, "cred")}
      BY <2>q, <3>1, <3>2, QueuesTyped
    <3>3. CASE c2s' \in {c2s \o <<"completed">>, c2s \o <<"close", "completed">>, c2s \o <<"close">>, c2s \o <<>>}
      <4>1. /\ <<"completed">> \in Seq(ClientFrames) /\ <<"close", "completed">> \in Seq(ClientFrames)
            /\ <<"close">> \in Seq(ClientFrames) /\ <<>> \in Seq(ClientFrames)
        BY <3>1
      <4>2. c2s \o <<"completed">> \in Seq(ClientFrames)
        BY <2>q, <4>1
      <4>3. c2s \o <<"close", "completed">> \in Seq(ClientFrames)
        BY <2>q, <4>1
      <4>4. c2s \o <<"close">> \in Seq(ClientFrames)
        BY <2>q, <4>1
      <4>5. c2s \o <<>> \in Seq(ClientFrames)
        BY <2>q, <4>1
      <4> QED BY <3>3, <4>2, <4>3, <4>4, <4>5
    <3> QED
      BY <1>2, <3>2, <3>3 DEF ClientTick, ClientAsked, ClientShows, ClientClosed, ClientThrows, Send
  <2>2. ClientOK'
    <3>1. CASE Acceptable(Head(s2c)) /\ ClientShows(Head(s2c))
      <4>1. (c.connected \/ Head(s2c) = "succeed") \in BOOLEAN
        BY DEF ClientOK, ClientTypes
      <4> QED BY <1>2, <3>1, <4>1, FieldsTyped DEF ClientTick, ClientShows, ClientOK
    <3>2. CASE Acceptable(Head(s2c)) /\ (ClientAsked(Head(s2c)) \/ ClientClosed(Head(s2c)))
      BY <1>2, <3>2, FieldsTyped DEF ClientTick, ClientAsked, ClientClosed, ClientOK
    <3>3. CASE ~Acceptable(Head(s2c))
      BY <1>2, <3>3, ClearedTyped DEF ClientTick, ClientThrows
    <3> QED BY <1>2, <3>1, <3>2, <3>3 DEF ClientTick
  <2> QED BY <2>q, <2>l, <2>1, <2>2 DEF WireOK
<1> QED BY <1>1, <1>2, <1>3

\* A write of the backend keeps the queue typed.
LEMMA PutTyped ==
  ASSUME Typed, NEW f \in ServerFrames, Put(f), UNCHANGED <<c2s, link>>
  PROVE  WireOK'
BY QueuesTyped DEF Typed, WireOK, Put

LEMMA HandlerTyped == Typed /\ Handler => Typed'
<1> SUFFICES ASSUME Typed, Handler PROVE Typed'
  OBVIOUS
<1>q. \A f : Take(f) /\ UNCHANGED <<s2c, link>> => WireOK'
  BY QueuesTyped DEF Typed, WireOK, Take
<1>u. UNCHANGED <<c2s, s2c, link>> => WireOK'
  BY DEF Typed, WireOK
<1> USE Frame DEF Outside, Typed
<1>1. CASE HandleControl
  <2>1. senderPaused' \in BOOLEAN
    BY <1>1 DEF HandleControl
  <2>2. WireOK'
    BY <1>1, <1>q DEF HandleControl
  <2> QED BY <1>1, <2>1, <2>2 DEF HandleControl, HandlerOK
<1>2. CASE HandleTick
  <2>q. WireOK' /\ ClientOK' /\ SlotOK' /\ RemoteOK' /\ WatchOK' /\ UsedOK' /\ ctx' = ctx
    BY <1>2, <1>q DEF HandleTick
  <2>1. CASE srv = "open" /\ TickSession
    <3>1. HandlerOK' /\ AnswersOK'
      BY <2>1 DEF TickSession, Fail, HandlerOK, AnswersOK, answerVars
    <3>2. CacheOK'
      BY <2>q, <2>1 DEF TickSession, CacheOK, Ready
    <3> QED BY <2>q, <3>1, <3>2
  <2>2. ASSUME NEW name \in {"fingerprint", "credential"}, NEW frames, TickAnswer(name, frames)
        PROVE  HandlerOK' /\ AnswersOK' /\ CacheOK'
    BY <2>q, <2>2 DEF TickAnswer, Confirmed, Fail, HandlerOK, handlerVars, AnswersOK, CacheOK, cacheVars
  <2>3. CASE srv # "open"
    BY <1>2, <2>q, <2>3 DEF HandleTick, Fail, HandlerOK
  <2> QED BY <1>2, <2>q, <2>1, <2>2, <2>3 DEF HandleTick
<1>3. CASE HandleClose
  <2>1. WireOK' /\ ClientOK' /\ RemoteOK' /\ WatchOK' /\ UsedOK'
    BY <1>3, <1>q DEF HandleClose
  <2>2. HandlerOK' /\ SlotOK'
    BY <1>3 DEF HandleClose, HandlerOK, SlotOK
  <2>3. AnswersOK' /\ CacheOK'
    BY <1>3 DEF HandleClose, CutAnswers, AnswersOK, CacheOK, cacheVars
  <2> QED BY <2>1, <2>2, <2>3
<1>4. CASE MachineClose
  BY <1>4, <1>u DEF MachineClose, CloseSession, HandlerOK, RemoteOK
<1>5. CASE CloseWait
  BY <1>5, <1>u DEF CloseWait, HandlerOK, SlotOK
<1>6. CASE SendCompleted
  <2>1. WireOK'
    BY <1>6, PutTyped DEF SendCompleted, ServerFrames
  <2> QED BY <1>6, <2>1 DEF SendCompleted, HandlerOK
<1>7. CASE HandleCompleted
  BY <1>7, <1>q DEF HandleCompleted, SlotOK
<1>8. CASE HandleEof
  BY <1>8, <1>u DEF HandleEof, Fail, HandlerOK
<1>9. CASE Shutdown
  <2>1. WireOK' /\ ClientOK' /\ RemoteOK' /\ WatchOK' /\ UsedOK'
    BY <1>9, <1>u DEF Shutdown
  <2>2. HandlerOK' /\ SlotOK'
    BY <1>9 DEF Shutdown, Gone, HandlerOK, SlotOK
  <2>3. AnswersOK' /\ CacheOK'
    BY <1>9 DEF Shutdown, CutAnswers, AnswersOK, CacheOK, cacheVars
  <2> QED BY <2>1, <2>2, <2>3
<1>10. CASE HandleAnew
  <2>1. CASE UNCHANGED handlerVars
    <3>1. c2s' \in Seq(ClientFrames)
      BY <1>10, QueuesTyped DEF HandleAnew, Take
    <3>2. s2c' \in Seq(ServerFrames)
      <4>1. "started" \in ServerFrames
        BY DEF ServerFrames
      <4>2. s2c' = s2c \/ s2c' = Append(s2c, "started")
        BY <1>10, <2>1 DEF HandleAnew, Put
      <4> QED BY <4>1, <4>2, QueuesTyped DEF WireOK
    <3> QED BY <1>10, <2>1, <3>1, <3>2 DEF HandleAnew, WireOK, SlotOK
  <2>2. CASE Fail("garbage") /\ UNCHANGED s2c
    BY <1>10, <1>q, <2>2 DEF HandleAnew, Fail, HandlerOK, SlotOK
  <2> QED BY <1>10, <2>1, <2>2 DEF HandleAnew
<1> QED BY <1>1, <1>2, <1>3, <1>4, <1>5, <1>6, <1>7, <1>8, <1>9, <1>10 DEF Handler

LEMMA RemoteTyped == Typed /\ Remote => Typed'
<1> SUFFICES ASSUME Typed, Remote PROVE Typed'
  OBVIOUS
<1>w. \A f \in {"hook", "failed", "succeed", "fingerprint", "credential", "stdout", "close"} :
        Write(f) /\ UNCHANGED <<c2s, link>> => WireOK'
  BY PutTyped DEF ServerFrames, Write
<1>u. UNCHANGED <<c2s, s2c, link>> => WireOK'
  BY DEF Typed, WireOK
<1> USE <1>w, <1>u, Frame DEF Rest, Typed, Step, RemoteOK
<1>1. CASE RemoteHookOutput
  BY <1>1, FieldsTyped DEF RemoteHookOutput, Spend, UsedOK
<1>2. CASE RemoteDial
  BY <1>2 DEF RemoteDial
<1>3. CASE Ask
  BY <1>3 DEF Ask
<1>4. CASE Answered
  BY <1>4 DEF Answered, AnswersOK
<1>5. CASE Authenticate
  BY <1>5 DEF Authenticate
<1>6. CASE Bootstrap
  BY <1>6 DEF Bootstrap, WatchOK
<1>7. CASE BuildSession
  BY <1>7 DEF BuildSession, CacheOK
<1>8. CASE StartMonitor
  BY <1>8 DEF StartMonitor, WatchOK
<1>9. CASE AwaitReady
  BY <1>9 DEF AwaitReady, CacheOK
<1>10. CASE Announce
  BY <1>10 DEF Announce
<1>11. CASE Recv
  BY <1>11, FieldsTyped DEF Recv, Spend, SessionOver, UsedOK
<1>12. CASE CheckContext
  BY <1>12 DEF CheckContext
<1>13. CASE SendOutput
  BY <1>13 DEF SendOutput
<1>14. CASE RemoteFailed
  BY <1>14 DEF RemoteFailed
<1>15. CASE Leave
  BY <1>15 DEF Leave, CloseConn
<1>16. CASE SignalClose
  BY <1>16 DEF SignalClose
<1>17. CASE RemoteDone
  BY <1>17 DEF RemoteDone, CacheOK, cacheVars
<1> QED
  BY <1>1, <1>2, <1>3, <1>4, <1>5, <1>6, <1>7, <1>8, <1>9, <1>10, <1>11, <1>12, <1>13, <1>14,
     <1>15, <1>16, <1>17 DEF Remote

\* The watching goroutines and the mosh-server.
Watching == MonitorExited \/ MonitorFails \/ Watch \/ WatchCloses \/ ServerExits

LEMMA WatchTyped == Typed /\ Watching => Typed'
<1> SUFFICES ASSUME Typed, Watching PROVE Typed'
  OBVIOUS
<1>1. /\ UNCHANGED Untouched /\ udp' \in {udp, "closed"} /\ ctx' \in {ctx, TRUE}
      /\ mon' \in {mon, "exited", "failed"} /\ watch' \in {watch, "closing", "done"}
      /\ server' \in {server, "gone"}
  BY DEF Watching, MonitorExited, MonitorFails, Watch, WatchCloses, ServerExits, CloseSession
<1>2. ClientOK' /\ WireOK' /\ HandlerOK' /\ SlotOK' /\ AnswersOK' /\ UsedOK'
  BY <1>1, Frame DEF Untouched
<1>3. UNCHANGED <<cacheVars, rem, ssh>>
  BY <1>1 DEF Untouched
<1>4. CacheOK'
  BY <1>1, <1>3 DEF Typed, CacheOK, cacheVars
<1>5. RemoteOK'
  BY <1>1, <1>3 DEF Typed, RemoteOK
<1>6. WatchOK'
  BY <1>1 DEF Typed, WatchOK
<1> QED BY <1>2, <1>4, <1>5, <1>6 DEF Typed

LEMMA TypesKept == Typed /\ [Next]_vars => Typed'
<1> SUFFICES ASSUME Typed, [Next]_vars PROVE Typed'
  OBVIOUS
<1>1. CASE UNCHANGED vars
  BY <1>1, Frame DEF Typed, vars
<1> QED BY <1>1, UserTyped, ClientTyped, HandlerTyped, RemoteTyped, WatchTyped DEF Next, Watching

\* Both ends, the wire and the goroutines hold only values the code can give them.
THEOREM TypeCorrect == Spec => []TypeOK
<1>1. Spec => []Typed
  BY InitTyped, TypesKept, PTL DEF Spec
<1> QED BY <1>1, TypedIsTypeOK, PTL

----------------------------------------------------------------------------
(* What a released slot leaves behind.                                      *)

\* A slot that has been closed and is not being waited for has no goroutine any
\* more; what the goroutine holds is closed before it tells so. A session that was
\* cached or offered exists.
Ended ==
  /\ srv = "closed" /\ h \notin {"closing", "waiting"} => rem = "done"
  /\ ~Booted => rem = "done"
  /\ rem \in {"exit", "signalled", "done"} => ssh # "open" /\ udp # "open"
  /\ cached \/ offered => udp # "none"

LEMMA EndedInit == Init => Ended
BY DEF Init, Ended, Booted

\* The rest of the system does not touch it; udp may only be closed.
LEMMA EndedFrame ==
  Ended /\ UNCHANGED <<srv, h, rem, ssh, cacheVars>> /\ udp' \in {udp, "closed"} => Ended'
BY DEF Ended, Booted, cacheVars

LEMMA EndedHandler == Typed /\ Ended /\ Handler => Ended'
<1> SUFFICES ASSUME Typed, Ended, Handler PROVE Ended'
  OBVIOUS
<1> USE DEF Ended, Booted, remoteVars, handlerVars, cacheVars
<1>1. CASE HandleControl \/ HandleEof
  BY <1>1 DEF HandleControl, HandleEof, Fail
<1>2. CASE HandleTick
  <2>1. srv' = srv /\ h = "loop" /\ h' \in {"loop", "shutdown"}
    BY <1>2 DEF HandleTick, Take, TickSession, TickAnswer, Fail
  <2>2. UNCHANGED <<rem, ssh, udp>>
    BY <1>2 DEF HandleTick
  <2>3. cached' \/ offered' => cached \/ offered
    BY <1>2 DEF HandleTick, TickSession, TickAnswer, Ready
  <2> QED BY <2>1, <2>2, <2>3
<1>3. CASE HandleClose
  BY <1>3 DEF HandleClose, Take
<1>4. CASE MachineClose
  BY <1>4 DEF MachineClose, CloseSession
<1>5. CASE CloseWait
  BY <1>5 DEF CloseWait, RemoteEnded
<1>6. CASE SendCompleted
  BY <1>6 DEF SendCompleted
<1>7. CASE HandleCompleted
  BY <1>7 DEF HandleCompleted, Take
<1>8. CASE Shutdown
  BY <1>8 DEF Shutdown, Gone, Typed, SlotOK
<1>9. CASE HandleAnew
  BY <1>9 DEF HandleAnew, Fail
<1> QED BY <1>1, <1>2, <1>3, <1>4, <1>5, <1>6, <1>7, <1>8, <1>9 DEF Handler

LEMMA EndedRemote == Typed /\ Ended /\ Remote => Ended'
<1> SUFFICES ASSUME Typed, Ended, Remote PROVE Ended'
  OBVIOUS
<1>0. srv' = srv /\ h' = h
  BY DEF Remote, Rest, handlerVars, RemoteHookOutput, RemoteDial, Ask, Answered, Authenticate, Bootstrap,
         BuildSession, StartMonitor, AwaitReady, Announce, Recv, CheckContext, SendOutput, RemoteFailed,
         Leave, SignalClose, RemoteDone
\* The goroutine moves on and ends once.
<1> USE <1>0 DEF Ended, Booted, Step, remoteVars, cacheVars, Typed, RemoteOK
<1>1. CASE RemoteHookOutput \/ RemoteDial \/ Ask
  BY <1>1 DEF RemoteHookOutput, RemoteDial, Ask
<1>2. CASE Answered \/ Authenticate \/ Bootstrap
  BY <1>2 DEF Answered, Authenticate, Bootstrap
<1>3. CASE BuildSession \/ StartMonitor \/ AwaitReady
  BY <1>3 DEF BuildSession, StartMonitor, AwaitReady
<1>4. CASE Announce \/ Recv \/ CheckContext
  BY <1>4 DEF Announce, Recv, SessionOver, CheckContext
<1>5. CASE SendOutput \/ RemoteFailed
  BY <1>5 DEF SendOutput, RemoteFailed
<1>6. CASE Leave
  BY <1>6 DEF Leave, CloseConn
<1>7. CASE SignalClose \/ RemoteDone
  BY <1>7 DEF SignalClose, RemoteDone
<1> QED BY <1>1, <1>2, <1>3, <1>4, <1>5, <1>6, <1>7 DEF Remote

LEMMA EndedKept == Typed /\ Ended /\ [Next]_vars => Ended'
<1> SUFFICES ASSUME Typed, Ended, [Next]_vars PROVE Ended'
  OBVIOUS
<1>1. CASE User \/ ClientTick \/ ClientEof \/ LinkBreak \/ UNCHANGED vars
  <2>1. UNCHANGED <<srv, h, rem, ssh, udp, cacheVars>>
    BY <1>1 DEF User, Answer, UserInput, NextSegment, UserClose, Pause, Resume, ClientTick, ClientThrows,
       ClientEof, LinkBreak, Cleared, Backend,
       handlerVars, remoteVars, vars
  <2> QED BY <2>1, EndedFrame
<1>2. CASE Watching
  BY <1>2, EndedFrame DEF Watching, MonitorExited, MonitorFails, Watch, WatchCloses, ServerExits,
     CloseSession, Untouched, handlerVars
<1> QED BY <1>1, <1>2, EndedHandler, EndedRemote DEF Next, Watching

\* A released slot has neither a goroutine nor a UDP session nor an SSH connection,
\* whoever closed the session: the browser, the watcher, the peer or the broken link.
THEOREM ReleasedIsClean == Spec => []ReleasedLeavesNothing
<1>1. Spec => [](Typed /\ Ended)
  BY InitTyped, TypesKept, EndedInit, EndedKept, PTL DEF Spec
<1>2. Typed /\ Ended => ReleasedLeavesNothing
  BY DEF Ended, Booted, ReleasedLeavesNothing
<1> QED BY <1>1, <1>2, PTL

----------------------------------------------------------------------------
(* The host key check.                                                      *)

Sent(q, f) == \E i \in 1 .. Len(q) : q[i] = f

\* From the answer to the end, the wait for the credential included.
WithConfirmation ==
  rem \in {"auth", "askCred", "credWait", "bootstrap", "session"} \/ udp # "none" => verdict = "yes"

\* The key is shown once: on its way, then in the prompt, then answered; the
\* answer under way or passed on is the user's.
HostChecked ==
  /\ rem \in {"hooks", "dialing", "hostkey"} =>
       verdict = "none" /\ prompt # "fingerprint" /\ ~Sent(s2c, "fingerprint")
  /\ prompt = "fingerprint" => verdict = "none" /\ ~Sent(s2c, "fingerprint")
  /\ Sent(s2c, "fingerprint") => verdict = "none"
  /\ \A i, j \in 1 .. Len(s2c) : s2c[i] = "fingerprint" /\ s2c[j] = "fingerprint" => i = j
  /\ Sent(c2s, "fpYes") \/ fp = "yes" => verdict = "yes"
  /\ WithConfirmation

LEMMA SentAppend ==
  ASSUME NEW S, NEW q \in Seq(S), NEW f, NEW g, Sent(Append(q, f), g)
  PROVE  Sent(q, g) \/ f = g
BY DEF Sent

LEMMA SentTail ==
  ASSUME NEW S, NEW q \in Seq(S), q # <<>>, NEW g
  PROVE  Sent(Tail(q), g) => Sent(q, g)
BY DEF Sent

\* What the close of a stream adds holds no answer.
LEMMA SentClosing ==
  ASSUME NEW q \in Seq(ClientFrames), NEW r \in Seq(ClientFrames),
         \A i \in 1 .. Len(r) : r[i] # "fpYes", Sent(q \o r, "fpYes")
  PROVE  Sent(q, "fpYes")
<1>1. PICK i \in 1 .. Len(q \o r) : (q \o r)[i] = "fpYes"
  BY DEF Sent
<1>2. /\ Len(q) \in Nat /\ Len(q \o r) = Len(q) + Len(r)
      /\ \A k \in 1 .. Len(q) : (q \o r)[k] = q[k]
      /\ \A k \in 1 .. Len(q \o r) :
           k \notin 1 .. Len(q) => (q \o r)[k] = r[k - Len(q)] /\ k - Len(q) \in 1 .. Len(r)
  OBVIOUS
<1> QED BY <1>1, <1>2 DEF Sent

\* What is at the head has been sent; what was there once is not there a second time.
LEMMA SentHead ==
  ASSUME NEW S, NEW q \in Seq(S), q # <<>>
  PROVE  /\ Sent(q, Head(q))
         /\ \A g : (\A i, j \in 1 .. Len(q) : q[i] = g /\ q[j] = g => i = j) =>
              /\ \A i, j \in 1 .. Len(Tail(q)) : Tail(q)[i] = g /\ Tail(q)[j] = g => i = j
              /\ Head(q) = g => ~Sent(Tail(q), g)
BY DEF Sent

\* Frames behind the queue that are not answers.
LEMMA NoAnswerAdded ==
  ASSUME Typed, NEW f, f # "fpYes", c2s' = Append(c2s, f)
  PROVE  Sent(c2s', "fpYes") => Sent(c2s, "fpYes")
<1>1. c2s \in Seq(ClientFrames)
  BY DEF Typed, WireOK
<1> QED BY <1>1, SentAppend

LEMMA CheckedInit == Init => HostChecked
BY DEF Init, HostChecked, Sent, WithConfirmation

\* The rest of the system does not touch it; udp may only be closed.
LEMMA CheckedFrame ==
  HostChecked /\ UNCHANGED <<rem, verdict, prompt, s2c, c2s, fp>> /\ (udp' # "none" => udp # "none")
    => HostChecked'
BY DEF HostChecked, Sent, WithConfirmation

\* Frames other than an answer to the prompt may be sent at any time.
LEMMA CheckedSend ==
  ASSUME Typed, HostChecked, UNCHANGED <<rem, verdict, prompt, s2c, fp, udp>>,
         NEW f, f # "fpYes", Send(f)
  PROVE  HostChecked'
<1>1. Sent(c2s', "fpYes") => Sent(c2s, "fpYes")
  BY NoAnswerAdded DEF Send
<1> QED BY <1>1 DEF HostChecked, Sent, WithConfirmation

\* What the Handler takes is passed on or dropped.
LEMMA CheckedTake ==
  ASSUME Typed, HostChecked, UNCHANGED <<rem, verdict, prompt, s2c, udp>>,
         c2s # <<>>, c2s' = Tail(c2s), fp' = fp \/ (fp' = "yes" => Head(c2s) = "fpYes")
  PROVE  HostChecked'
<1>1. c2s \in Seq(ClientFrames)
  BY DEF Typed, WireOK
<1>2. Sent(c2s', "fpYes") => Sent(c2s, "fpYes")
  BY <1>1, SentTail
<1>3. Sent(c2s, Head(c2s))
  BY <1>1, SentHead
<1>4. Sent(c2s', "fpYes") \/ fp' = "yes" => verdict' = "yes"
  BY <1>2, <1>3 DEF HostChecked
<1> QED BY <1>4 DEF HostChecked, Sent, WithConfirmation

\* A frame of the goroutine, which may be the question while it has not been asked.
LEMMA CheckedWrite ==
  ASSUME Typed, HostChecked, UNCHANGED <<verdict, prompt, c2s>>,
         NEW f, Put(f), f = "fingerprint" => rem = "hostkey" /\ rem' \in {"fpWait", "failed"},
         fp' = fp, WithConfirmation',
         rem' \in {"hooks", "dialing", "hostkey"} => rem \in {"hooks", "dialing", "hostkey"}
  PROVE  HostChecked'
<1>1. s2c \in Seq(ServerFrames)
  BY DEF Typed, WireOK
<1>2. CASE ~link
  BY <1>2 DEF Put, HostChecked, Sent
<1>3. CASE link
  <2>1. s2c' = Append(s2c, f)
    BY <1>3 DEF Put
  <2>2. Sent(s2c', "fingerprint") => Sent(s2c, "fingerprint") \/ f = "fingerprint"
    BY <1>1, <2>1, SentAppend
  <2>3. \A i, j \in 1 .. Len(s2c') : s2c'[i] = "fingerprint" /\ s2c'[j] = "fingerprint" => i = j
    BY <1>1, <2>1 DEF HostChecked, Sent
  <2>4. Sent(c2s', "fpYes") \/ fp' = "yes" => verdict' = "yes"
    BY DEF HostChecked, Sent
  <2> QED BY <2>2, <2>3, <2>4 DEF HostChecked
<1> QED BY <1>2, <1>3

LEMMA CheckedUser == Typed /\ HostChecked /\ User => HostChecked'
<1> SUFFICES ASSUME Typed, HostChecked, User PROVE HostChecked'
  OBVIOUS
<1>1. UNCHANGED <<rem, s2c, fp, udp>>
  BY DEF User, Answer, UserInput, NextSegment, UserClose, Pause, Resume, Backend, remoteVars, answerVars
<1>2. CASE Answer /\ prompt = "fingerprint"
  <2>1. verdict = "none" /\ ~Sent(s2c, "fingerprint") /\ ~Sent(c2s, "fpYes") /\ fp # "yes"
    BY <1>2 DEF HostChecked
  <2>2. Sent(c2s', "fpYes") => verdict' = "yes"
    <3>1. CASE c2s' = Append(c2s, "fpYes") /\ verdict' = "yes"
      BY <3>1
    <3>2. CASE c2s' = Append(c2s, "fpNo")
      BY <2>1, <3>2, NoAnswerAdded
    <3> QED BY <1>2, <3>1, <3>2 DEF Answer, Send
  <2>3. ~Sent(s2c', "fingerprint") /\ prompt' = "none"
    BY <1>1, <1>2, <2>1 DEF Answer, Sent
  <2>4. rem \notin {"hooks", "dialing", "hostkey"}
    BY <1>2 DEF HostChecked
  <2>5. WithConfirmation'
    BY <1>1, <2>1 DEF HostChecked, WithConfirmation
  <2> QED BY <1>1, <2>1, <2>2, <2>3, <2>4, <2>5 DEF HostChecked
<1>3. CASE Answer /\ prompt = "credential"
  <2>1. Sent(c2s', "fpYes") => Sent(c2s, "fpYes")
    BY <1>3, NoAnswerAdded DEF Answer, Send
  <2> QED BY <1>1, <1>3, <2>1 DEF Answer, HostChecked, Sent, WithConfirmation
<1>4. CASE UserInput \/ NextSegment \/ UserClose \/ Pause \/ Resume
  BY <1>1, <1>4, CheckedSend DEF UserInput, NextSegment, UserClose, Pause, Resume, clientVars
<1> QED BY <1>2, <1>3, <1>4 DEF User, Answer

LEMMA CheckedClient == Typed /\ HostChecked /\ (ClientTick \/ ClientEof \/ LinkBreak) => HostChecked'
<1> SUFFICES ASSUME Typed, HostChecked, ClientTick \/ ClientEof \/ LinkBreak PROVE HostChecked'
  OBVIOUS
<1>0. UNCHANGED <<rem, fp, udp>>
  BY DEF ClientTick, ClientThrows, ClientEof, LinkBreak, Cleared, Backend, remoteVars, answerVars
<1>q. s2c \in Seq(ServerFrames) /\ c2s \in Seq(ClientFrames)
  BY DEF Typed, WireOK
\* Whatever is lost with the connection, nothing is added.
<1>c. ASSUME Cleared, Sent(c2s', "fpYes") => Sent(c2s, "fpYes"),
             Sent(s2c', "fingerprint") => Sent(s2c, "fingerprint"),
             \A i, j \in 1 .. Len(s2c') : s2c'[i] = "fingerprint" /\ s2c'[j] = "fingerprint" => i = j
      PROVE  HostChecked'
  BY <1>0, <1>c DEF Cleared, HostChecked, WithConfirmation
<1>1. CASE LinkBreak
  <2>1. Sent(c2s', "fpYes") => Sent(c2s, "fpYes")
    <3>1. PICK n \in 0 .. Len(c2s) : c2s' = SubSeq(c2s, 1, n)
      BY <1>1 DEF LinkBreak
    <3> QED BY <1>q, <3>1, PrefixTyped DEF Sent
  <2>2. s2c' = <<>> /\ Cleared
    BY <1>1 DEF LinkBreak
  <2> QED BY <1>c, <2>1, <2>2 DEF Sent
<1>3. CASE ClientEof
  BY <1>c, <1>3 DEF ClientEof, HostChecked, Sent
<1>2. CASE ClientTick
  <2> DEFINE f == Head(s2c)
  <2>q. s2c \in Seq(ServerFrames) /\ c2s \in Seq(ClientFrames) /\ s2c # <<>> /\ s2c' = Tail(s2c)
    BY <1>2 DEF ClientTick, Typed, WireOK
  <2>t. Sent(s2c', "fingerprint") => Sent(s2c, "fingerprint")
    BY <2>q, SentTail
  <2>o. /\ \A i, j \in 1 .. Len(s2c') : s2c'[i] = "fingerprint" /\ s2c'[j] = "fingerprint" => i = j
        /\ f = "fingerprint" => ~Sent(s2c', "fingerprint") /\ Sent(s2c, "fingerprint")
    BY <2>q, SentHead DEF HostChecked
  <2>d. \/ UNCHANGED <<verdict, prompt, c2s>>
        \/ ClientAsked(f) \/ ClientClosed(f) \/ ClientThrows
    BY <1>2 DEF ClientTick, ClientShows
  <2> HIDE DEF f
  <2>1. CASE UNCHANGED verdict /\ prompt' \in {prompt, "credential"} /\ (Sent(c2s', "fpYes") => Sent(c2s, "fpYes"))
    BY <1>0, <2>t, <2>o, <2>1 DEF HostChecked, WithConfirmation
  <2>2. CASE UNCHANGED <<verdict, prompt, c2s>>
    BY <2>1, <2>2 DEF Sent
  <2>3. CASE ClientAsked(f) /\ f = "credential"
    <3>1. Sent(c2s', "fpYes") => Sent(c2s, "fpYes")
      <4>1. c2s' = c2s \/ c2s' = Append(c2s, "cred")
        BY <2>3 DEF ClientAsked, Send
      <4>2. c2s' = c2s => (Sent(c2s', "fpYes") => Sent(c2s, "fpYes"))
        OBVIOUS
      <4> QED BY <4>1, <4>2, NoAnswerAdded
    <3> QED BY <2>1, <2>3, <3>1 DEF ClientAsked
  <2>4. CASE ClientAsked(f) /\ f = "fingerprint"
    <3>1. verdict = "none" /\ ~Sent(s2c', "fingerprint") /\ rem \notin {"hooks", "dialing", "hostkey"}
      BY <2>o, <2>4 DEF HostChecked
    <3>2. ~Sent(c2s, "fpYes") /\ fp # "yes" /\ prompt # "fingerprint"
      BY <2>o, <2>4, <3>1 DEF HostChecked
    <3>3. \/ verdict' = "yes" /\ UNCHANGED prompt
          \/ prompt' = "fingerprint" /\ UNCHANGED <<c2s, verdict>>
      BY <2>4 DEF ClientAsked
    <3>4. Sent(c2s', "fpYes") => verdict' = "yes"
      BY <3>2, <3>3 DEF Sent
    <3>5. WithConfirmation'
      BY <1>0, <3>1, <3>3 DEF HostChecked, WithConfirmation
    <3> QED BY <1>0, <2>o, <3>1, <3>2, <3>3, <3>4, <3>5 DEF HostChecked
  <2>5. CASE ClientClosed(f)
    <3>1. UNCHANGED <<verdict, prompt>>
      BY <2>5 DEF ClientClosed
    <3>2. c2s' = c2s \/ c2s' = c2s \o <<"completed">> \/ c2s' = c2s \o <<"close", "completed">>
      BY <2>5 DEF ClientClosed
    <3>3. Sent(c2s', "fpYes") => Sent(c2s, "fpYes")
      <4>1. CASE c2s' = c2s
        BY <4>1
      <4>2. CASE c2s' = c2s \o <<"completed">>
        BY <2>q, <4>2 DEF Sent
      <4>3. CASE c2s' = c2s \o <<"close", "completed">>
        <5>0. <<"close", "completed">> \in Seq(ClientFrames)
          BY DEF ClientFrames
        <5>1. PICK r \in Seq(ClientFrames) : r = <<"close", "completed">>
          BY <5>0, Zenon
        <5>2. \A i \in 1 .. Len(r) : r[i] # "fpYes"
          BY <5>1
        <5> QED BY <2>q, <4>3, <5>1, <5>2, SentClosing
      <4> QED BY <3>2, <4>1, <4>2, <4>3
    <3> QED BY <2>1, <3>1, <3>3
  <2>6. CASE ClientThrows
    <3>1. Cleared /\ (c2s' = c2s \o <<"close">> \/ c2s' = c2s \o <<>>)
      BY <2>6 DEF ClientThrows
    <3>2. Sent(c2s', "fpYes") => Sent(c2s, "fpYes")
      <4>1. CASE c2s' = c2s \o <<"close">>
        BY <2>q, <4>1 DEF Sent
      <4>2. CASE c2s' = c2s \o <<>>
        BY <2>q, <4>2 DEF Sent
      <4> QED BY <3>1, <4>1, <4>2
    <3> QED BY <1>c, <2>t, <2>o, <3>1, <3>2
  <2> QED BY <2>d, <2>2, <2>3, <2>4, <2>5, <2>6 DEF ClientAsked
<1> QED BY <1>1, <1>2, <1>3

LEMMA CheckedHandler == Typed /\ Ended /\ HostChecked /\ Handler => HostChecked'
<1> SUFFICES ASSUME Typed, Ended, HostChecked, Handler PROVE HostChecked'
  OBVIOUS
<1>0. UNCHANGED <<rem, verdict, prompt>>
  BY DEF Handler, Outside, HandleControl, HandleTick, HandleAnew, HandleClose, MachineClose, CloseWait,
         SendCompleted, HandleCompleted, HandleEof, Shutdown, clientVars, remoteVars
<1>1. CASE HandleControl \/ HandleClose \/ HandleCompleted
  BY <1>0, <1>1, CheckedTake DEF HandleControl, HandleClose, HandleCompleted, Take, answerVars, remoteVars
<1>2. CASE HandleTick
  <2>1. c2s # <<>> /\ c2s' = Tail(c2s) /\ UNCHANGED <<s2c, udp>>
    BY <1>2 DEF HandleTick, Take, remoteVars
  <2>2. fp' = fp \/ (fp' = "yes" => Head(c2s) = "fpYes")
    BY <1>2 DEF HandleTick, TickSession, TickAnswer, Confirmed, answerVars
  <2> QED BY <1>0, <2>1, <2>2, CheckedTake
<1>3. CASE MachineClose
  <2>1. UNCHANGED <<rem, verdict, prompt, s2c, c2s, fp>> /\ (udp' = udp \/ (cached /\ udp' = "closed"))
    BY <1>0, <1>3 DEF MachineClose, answerVars, CloseSession
  <2>2. udp' # "none" => udp # "none"
    BY <2>1 DEF Ended
  <2> QED BY <2>1, <2>2, CheckedFrame
<1>4. CASE CloseWait \/ HandleEof \/ Shutdown
  BY <1>0, <1>4, CheckedFrame DEF CloseWait, HandleEof, Shutdown, answerVars, remoteVars
<1>5. CASE SendCompleted
  <2>1. UNCHANGED udp
    BY <1>5 DEF SendCompleted, remoteVars
  <2>2. WithConfirmation'
    BY <1>0, <2>1 DEF HostChecked, WithConfirmation
  <2> QED BY <1>0, <1>5, <2>2, CheckedWrite DEF SendCompleted, answerVars
<1>6. CASE HandleAnew
  <2>1. c2s # <<>> /\ c2s' = Tail(c2s) /\ UNCHANGED <<fp, udp>>
    BY <1>6 DEF HandleAnew, Take, answerVars, remoteVars
  <2>2. CASE UNCHANGED s2c
    BY <1>0, <2>1, <2>2, CheckedTake
  \* The goroutine is over, so the key is not asked for any more.
  <2>3. CASE link /\ s2c' = Append(s2c, "started")
    <3>1. s2c \in Seq(ServerFrames) /\ c2s \in Seq(ClientFrames)
      BY DEF Typed, WireOK
    <3>2. Sent(s2c', "fingerprint") => Sent(s2c, "fingerprint")
      BY <2>3, <3>1, SentAppend
    <3>3. \A i, j \in 1 .. Len(s2c') : s2c'[i] = "fingerprint" /\ s2c'[j] = "fingerprint" => i = j
      BY <2>3, <3>1 DEF HostChecked
    <3>4. Sent(c2s', "fpYes") => Sent(c2s, "fpYes")
      BY <2>1, <3>1, SentTail
    <3> QED BY <1>0, <2>1, <3>2, <3>3, <3>4 DEF HostChecked, WithConfirmation
  <2> QED BY <1>6, <2>2, <2>3 DEF HandleAnew, Put
<1> QED BY <1>1, <1>2, <1>3, <1>4, <1>5, <1>6 DEF Handler

LEMMA CheckedRemote == Typed /\ HostChecked /\ Remote => HostChecked'
<1> SUFFICES ASSUME Typed, HostChecked, Remote PROVE HostChecked'
  OBVIOUS
<1>0. UNCHANGED <<verdict, prompt, c2s>>
  BY DEF Remote, Rest, clientVars, RemoteHookOutput, RemoteDial, Ask, Answered, Authenticate, Bootstrap,
         BuildSession, StartMonitor, AwaitReady, Announce, Recv, CheckContext, SendOutput, RemoteFailed,
         Leave, SignalClose, RemoteDone
\* The goroutine goes on from a confirmed key, and from there only.
<1>1. WithConfirmation' /\ (rem' \in {"hooks", "dialing", "hostkey"} => rem \in {"hooks", "dialing", "hostkey"})
  <2> USE <1>0 DEF HostChecked, WithConfirmation, Step, remoteVars
  <2>1. CASE RemoteHookOutput \/ RemoteDial \/ Ask
    BY <2>1 DEF RemoteHookOutput, RemoteDial, Ask
  <2>2. CASE Answered \/ Authenticate \/ Bootstrap
    BY <2>2 DEF Answered, Authenticate, Bootstrap
  <2>3. CASE BuildSession \/ StartMonitor \/ AwaitReady
    BY <2>3 DEF BuildSession, StartMonitor, AwaitReady
  <2>4. CASE Announce \/ Recv \/ CheckContext
    BY <2>4 DEF Announce, Recv, SessionOver, CheckContext
  <2>5. CASE SendOutput \/ RemoteFailed \/ Leave \/ SignalClose \/ RemoteDone
    BY <2>5 DEF SendOutput, RemoteFailed, Leave, SignalClose, RemoteDone
  <2> QED BY <2>1, <2>2, <2>3, <2>4, <2>5 DEF Remote
\* Steps that write nothing; an answer is used up.
<1>2. CASE UNCHANGED s2c /\ (fp' = fp \/ fp' = "none")
  <2>1. fp' = "yes" => fp = "yes"
    BY <1>2
  <2> QED BY <1>0, <1>1, <1>2, <2>1 DEF HostChecked, Sent
<1>3. CASE \/ RemoteDial \/ Answered \/ Authenticate \/ Bootstrap \/ BuildSession \/ StartMonitor
           \/ AwaitReady \/ Recv \/ CheckContext \/ Leave \/ RemoteDone
  <2>1. UNCHANGED s2c /\ (fp' = fp \/ fp' = "none")
    BY <1>3 DEF RemoteDial, Answered, Authenticate, Bootstrap, BuildSession, StartMonitor, AwaitReady,
       Recv, CheckContext, Leave, RemoteDone, answerVars
  <2> QED BY <1>2, <2>1
<1>4. CASE \/ RemoteHookOutput \/ (Ask /\ rem # "hostkey") \/ Announce \/ SendOutput \/ RemoteFailed
           \/ SignalClose
  <2>1. \E f \in {"hook", "credential", "failed", "succeed", "stdout", "close"} : Put(f)
    BY <1>4 DEF RemoteHookOutput, Ask, Announce, SendOutput, RemoteFailed, SignalClose, Write
  <2>2. fp' = fp
    BY <1>4 DEF RemoteHookOutput, Ask, Announce, SendOutput, RemoteFailed, SignalClose, answerVars
  <2> QED BY <1>0, <1>1, <2>1, <2>2, CheckedWrite
<1>5. CASE Ask /\ rem = "hostkey"
  <2>1. Put("fingerprint") /\ rem' \in {"fpWait", "failed"} /\ fp' = fp
    BY <1>5 DEF Ask, Write, answerVars
  <2> QED BY <1>0, <1>1, <1>5, <2>1, CheckedWrite
<1> QED BY <1>3, <1>4, <1>5 DEF Remote

LEMMA CheckedKept == Typed /\ Ended /\ HostChecked /\ [Next]_vars => HostChecked'
<1> SUFFICES ASSUME Typed, Ended, HostChecked, [Next]_vars PROVE HostChecked'
  OBVIOUS
<1>1. CASE Watching
  <2>1. UNCHANGED <<rem, verdict, prompt, s2c, c2s, fp>> /\ (udp' = udp \/ (cached /\ udp' = "closed"))
    BY <1>1 DEF Watching, MonitorExited, MonitorFails, Watch, WatchCloses, ServerExits, CloseSession,
       Untouched, clientVars, wireVars, answerVars
  <2>2. udp' # "none" => udp # "none"
    BY <2>1 DEF Ended
  <2> QED BY <2>1, <2>2, CheckedFrame
<1>2. CASE UNCHANGED vars
  BY <1>2, CheckedFrame DEF vars, clientVars, wireVars, answerVars, remoteVars
<1> QED BY <1>1, <1>2, CheckedUser, CheckedClient, CheckedHandler, CheckedRemote DEF Next, Watching

\* No authentication, no mosh-server and no session before the user or the preset has
\* confirmed the host's key.
THEOREM HostsAreConfirmed == Spec => []OnlyConfirmedHosts
<1>1. Spec => [](Typed /\ Ended /\ HostChecked)
  BY InitTyped, TypesKept, EndedInit, EndedKept, CheckedInit, CheckedKept, PTL DEF Spec
<1>2. HostChecked => OnlyConfirmedHosts
  BY DEF HostChecked, WithConfirmation, OnlyConfirmedHosts
<1> QED BY <1>1, <1>2, PTL

----------------------------------------------------------------------------
(* The order of frames.                                                     *)

Handshake == {"hook", "failed", "fingerprint", "credential", "succeed"}
Output == {"stdout"}

\* A queue of frames the browser accepts one after the other in its state b.
Orderly(q, b) ==
  /\ ~b.active => b.shut /\ Len(q) = 0
  /\ b.shut => \A i \in 1 .. Len(q) : q[i] = "completed"
  /\ b.connected => \A i \in 1 .. Len(q) : q[i] \notin Handshake
  /\ \A i, j \in 1 .. Len(q) : i < j =>
       /\ q[i] = "succeed" => q[j] \notin Handshake
       /\ q[i] = "close" => q[j] = "completed"
       /\ q[i] # "completed"
  /\ \A i \in 1 .. Len(q) : q[i] \in Output =>
       b.connected \/ \E j \in 1 .. Len(q) : j < i /\ q[j] = "succeed"
  /\ \A i \in 1 .. Len(q) : q[i] = "completed" =>
       b.shut \/ \E j \in 1 .. Len(q) : j < i /\ q[j] = "close"

Before == {"hooks", "dialing", "hostkey", "fpWait", "auth", "askCred", "credWait", "bootstrap",
           "session", "monitor", "ready", "announce", "failed"}
Serving == {"recv", "received", "holding"}

\* How far the goroutine and the Handler are tells what they have sent.
Phased ==
  /\ rem \in Before =>
       ~c.connected /\ \A i \in 1 .. Len(s2c) : s2c[i] # "succeed" /\ s2c[i] \notin Output
  /\ rem \in Serving => c.connected \/ Sent(s2c, "succeed")
  /\ rem \notin {"signalled", "done"} => ~c.shut /\ ~Sent(s2c, "close")
  /\ rem \in {"signalled", "done"} => c.shut \/ Sent(s2c, "close")
  /\ srv = "open" \/ h \in {"closing", "waiting", "completed"} =>
       c.active /\ ~Sent(s2c, "completed")

Wired ==
  /\ h \in {"closing", "waiting", "completed"} => srv = "closed"
  /\ link /\ srv # "reused" => Orderly(s2c, c) /\ Phased

LEMMA SentSplit ==
  ASSUME NEW S, NEW q \in Seq(S), q # <<>>, NEW g, Sent(q, g)
  PROVE  Head(q) = g \/ Sent(Tail(q), g)
<1>1. PICK i \in 1 .. Len(q) : q[i] = g
  BY DEF Sent
<1>2. CASE i = 1
  BY <1>1, <1>2
<1>3. CASE i # 1
  <2>1. i - 1 \in 1 .. Len(Tail(q)) /\ Tail(q)[i - 1] = q[i]
    BY <1>1, <1>3
  <2> QED BY <1>1, <2>1 DEF Sent
<1> QED BY <1>2, <1>3

\* The browser accepts the head of an orderly queue.
LEMMA HeadAccepted ==
  ASSUME Typed, s2c # <<>>, Orderly(s2c, c)
  PROVE  Acceptable(Head(s2c))
<1>1. s2c \in Seq(ServerFrames) /\ Len(s2c) > 0 /\ Head(s2c) = s2c[1] /\ s2c[1] \in ServerFrames
  BY DEF Typed, WireOK
<1>2. 1 \in 1 .. Len(s2c) /\ \A j \in 1 .. Len(s2c) : ~(j < 1)
  BY <1>1
<1> QED BY <1>1, <1>2 DEF Orderly, Acceptable, Expected, Handshake, Output, ServerFrames

\* Taking the head leaves an orderly queue for the state the frame leads to.
LEMMA TailOrderly ==
  ASSUME NEW q \in Seq(ServerFrames), q # <<>>, NEW b, NEW d, Orderly(q, b),
         d.active <=> b.active /\ Head(q) # "completed",
         d.shut <=> b.shut \/ Head(q) = "close",
         d.connected <=> b.connected \/ Head(q) = "succeed",
         Head(q) = "completed" => b.shut
  PROVE  Orderly(Tail(q), d)
<1>1. /\ Len(q) \in Nat /\ Len(q) > 0 /\ Head(q) = q[1]
      /\ Len(Tail(q)) = Len(q) - 1
      /\ \A i \in 1 .. Len(Tail(q)) : i + 1 \in 1 .. Len(q) /\ Tail(q)[i] = q[i + 1] /\ 1 < i + 1
  OBVIOUS
<1>2. 1 \in 1 .. Len(q)
  BY <1>1
<1>3. ~d.active => d.shut /\ Len(Tail(q)) = 0
  <2>1. CASE ~b.active
    BY <2>1 DEF Orderly
  <2>2. CASE Head(q) = "completed"
    <3>1. \A j \in 1 .. Len(q) : ~(1 < j)
      BY <1>1, <1>2, <2>2 DEF Orderly
    <3>2. Len(Tail(q)) = 0
      BY <1>1, <3>1
    <3>3. d.shut
      BY <2>2
    <3> QED BY <3>2, <3>3
  <2> QED BY <2>1, <2>2
<1>4. d.shut => \A i \in 1 .. Len(Tail(q)) : Tail(q)[i] = "completed"
  BY <1>1, <1>2 DEF Orderly
<1>5. d.connected => \A i \in 1 .. Len(Tail(q)) : Tail(q)[i] \notin Handshake
  BY <1>1, <1>2 DEF Orderly
<1>6. \A i, j \in 1 .. Len(Tail(q)) : i < j =>
        /\ Tail(q)[i] = "succeed" => Tail(q)[j] \notin Handshake
        /\ Tail(q)[i] = "close" => Tail(q)[j] = "completed"
        /\ Tail(q)[i] # "completed"
  <2> SUFFICES ASSUME NEW i \in 1 .. Len(Tail(q)), NEW j \in 1 .. Len(Tail(q)), i < j
               PROVE  /\ Tail(q)[i] = "succeed" => Tail(q)[j] \notin Handshake
                      /\ Tail(q)[i] = "close" => Tail(q)[j] = "completed"
                      /\ Tail(q)[i] # "completed"
    OBVIOUS
  <2>1. i + 1 < j + 1
    BY <1>1
  <2> QED BY <1>1, <2>1 DEF Orderly
<1>7. \A g, f : (\A i \in 1 .. Len(q) : q[i] = f => \E j \in 1 .. Len(q) : j < i /\ q[j] = g) =>
        \A i \in 1 .. Len(Tail(q)) : Tail(q)[i] = f =>
          Head(q) = g \/ \E j \in 1 .. Len(Tail(q)) : j < i /\ Tail(q)[j] = g
  <2> SUFFICES ASSUME NEW g, NEW f,
                      \A i \in 1 .. Len(q) : q[i] = f => \E j \in 1 .. Len(q) : j < i /\ q[j] = g,
                      NEW i \in 1 .. Len(Tail(q)), Tail(q)[i] = f, Head(q) # g
               PROVE  \E j \in 1 .. Len(Tail(q)) : j < i /\ Tail(q)[j] = g
    OBVIOUS
  <2>1. PICK k \in 1 .. Len(q) : k < i + 1 /\ q[k] = g
    BY <1>1
  <2>2. k # 1
    BY <1>1, <2>1
  <2>3. k - 1 \in 1 .. Len(Tail(q)) /\ k - 1 < i /\ Tail(q)[k - 1] = q[k]
    BY <1>1, <2>1, <2>2
  <2> QED BY <2>1, <2>3
<1>8. \A i \in 1 .. Len(Tail(q)) : Tail(q)[i] \in Output =>
        d.connected \/ \E j \in 1 .. Len(Tail(q)) : j < i /\ Tail(q)[j] = "succeed"
  <2> SUFFICES ASSUME NEW i \in 1 .. Len(Tail(q)), Tail(q)[i] \in Output, ~d.connected
               PROVE  \E j \in 1 .. Len(Tail(q)) : j < i /\ Tail(q)[j] = "succeed"
    OBVIOUS
  <2>1. \A k \in 1 .. Len(q) : q[k] = Tail(q)[i] => \E j \in 1 .. Len(q) : j < k /\ q[j] = "succeed"
    BY DEF Orderly
  <2> QED BY <1>7, <2>1
<1>9. \A i \in 1 .. Len(Tail(q)) : Tail(q)[i] = "completed" =>
        d.shut \/ \E j \in 1 .. Len(Tail(q)) : j < i /\ Tail(q)[j] = "close"
  <2> SUFFICES ASSUME NEW i \in 1 .. Len(Tail(q)), Tail(q)[i] = "completed", ~d.shut
               PROVE  \E j \in 1 .. Len(Tail(q)) : j < i /\ Tail(q)[j] = "close"
    OBVIOUS
  <2>1. \A k \in 1 .. Len(q) : q[k] = "completed" => \E j \in 1 .. Len(q) : j < k /\ q[j] = "close"
    BY DEF Orderly
  <2> QED BY <1>7, <2>1
<1> QED BY <1>3, <1>4, <1>5, <1>6, <1>8, <1>9 DEF Orderly

\* A frame in its phase joins an orderly queue.
LEMMA AppendOrderly ==
  ASSUME NEW q \in Seq(ServerFrames), NEW b, Orderly(q, b), NEW f, b.active,
         ~Sent(q, "completed"),
         f # "completed" => ~b.shut /\ ~Sent(q, "close"),
         f \in Handshake => ~b.connected /\ ~Sent(q, "succeed"),
         f \in Output => b.connected \/ Sent(q, "succeed"),
         f = "completed" => b.shut \/ Sent(q, "close")
  PROVE  Orderly(Append(q, f), b)
<1>1. /\ Len(q) \in Nat /\ Len(Append(q, f)) = Len(q) + 1 /\ Append(q, f)[Len(q) + 1] = f
      /\ \A i \in 1 .. Len(q) : Append(q, f)[i] = q[i] /\ i \in 1 .. Len(Append(q, f))
      /\ \A i \in 1 .. Len(Append(q, f)) : i = Len(q) + 1 \/ i \in 1 .. Len(q)
  OBVIOUS
<1>2. b.shut => \A i \in 1 .. Len(Append(q, f)) : Append(q, f)[i] = "completed"
  BY <1>1 DEF Orderly
<1>3. b.connected => \A i \in 1 .. Len(Append(q, f)) : Append(q, f)[i] \notin Handshake
  BY <1>1 DEF Orderly
<1>4. \A i, j \in 1 .. Len(Append(q, f)) : i < j =>
        /\ Append(q, f)[i] = "succeed" => Append(q, f)[j] \notin Handshake
        /\ Append(q, f)[i] = "close" => Append(q, f)[j] = "completed"
        /\ Append(q, f)[i] # "completed"
  <2> SUFFICES ASSUME NEW i \in 1 .. Len(Append(q, f)), NEW j \in 1 .. Len(Append(q, f)), i < j
               PROVE  /\ Append(q, f)[i] = "succeed" => Append(q, f)[j] \notin Handshake
                      /\ Append(q, f)[i] = "close" => Append(q, f)[j] = "completed"
                      /\ Append(q, f)[i] # "completed"
    OBVIOUS
  <2>1. i \in 1 .. Len(q)
    BY <1>1
  <2>2. CASE j \in 1 .. Len(q)
    BY <1>1, <2>1, <2>2 DEF Orderly
  <2>3. CASE j = Len(q) + 1
    BY <1>1, <2>1, <2>3 DEF Sent
  <2> QED BY <1>1, <2>2, <2>3
<1>5. \A g : Sent(q, g) => \E j \in 1 .. Len(Append(q, f)) : j < Len(q) + 1 /\ Append(q, f)[j] = g
  BY <1>1 DEF Sent
<1>6. \A i \in 1 .. Len(Append(q, f)) : Append(q, f)[i] \in Output =>
        b.connected \/ \E j \in 1 .. Len(Append(q, f)) : j < i /\ Append(q, f)[j] = "succeed"
  <2> SUFFICES ASSUME NEW i \in 1 .. Len(Append(q, f)), Append(q, f)[i] \in Output, ~b.connected
               PROVE  \E j \in 1 .. Len(Append(q, f)) : j < i /\ Append(q, f)[j] = "succeed"
    OBVIOUS
  <2>1. CASE i \in 1 .. Len(q)
    <3>1. PICK j \in 1 .. Len(q) : j < i /\ q[j] = "succeed"
      BY <1>1, <2>1 DEF Orderly
    <3> QED BY <1>1, <3>1
  <2>2. CASE i = Len(q) + 1
    BY <1>1, <1>5, <2>2
  <2> QED BY <1>1, <2>1, <2>2
<1>7. \A i \in 1 .. Len(Append(q, f)) : Append(q, f)[i] = "completed" =>
        b.shut \/ \E j \in 1 .. Len(Append(q, f)) : j < i /\ Append(q, f)[j] = "close"
  <2> SUFFICES ASSUME NEW i \in 1 .. Len(Append(q, f)), Append(q, f)[i] = "completed", ~b.shut
               PROVE  \E j \in 1 .. Len(Append(q, f)) : j < i /\ Append(q, f)[j] = "close"
    OBVIOUS
  <2>1. i = Len(q) + 1
    BY <1>1 DEF Sent
  <2> QED BY <1>1, <1>5, <2>1
<1> QED BY <1>2, <1>3, <1>4, <1>6, <1>7 DEF Orderly

IInv == Typed /\ Ended /\ Wired

LEMMA WiredInit == Init => Wired
BY DEF Init, Wired, Orderly, Phased, Sent, Handshake, Output, Before, Serving

\* Where nothing of it changes, or the browser's own sends only.
LEMMA WiredFrame ==
  ASSUME Wired, UNCHANGED <<link, s2c, rem, srv, h>>, c' = c \/ c' = [c EXCEPT !.sclosed = TRUE], Typed
  PROVE  Wired'
<1>1. c'.active = c.active /\ c'.shut = c.shut /\ c'.connected = c.connected
  BY DEF Typed, ClientOK, ClientTypes
<1> QED BY <1>1 DEF Wired, Orderly, Phased, Sent

LEMMA WiredClient == IInv /\ (ClientTick \/ ClientEof \/ LinkBreak) => Wired'
<1> SUFFICES ASSUME IInv, ClientTick \/ ClientEof \/ LinkBreak PROVE Wired'
  OBVIOUS
<1>0. UNCHANGED <<rem, srv, h>>
  BY DEF ClientTick, ClientThrows, ClientEof, LinkBreak, Cleared, Backend, remoteVars, handlerVars
<1>1. CASE ~link' \/ srv = "reused"
  BY <1>0, <1>1 DEF IInv, Wired
<1>2. CASE link' /\ srv # "reused"
  <2> DEFINE f == Head(s2c)
  <2>1. /\ link /\ Acceptable(f) /\ (ClientShows(f) \/ ClientAsked(f) \/ ClientClosed(f))
        /\ s2c # <<>> /\ s2c' = Tail(s2c)
    BY <1>2 DEF ClientTick, ClientThrows, ClientEof, LinkBreak, Cleared, Live
  <2>2. s2c \in Seq(ServerFrames)
    BY DEF IInv, Typed, WireOK
  <2>3. Orderly(s2c, c) /\ Phased
    BY <1>2, <2>1 DEF IInv, Wired
  <2>4. /\ c'.active <=> c.active /\ f # "completed"
        /\ c'.shut <=> c.shut \/ f = "close"
        /\ c'.connected <=> c.connected \/ f = "succeed"
    <3>0. c \in ClientTypes
      BY DEF IInv, Typed, ClientOK
    <3> HIDE DEF f
    <3>1. CASE ClientShows(f)
      BY <3>0, <3>1 DEF ClientShows, ClientTypes
    <3>2. CASE ClientAsked(f)
      BY <3>0, <3>2 DEF ClientAsked, ClientTypes
    <3>3. CASE ClientClosed(f)
      BY <3>0, <3>3 DEF ClientClosed, ClientTypes
    <3> QED BY <2>1, <3>1, <3>2, <3>3
  <2>5. f = "completed" => c.shut
    BY <2>1 DEF Acceptable
  <2>6. Orderly(s2c', c')
    BY <2>1, <2>2, <2>3, <2>4, <2>5, TailOrderly
  <2>7. \A g : Sent(s2c', g) => Sent(s2c, g)
    BY <2>1, <2>2, SentTail
  <2>8. \A g : Sent(s2c, g) => f = g \/ Sent(s2c', g)
    BY <2>1, <2>2, SentSplit
  <2>9. Sent(s2c, f)
    BY <2>1, <2>2, SentHead
  <2> HIDE DEF f
  <2>10. \A i \in 1 .. Len(s2c') : Sent(s2c, s2c'[i])
    BY <2>7 DEF Sent
  <2>11. rem' \in Before =>
           ~c'.connected /\ \A i \in 1 .. Len(s2c') : s2c'[i] # "succeed" /\ s2c'[i] \notin Output
    BY <1>0, <2>3, <2>4, <2>9, <2>10 DEF Phased, Sent
  <2> QED BY <1>0, <2>3, <2>4, <2>6, <2>7, <2>8, <2>9, <2>11 DEF Phased, Wired, IInv
<1> QED BY <1>1, <1>2

LEMMA WiredHandler == IInv /\ Handler => Wired'
<1> SUFFICES ASSUME IInv, Handler PROVE Wired'
  OBVIOUS
<1>0. UNCHANGED <<c, link, rem>>
  BY DEF Handler, Outside, HandleControl, HandleTick, HandleAnew, HandleClose, MachineClose, CloseWait,
         SendCompleted, HandleCompleted, HandleEof, Shutdown, clientVars, remoteVars
\* Only COMPLETED is written; of the slot and the Handler, what has been claimed of them before.
<1>1. CASE /\ UNCHANGED s2c
           /\ h' \in {"closing", "waiting", "completed"} => srv' = "closed"
           /\ srv' = "open" \/ h' \in {"closing", "waiting", "completed"} =>
                srv = "open" \/ h \in {"closing", "waiting", "completed"}
           /\ srv = "reused" => srv' = "reused"
  BY <1>0, <1>1 DEF IInv, Wired, Phased, Orderly, Sent
<1>2. CASE HandleControl \/ HandleEof
  <2>1. UNCHANGED <<s2c, srv>> /\ (h' = h \/ h' = "shutdown")
    BY <1>2 DEF HandleControl, HandleEof, Fail
  <2> QED BY <1>1, <2>1 DEF IInv, Wired
<1>3. CASE HandleTick
  <2>1. UNCHANGED <<s2c, srv>> /\ h' \in {"loop", "shutdown"}
    BY <1>3 DEF HandleTick, Take, TickSession, TickAnswer, Fail, handlerVars
  <2> QED BY <1>1, <2>1
<1>4. CASE HandleClose \/ HandleCompleted
  <2>1. UNCHANGED s2c /\ h = "loop"
    BY <1>4 DEF HandleClose, HandleCompleted, Take
  <2> QED BY <1>1, <1>4, <2>1 DEF HandleClose, HandleCompleted, handlerVars
<1>5. CASE MachineClose \/ CloseWait
  BY <1>1, <1>5 DEF MachineClose, CloseWait, IInv, Wired
<1>6. CASE Shutdown
  BY <1>1, <1>6 DEF Shutdown, Gone
<1>8. CASE HandleAnew
  <2>1. srv' = "reused" /\ h' \in {"loop", "shutdown"}
    BY <1>8 DEF HandleAnew, Take, Fail, handlerVars
  <2> QED BY <2>1 DEF Wired
<1>7. CASE SendCompleted
  <2>1. h' = "loop" /\ srv' = "closed" /\ rem = "done" /\ Put("completed")
    BY <1>7 DEF SendCompleted, IInv, Wired, Ended
  <2>2. CASE ~link
    BY <1>0, <2>1, <2>2 DEF Wired
  <2>3. CASE link
    <3>1. s2c \in Seq(ServerFrames) /\ s2c' = Append(s2c, "completed")
      BY <2>1, <2>3 DEF Put, IInv, Typed, WireOK
    <3>2. Orderly(s2c, c) /\ c.active /\ ~Sent(s2c, "completed") /\ (c.shut \/ Sent(s2c, "close"))
      BY <1>7, <2>1, <2>3 DEF SendCompleted, IInv, Wired, Phased
    <3>3. Orderly(s2c', c')
      BY <1>0, <3>1, <3>2, AppendOrderly DEF Handshake, Output
    <3>4. Sent(s2c, "close") => Sent(s2c', "close")
      BY <3>1 DEF Sent
    <3> QED BY <1>0, <2>1, <3>2, <3>3, <3>4 DEF Wired, Phased, Before, Serving
  <2> QED BY <2>2, <2>3
<1> QED BY <1>2, <1>3, <1>4, <1>5, <1>6, <1>7, <1>8 DEF Handler

\* A step of the goroutine that writes nothing and stays in its phase.
LEMMA WiredQuiet ==
  ASSUME IInv, UNCHANGED <<c, link, srv, h, s2c>>,
         rem' \in Before => rem \in Before,
         rem' \in Serving => rem \in Serving,
         rem' \in {"signalled", "done"} <=> rem \in {"signalled", "done"}
  PROVE  Wired'
BY DEF IInv, Wired, Phased, Orderly, Sent

\* A step that writes f, in the phase f belongs to.
LEMMA WiredWrite ==
  ASSUME IInv, UNCHANGED <<c, link, srv, h>>, NEW f \in ServerFrames \ {"completed", "started"}, Put(f),
         rem \notin {"signalled", "done"},
         rem' \in {"signalled", "done"} <=> f = "close",
         f \in Handshake => rem \in Before,
         f \in Output => rem \in Serving,
         link /\ rem' \in Before => rem \in Before /\ f # "succeed" /\ f \notin Output,
         link /\ rem' \in Serving => rem \in Serving \/ f = "succeed"
  PROVE  Wired'
<1>1. CASE ~link \/ srv = "reused"
  BY <1>1 DEF IInv, Wired
<1>2. CASE link /\ srv # "reused"
  <2>1. s2c \in Seq(ServerFrames) /\ s2c' = Append(s2c, f)
    BY <1>2 DEF Put, IInv, Typed, WireOK
  <2>2. Orderly(s2c, c) /\ Phased
    BY <1>2 DEF IInv, Wired
  <2>3. ~c.shut /\ ~Sent(s2c, "close")
    BY <2>2 DEF Phased
  <2>4. c.active /\ ~Sent(s2c, "completed")
    BY <2>2, <2>3 DEF Orderly, Sent
  <2>5. f \in Handshake => ~c.connected /\ ~Sent(s2c, "succeed")
    BY <2>2 DEF Phased, Sent
  <2>6. f \in Output => c.connected \/ Sent(s2c, "succeed")
    BY <2>2 DEF Phased
  <2>7. Orderly(s2c', c')
    BY <2>1, <2>2, <2>3, <2>4, <2>5, <2>6, AppendOrderly
  <2>8. \A g : Sent(s2c', g) <=> Sent(s2c, g) \/ g = f
    BY <2>1 DEF Sent
  <2>9. \A i \in 1 .. Len(s2c') : Sent(s2c, s2c'[i]) \/ s2c'[i] = f
    BY <2>8 DEF Sent
  <2>10. rem' \in Before =>
           ~c'.connected /\ \A i \in 1 .. Len(s2c') : s2c'[i] # "succeed" /\ s2c'[i] \notin Output
    BY <1>2, <2>2, <2>9 DEF Phased, Sent
  <2>11. rem' \in Serving => c'.connected \/ Sent(s2c', "succeed")
    BY <1>2, <2>2, <2>8 DEF Phased
  <2>12. /\ rem' \notin {"signalled", "done"} => ~c'.shut /\ ~Sent(s2c', "close")
         /\ rem' \in {"signalled", "done"} => c'.shut \/ Sent(s2c', "close")
    BY <2>3, <2>8
  <2>13. c'.active /\ ~Sent(s2c', "completed")
    BY <2>4, <2>8
  <2> QED BY <2>7, <2>10, <2>11, <2>12, <2>13 DEF Wired, Phased, IInv
<1> QED BY <1>1, <1>2

LEMMA WiredRemote == IInv /\ Remote => Wired'
<1> SUFFICES ASSUME IInv, Remote PROVE Wired'
  OBVIOUS
<1>0. UNCHANGED <<c, link, srv, h>>
  BY DEF Remote, Rest, clientVars, handlerVars, RemoteHookOutput, RemoteDial, Ask, Answered, Authenticate,
         Bootstrap, BuildSession, StartMonitor, AwaitReady, Announce, Recv, CheckContext, SendOutput,
         RemoteFailed, Leave, SignalClose, RemoteDone
<1> USE DEF Step, Before, Serving
<1>1. CASE RemoteDial \/ Answered \/ Authenticate \/ Bootstrap \/ BuildSession \/ StartMonitor \/ AwaitReady
  BY <1>0, <1>1, WiredQuiet DEF RemoteDial, Answered, Authenticate, Bootstrap, BuildSession, StartMonitor,
     AwaitReady
<1>2. CASE Recv \/ CheckContext \/ Leave \/ RemoteDone
  BY <1>0, <1>2, WiredQuiet DEF Recv, SessionOver, CheckContext, Leave, RemoteDone
<1> USE WiredWrite DEF Write, ServerFrames, Handshake, Output
<1>3. CASE RemoteHookOutput
  BY <1>0, <1>3 DEF RemoteHookOutput, remoteVars
<1>4. CASE Ask
  BY <1>0, <1>4 DEF Ask
<1>5. CASE Announce
  BY <1>0, <1>5 DEF Announce
<1>6. CASE SendOutput
  BY <1>0, <1>6 DEF SendOutput
<1>7. CASE RemoteFailed
  BY <1>0, <1>7 DEF RemoteFailed
<1>8. CASE SignalClose
  BY <1>0, <1>8 DEF SignalClose
<1> QED BY <1>1, <1>2, <1>3, <1>4, <1>5, <1>6, <1>7, <1>8 DEF Remote

LEMMA WiredKept == IInv /\ [Next]_vars => Wired'
<1> SUFFICES ASSUME IInv, [Next]_vars PROVE Wired'
  OBVIOUS
<1>1. CASE User \/ UNCHANGED vars
  <2>1. UNCHANGED <<link, s2c, rem, srv, h>>
    BY <1>1 DEF User, Answer, UserInput, NextSegment, UserClose, Pause, Resume, Backend, vars, wireVars,
       remoteVars, handlerVars
  <2>2. c' = c \/ c' = [c EXCEPT !.sclosed = TRUE]
    BY <1>1 DEF User, Answer, UserInput, NextSegment, UserClose, Pause, Resume, vars, clientVars
  <2> QED BY <2>1, <2>2, WiredFrame DEF IInv
<1>2. CASE Watching
  <2>1. UNCHANGED <<link, s2c, rem, srv, h, c>>
    BY <1>2 DEF Watching, MonitorExited, MonitorFails, Watch, WatchCloses, ServerExits, Untouched,
       clientVars, wireVars, handlerVars
  <2> QED BY <2>1, WiredFrame DEF IInv
<1> QED BY <1>1, <1>2, WiredClient, WiredHandler, WiredRemote DEF Next, Watching

\* Every frame that reaches the browser is one it takes in the state it is then in:
\* none makes Mosh.tick or the stream throw, which would reset all sessions.
THEOREM FramesAreAccepted == Spec => []NoFrameIsRefused
<1>1. Init => IInv
  BY InitTyped, EndedInit, WiredInit DEF IInv
<1>2. IInv /\ [Next]_vars => IInv'
  BY TypesKept, EndedKept, WiredKept DEF IInv
<1>3. IInv => NoFrameIsRefused
  BY HeadAccepted DEF IInv, Wired, NoFrameIsRefused, Live
<1> QED BY <1>1, <1>2, <1>3, PTL DEF Spec

----------------------------------------------------------------------------
(* Why the Handler ends over a frame of the session.                        *)

Ticks == {"stdin", "resize", "fpYes", "fpNo", "cred"}
FpAnswers == {"fpYes", "fpNo"}
Asking == {"hooks", "dialing", "hostkey", "fpWait", "auth", "askCred"}

Has(q, S) == \E i \in 1 .. Len(q) : q[i] \in S
Once(q, S) == \A i, j \in 1 .. Len(q) : q[i] \in S /\ q[j] \in S => i = j
Ordered(q) == \A i, j \in 1 .. Len(q) : i < j /\ q[i] = "close" => q[j] \notin Ticks

\* A question is at one place at a time: under way, in the prompt, or answered.
Single(x, A) ==
  /\ Once(s2c, {x}) /\ Once(c2s, A)
  /\ Has(s2c, {x}) => prompt # x /\ ~Has(c2s, A)
  /\ prompt = x => ~Has(c2s, A)
Pending(x, A) == Has(s2c, {x}) \/ prompt = x \/ Has(c2s, A)

\* Nothing is asked any more, and no answer is under way.
Settled ==
  /\ rem \notin Asking
  /\ ~Pending("fingerprint", FpAnswers) /\ ~Pending("credential", {"cred"})

\* While a question is pending the goroutine waits for its answer; once the browser
\* has closed there is none; only a console has input.
Answerable ==
  /\ h \in {"loop", "closing", "waiting", "completed"}
  /\ Single("fingerprint", FpAnswers) /\ Single("credential", {"cred"})
  /\ Pending("fingerprint", FpAnswers) => rem = "fpWait" /\ "fingerprint" \notin answered /\ fp = "none"
  /\ Pending("credential", {"cred"}) => rem = "credWait" /\ "credential" \notin answered /\ cred = "none"
  /\ rem \in {"hooks", "dialing", "hostkey"} => "fingerprint" \notin answered /\ fp = "none"
  /\ rem \in Asking => "credential" \notin answered /\ cred = "none"
  /\ link /\ c.sclosed => Settled
  /\ Has(c2s, {"close"}) \/ srv # "open" => c.sclosed /\ Settled
  /\ cut => srv # "open"
  /\ link /\ (Has(c2s, {"stdin", "resize"}) \/ segs.left > 0) => c.connected

\* Behind a CLOSE there is input only when a segment was late.
Early == Ordered(c2s) /\ (srv # "open" => ~Has(c2s, Ticks))

\* The watcher has learnt that the mosh-server is gone.
ExitSeen == server = "gone" /\ mon = "exited"

\* The monitor reports an exit once the server is gone, and the watcher acts on that
\* report; both begin after the server.
Watched ==
  /\ mon = "exited" => server = "gone"
  /\ watch = "closing" => mon = "exited"
  /\ rem \in Before \ {"ready", "announce", "failed"} => mon = "none" /\ watch = "none"

\* While the slot is open the context is cancelled, the session closed and the
\* goroutine leaving because the server is gone, or the session was never announced.
Accounted ==
  srv = "open" =>
    /\ ctx => ExitSeen \/ rem = "done"
    /\ udp = "closed" => ExitSeen \/ rem \in {"exit", "signalled", "done"}
    /\ rem \in {"leaving", "exit", "signalled", "done"} =>
         ExitSeen \/ (~c.connected /\ ~Has(s2c, {"succeed"}))

Explained ==
  /\ Watched /\ HandlerErrorsExplained
  /\ herr # "none" => h \in {"shutdown", "closing", "waiting", "done"}
  /\ srv = "reused" => segs.late
  /\ ~link => segs.left = 0 /\ prompt = "none"
  /\ herr = "none" /\ srv # "reused" => Answerable /\ (~segs.late => Early) /\ (link => Accounted)

AllInv == IInv /\ Explained

LEMMA AppendFacts ==
  ASSUME NEW T, NEW q \in Seq(T), NEW f
  PROVE  /\ \A S : Has(Append(q, f), S) <=> Has(q, S) \/ f \in S
         /\ \A S : Once(q, S) /\ (f \in S => ~Has(q, S)) => Once(Append(q, f), S)
         /\ Ordered(q) /\ (f \in Ticks => ~Has(q, {"close"})) => Ordered(Append(q, f))
<1>1. /\ Len(q) \in Nat /\ Len(Append(q, f)) = Len(q) + 1 /\ Append(q, f)[Len(q) + 1] = f
      /\ \A i \in 1 .. Len(q) : Append(q, f)[i] = q[i] /\ i \in 1 .. Len(Append(q, f))
      /\ \A i \in 1 .. Len(Append(q, f)) : i = Len(q) + 1 \/ i \in 1 .. Len(q)
      /\ Len(q) + 1 \in 1 .. Len(Append(q, f))
  OBVIOUS
<1>2. \A S : Has(Append(q, f), S) <=> Has(q, S) \/ f \in S
  BY <1>1 DEF Has
<1>3. \A S : Once(q, S) /\ (f \in S => ~Has(q, S)) => Once(Append(q, f), S)
  BY <1>1 DEF Has, Once
<1>4. Ordered(q) /\ (f \in Ticks => ~Has(q, {"close"})) => Ordered(Append(q, f))
  BY <1>1 DEF Has, Ordered
<1> QED BY <1>2, <1>3, <1>4

LEMMA TailFacts ==
  ASSUME NEW T, NEW q \in Seq(T), q # <<>>
  PROVE  /\ \A S : Has(Tail(q), S) => Has(q, S)
         /\ \A S : Head(q) \in S => Has(q, S)
         /\ \A S : Once(q, S) => Once(Tail(q), S)
         /\ \A S : Once(q, S) /\ Head(q) \in S => ~Has(Tail(q), S)
         /\ Ordered(q) => Ordered(Tail(q))
         /\ Ordered(q) /\ Head(q) = "close" => ~Has(Tail(q), Ticks)
<1>1. /\ Len(q) \in Nat /\ Len(q) > 0 /\ Head(q) = q[1] /\ 1 \in 1 .. Len(q)
      /\ Len(Tail(q)) = Len(q) - 1
      /\ \A i \in 1 .. Len(Tail(q)) : i + 1 \in 1 .. Len(q) /\ Tail(q)[i] = q[i + 1] /\ 1 < i + 1
  OBVIOUS
<1>2. \A S : Has(Tail(q), S) => Has(q, S)
  BY <1>1 DEF Has
<1>3. \A S : Head(q) \in S => Has(q, S)
  BY <1>1 DEF Has
<1>4. \A S : Once(q, S) => Once(Tail(q), S)
  BY <1>1 DEF Once
<1>5. \A S : Once(q, S) /\ Head(q) \in S => ~Has(Tail(q), S)
  BY <1>1 DEF Once, Has
<1>6. Ordered(q) => Ordered(Tail(q))
  BY <1>1 DEF Ordered
<1>7. Ordered(q) /\ Head(q) = "close" => ~Has(Tail(q), Ticks)
  BY <1>1 DEF Ordered, Has
<1> QED BY <1>2, <1>3, <1>4, <1>5, <1>6, <1>7

\* What the stream's close adds to the queue is no input.
LEMMA ClosingFacts ==
  ASSUME NEW q \in Seq(ClientFrames), NEW r \in {<<"completed">>, <<"close", "completed">>}
  PROVE  /\ \A S \in SUBSET Ticks : Has(q \o r, S) <=> Has(q, S)
         /\ \A S \in SUBSET Ticks : Once(q, S) => Once(q \o r, S)
         /\ Ordered(q) => Ordered(q \o r)
<1>1. r \in Seq(ClientFrames) /\ Len(r) \in Nat /\ \A i \in 1 .. Len(r) : r[i] \in {"close", "completed"}
  <2>1. CASE r = <<"completed">>
    BY <2>1 DEF ClientFrames
  <2>2. CASE r = <<"close", "completed">>
    BY <2>2 DEF ClientFrames
  <2> QED BY <2>1, <2>2
<1>2. /\ Len(q) \in Nat /\ Len(q \o r) = Len(q) + Len(r)
      /\ \A i \in 1 .. Len(q) : (q \o r)[i] = q[i] /\ i \in 1 .. Len(q \o r)
      /\ \A i \in 1 .. Len(q \o r) : i \notin 1 .. Len(q) => (q \o r)[i] = r[i - Len(q)] /\ i - Len(q) \in 1 .. Len(r)
  BY <1>1
<1>3. \A i \in 1 .. Len(q \o r) : i \in 1 .. Len(q) \/ (q \o r)[i] \notin Ticks
  BY <1>1, <1>2 DEF Ticks
<1>4. \A S \in SUBSET Ticks : Has(q \o r, S) <=> Has(q, S)
  BY <1>2, <1>3 DEF Has
<1>5. \A S \in SUBSET Ticks : Once(q, S) => Once(q \o r, S)
  BY <1>2, <1>3 DEF Once
<1>6. Ordered(q) => Ordered(q \o r)
  <2> SUFFICES ASSUME Ordered(q), NEW i \in 1 .. Len(q \o r), NEW j \in 1 .. Len(q \o r),
                      i < j, (q \o r)[i] = "close", (q \o r)[j] \in Ticks
               PROVE  FALSE
    BY DEF Ordered
  <2>1. j \in 1 .. Len(q)
    BY <1>3
  <2>2. i \in 1 .. Len(q)
    BY <1>2, <2>1
  <2> QED BY <1>2, <2>1, <2>2 DEF Ordered
<1> QED BY <1>4, <1>5, <1>6

\* What is left of a queue when its end is lost.
LEMMA PrefixFacts ==
  ASSUME NEW T, NEW q \in Seq(T), NEW n \in 0 .. Len(q), NEW p, p = SubSeq(q, 1, n)
  PROVE  /\ \A S : Has(p, S) => Has(q, S)
         /\ \A S : Once(q, S) => Once(p, S)
         /\ Ordered(q) => Ordered(p)
<1>1. Len(p) = n /\ \A i \in 1 .. n : p[i] = q[i] /\ i \in 1 .. Len(q)
  BY PrefixTyped
<1> QED BY <1>1 DEF Has, Once, Ordered

LEMMA ExplainedInit == Init => Explained
BY DEF Init, Explained, Watched, HandlerErrorsExplained, Answerable, Settled, Early, Accounted, Single,
       Pending, Has, Once, Ordered, Asking, FpAnswers, Ticks, Before

\* The watcher's knowledge is never revised.
LEMMA WatchedKept ==
  ASSUME Typed, Watched, [Next]_vars
  PROVE  Watched' /\ (ExitSeen => ExitSeen')
<1> USE DEF Watched, ExitSeen
<1>1. CASE User \/ ClientTick \/ ClientEof \/ LinkBreak \/ Handler \/ UNCHANGED vars
  <2>1. UNCHANGED <<server, mon, watch, rem>>
    BY <1>1 DEF User, Answer, UserInput, NextSegment, UserClose, Pause, Resume, ClientTick, ClientThrows,
       ClientEof, LinkBreak, Cleared, Backend, Handler, HandleControl, HandleTick, HandleAnew, HandleClose, MachineClose, CloseWait, SendCompleted, HandleCompleted,
       HandleEof, Shutdown, vars, remoteVars, watchVars
  <2> QED BY <2>1
<1>2. CASE Watching
  <2>1. UNCHANGED rem
    BY <1>2 DEF Watching, MonitorExited, MonitorFails, Watch, WatchCloses, ServerExits, Untouched
  <2>2. mon' # mon => mon = "running"
    BY <1>2 DEF Watching, MonitorExited, MonitorFails, Watch, WatchCloses, ServerExits
  <2>3. watch' # watch => watch \in {"waiting", "closing"} /\ mon' = mon
    BY <1>2 DEF Watching, MonitorExited, MonitorFails, Watch, WatchCloses, ServerExits
  <2>4. CASE MonitorExited
    BY <2>1, <2>2, <2>4 DEF MonitorExited
  <2>5. CASE MonitorFails
    BY <2>1, <2>2, <2>5 DEF MonitorFails
  <2>6. CASE Watch
    BY <2>1, <2>3, <2>6 DEF Watch, Over
  <2>7. CASE WatchCloses \/ ServerExits
    BY <2>1, <2>3, <2>7 DEF WatchCloses, ServerExits
  <2> QED BY <1>2, <2>4, <2>5, <2>6, <2>7 DEF Watching
<1>3. CASE Remote
  <2> USE DEF Step, Before, watchVars
  <2>1. CASE Bootstrap
    BY <2>1 DEF Bootstrap
  <2>2. CASE StartMonitor
    BY <2>2 DEF StartMonitor
  <2>3. CASE RemoteHookOutput \/ RemoteDial \/ Ask \/ Answered \/ Authenticate \/ BuildSession
    BY <2>3 DEF RemoteHookOutput, RemoteDial, Ask, Answered, Authenticate, BuildSession, remoteVars
  <2>4. CASE AwaitReady \/ Announce \/ Recv \/ CheckContext \/ SendOutput
    BY <2>4 DEF AwaitReady, Announce, Recv, SessionOver, CheckContext, SendOutput
  <2>5. CASE RemoteFailed \/ Leave \/ SignalClose \/ RemoteDone
    BY <2>5 DEF RemoteFailed, Leave, SignalClose, RemoteDone
  <2> QED BY <1>3, <2>1, <2>2, <2>3, <2>4, <2>5 DEF Remote
<1> QED BY <1>1, <1>2, <1>3 DEF Next, Watching

\* Once the Handler is ending, or the slot is another command's, only what has been
\* claimed of the Handler, of late segments and of the watcher matters.
Ending == herr # "none" \/ srv = "reused"

LEMMA ExplainedOver ==
  ASSUME Explained, Ending, UNCHANGED <<h, herr, srv>>, segs.late => segs'.late, link' => link,
         ~link' => segs'.left = 0 /\ prompt' = "none", Watched', ExitSeen => ExitSeen'
  PROVE  Explained'
BY DEF Explained, Ending, HandlerErrorsExplained, ExitSeen

LEMMA ExplainedRunning ==
  ASSUME Explained, ~Ending, Answerable', ~segs'.late => Early', UNCHANGED <<herr, srv>>,
         ~link' => segs'.left = 0 /\ prompt' = "none", Watched', link' => Accounted'
  PROVE  Explained'
BY DEF Explained, Ending, HandlerErrorsExplained

\* The browser's own sends and the rest that the account does not depend on.
LEMMA AccountedFrame ==
  ASSUME Accounted, UNCHANGED <<srv, ctx, udp, rem>>, ExitSeen => ExitSeen',
         c'.connected \/ Has(s2c', {"succeed"}) => c.connected \/ Has(s2c, {"succeed"})
  PROVE  Accounted'
BY DEF Accounted

LEMMA ExplainedUser == AllInv /\ User => Explained'
<1> SUFFICES ASSUME AllInv, User PROVE Explained'
  OBVIOUS
<1>0. /\ link /\ UNCHANGED <<link, s2c, h, herr, rem, fp, cred, answered, cut, srv, ctx, udp, server, mon>>
  BY DEF User, Answer, UserInput, NextSegment, UserClose, Pause, Resume, Live, Backend, handlerVars,
         answerVars, remoteVars, watchVars
<1>t. c2s \in Seq(ClientFrames) /\ segs \in [left : Nat, late : BOOLEAN] /\ c \in ClientTypes
  BY DEF AllInv, IInv, Typed, ClientOK, WireOK
<1>w. Watched' /\ (ExitSeen => ExitSeen')
  BY WatchedKept DEF AllInv, IInv, Explained, Next
<1>s. segs.late => segs'.late
  <2>1. \/ segs' = segs \/ \E n \in 1 .. MaxSegs : segs' = [segs EXCEPT !.left = n - 1]
        \/ segs' = [left |-> segs.left - 1, late |-> segs.late \/ c.sclosed]
    BY DEF User, Answer, UserInput, NextSegment, UserClose, Pause, Resume, clientVars
  <2> QED BY <1>t, <2>1
<1>o. CASE Ending
  BY <1>0, <1>w, <1>s, <1>o, ExplainedOver DEF AllInv
<1>r. CASE ~Ending
  <2>1. Answerable /\ (~segs.late => Early) /\ Accounted /\ Explained
    BY <1>0, <1>r DEF AllInv, Explained, Ending
  <2>2. \A f : c2s' = Append(c2s, f) =>
          /\ \A S : Has(c2s', S) <=> Has(c2s, S) \/ f \in S
          /\ \A S : Once(c2s, S) /\ (f \in S => ~Has(c2s, S)) => Once(c2s', S)
          /\ Ordered(c2s) /\ (f \in Ticks => ~Has(c2s, {"close"})) => Ordered(c2s')
    BY <1>t, AppendFacts
  <2>c. c'.connected = c.connected
    BY <1>t DEF User, Answer, UserInput, NextSegment, UserClose, Pause, Resume, clientVars, ClientTypes
  <2>a. Accounted'
    BY <1>0, <1>w, <2>1, <2>c, AccountedFrame
  <2>g. ASSUME Answerable', ~segs'.late => Early' PROVE Explained'
    BY <1>0, <1>r, <1>w, <2>1, <2>a, <2>g, ExplainedRunning
  <2> USE <1>0, <2>1, <2>2 DEF Send, Answerable, Settled, Early, Single, Pending, FpAnswers, Asking, Ticks
  <2>3. CASE Answer /\ prompt = "fingerprint"
    <3>1. prompt' = "none" /\ UNCHANGED <<c, segs>>
      BY <2>3 DEF Answer
    <3>2. PICK f \in {"fpYes", "fpNo"} : c2s' = Append(c2s, f)
      BY <2>3 DEF Answer
    <3>3. Answerable'
      BY <2>3, <3>1, <3>2
    <3>4. ~segs'.late => Early'
      BY <2>3, <3>1, <3>2
    <3> QED BY <2>g, <3>3, <3>4
  <2>4. CASE Answer /\ prompt = "credential"
    <3>1. prompt' = "none" /\ UNCHANGED segs
      BY <2>4 DEF Answer
    <3>2. ~c.sclosed => srv = "open" /\ ~Has(c2s, {"close"})
      OBVIOUS
    <3>3. rem = "credWait" /\ ~c.sclosed
      BY <2>4
    <3>4. CASE c2s' = Append(c2s, "cred") /\ UNCHANGED c
      <4>1. Answerable'
        BY <2>4, <3>1, <3>3, <3>4
      <4>2. ~segs'.late => Early'
        BY <3>1, <3>2, <3>3, <3>4
      <4> QED BY <2>g, <4>1, <4>2
    <3>5. CASE c2s' = Append(c2s, "close") /\ c' = [c EXCEPT !.sclosed = TRUE]
      <4>0. c'.sclosed /\ c'.connected = c.connected
        BY <1>t, <3>5 DEF ClientTypes
      <4>1. Answerable'
        BY <2>4, <3>1, <3>3, <3>5, <4>0
      <4>2. ~segs'.late => Early'
        BY <3>1, <3>2, <3>3, <3>5
      <4> QED BY <2>g, <4>1, <4>2
    <3> QED BY <2>4, <3>4, <3>5 DEF Answer
  <2>5. CASE UserInput
    <3>1. ~c.sclosed /\ c.connected /\ UNCHANGED <<c, prompt>> /\ segs'.late = segs.late
      <4>1. segs' = segs \/ \E n \in 1 .. MaxSegs : segs' = [segs EXCEPT !.left = n - 1]
        BY <2>5 DEF UserInput
      <4> QED BY <1>t, <2>5, <4>1 DEF UserInput
    <3>2. PICK f \in {"stdin", "resize"} : c2s' = Append(c2s, f)
      BY <2>5 DEF UserInput
    <3>3. Answerable'
      BY <3>1, <3>2
    <3>4. ~segs'.late => Early'
      BY <3>1, <3>2
    <3> QED BY <2>g, <3>3, <3>4
  <2>8. CASE NextSegment
    <3>1. /\ UNCHANGED <<c, prompt>> /\ segs.left > 0 /\ c2s' = Append(c2s, "stdin")
          /\ segs'.late = (segs.late \/ c.sclosed)
      BY <1>t, <2>8 DEF NextSegment
    <3>2. Answerable'
      BY <3>1
    <3>3. ~segs'.late => Early'
      BY <1>t, <3>1
    <3> QED BY <2>g, <3>2, <3>3
  <2>6. CASE UserClose
    \* The console is there only when the session is.
    <3>1. rem \notin Before
      BY <1>r, <2>6 DEF UserClose, Ending, AllInv, IInv, Wired, Phased
    <3>2. rem \notin Asking /\ rem # "credWait"
      BY <3>1 DEF Before
    <3>3. /\ c'.sclosed /\ c'.connected = c.connected /\ ~c.sclosed /\ UNCHANGED <<prompt, segs>>
          /\ c2s' = Append(c2s, "close")
      BY <1>t, <2>6 DEF UserClose, ClientTypes
    <3>4. Answerable'
      BY <3>2, <3>3
    <3>5. ~segs'.late => Early'
      BY <3>3
    <3> QED BY <2>g, <3>4, <3>5
  <2>7. CASE Pause \/ Resume
    <3>1. UNCHANGED <<c, prompt, segs>>
      BY <2>7 DEF Pause, Resume, clientVars
    <3>2. PICK f \in {"pause", "resume"} : c2s' = Append(c2s, f)
      BY <2>7 DEF Pause, Resume
    <3>3. Answerable'
      BY <3>1, <3>2
    <3>4. ~segs'.late => Early'
      BY <3>1, <3>2
    <3> QED BY <2>g, <3>3, <3>4
  <2> QED BY <2>3, <2>4, <2>5, <2>6, <2>7, <2>8 DEF User, Answer
<1> QED BY <1>o, <1>r

LEMMA ExplainedClient == AllInv /\ (ClientTick \/ ClientEof \/ LinkBreak) => Explained'
<1> SUFFICES ASSUME AllInv, ClientTick \/ ClientEof \/ LinkBreak PROVE Explained'
  OBVIOUS
<1>0. link /\ UNCHANGED <<h, herr, rem, fp, cred, answered, cut, srv, ctx, udp, server, mon>>
  BY DEF ClientTick, ClientThrows, ClientEof, LinkBreak, Cleared, Live, Backend, handlerVars, answerVars,
         remoteVars, watchVars
<1>t. /\ c2s \in Seq(ClientFrames) /\ s2c \in Seq(ServerFrames) /\ segs \in [left : Nat, late : BOOLEAN]
      /\ c \in ClientTypes
  BY DEF AllInv, IInv, Typed, ClientOK, WireOK
<1>w. Watched' /\ (ExitSeen => ExitSeen')
  BY WatchedKept DEF AllInv, IInv, Explained, Next
\* Either the connection is over for the browser, or it goes on with the same loop.
<1>s. \/ Cleared /\ segs'.late = segs.late /\ segs'.left = 0 /\ prompt' = "none" /\ c'.sclosed
         /\ ~c'.connected /\ ~link'
      \/ UNCHANGED <<segs, link>>
  <2>1. Cleared \/ UNCHANGED <<segs, link>>
    BY DEF ClientTick, ClientThrows, ClientEof, LinkBreak
  <2> QED BY <1>t, <2>1 DEF Cleared
<1>o. CASE Ending
  BY <1>0, <1>w, <1>s, <1>o, ExplainedOver DEF AllInv, Explained
<1>r. CASE ~Ending
  <2>1. Answerable /\ (~segs.late => Early) /\ Accounted /\ Explained
    BY <1>0, <1>r DEF AllInv, Explained, Ending
  <2>g. ASSUME Answerable', ~segs'.late => Early', link' => Accounted' PROVE Explained'
    BY <1>0, <1>r, <1>s, <1>w, <2>1, <2>g, ExplainedRunning DEF Explained
  <2>2. CASE LinkBreak \/ ClientEof
    <3>1. /\ Cleared /\ (s2c' = s2c \/ s2c' = <<>>)
          /\ c2s' = c2s \/ \E n \in 0 .. Len(c2s) : c2s' = SubSeq(c2s, 1, n)
      BY <2>2 DEF LinkBreak, ClientEof
    <3>2. /\ \A S : Has(c2s', S) => Has(c2s, S)
          /\ \A S : Once(c2s, S) => Once(c2s', S)
          /\ Ordered(c2s) => Ordered(c2s')
      <4>1. CASE c2s' = c2s
        BY <4>1
      <4>2. CASE \E n \in 0 .. Len(c2s) : c2s' = SubSeq(c2s, 1, n)
        BY <1>t, <4>2, PrefixFacts
      <4> QED BY <3>1, <4>1, <4>2
    <3>3. (\A S : Has(s2c', S) => Has(s2c, S)) /\ \A S : Once(s2c, S) => Once(s2c', S)
      BY <3>1 DEF Has, Once
    <3>s. segs'.late = segs.late /\ segs'.left = 0 /\ prompt' = "none" /\ c'.sclosed /\ ~link'
      BY <1>t, <3>1 DEF Cleared
    <3>4. Answerable'
      BY <1>0, <2>1, <3>2, <3>3, <3>s DEF Answerable, Settled, Single, Pending
    <3>5. ~segs'.late => Early'
      BY <1>0, <2>1, <3>2, <3>s DEF Early
    <3> QED BY <2>g, <3>4, <3>5, <3>s
  <2>3. CASE ClientTick
    <3> DEFINE f == Head(s2c)
    <3>1. Live /\ s2c # <<>> /\ s2c' = Tail(s2c)
      BY <2>3 DEF ClientTick
    \* A frame that is refused would end the connection.
    <3>2. Acceptable(f)
      BY <1>r, <3>1, HeadAccepted DEF AllInv, IInv, Wired, Live, Ending
    <3>3. (ClientShows(f) \/ ClientAsked(f) \/ ClientClosed(f)) /\ link' = link /\ UNCHANGED segs
      BY <2>3, <3>1, <3>2 DEF ClientTick
    <3>4. Phased
      BY <1>0, <1>r DEF AllInv, IInv, Wired, Ending
    <3>5. /\ \A S : Has(s2c', S) => Has(s2c, S)
          /\ \A S : f \in S => Has(s2c, S)
          /\ \A S : Once(s2c, S) => Once(s2c', S)
          /\ \A S : Once(s2c, S) /\ f \in S => ~Has(s2c', S)
      BY <1>t, <3>1, TailFacts
    <3>6. \A g : c2s' = Append(c2s, g) =>
            /\ \A S : Has(c2s', S) <=> Has(c2s, S) \/ g \in S
            /\ \A S : Once(c2s, S) /\ (g \in S => ~Has(c2s, S)) => Once(c2s', S)
            /\ Ordered(c2s) /\ (g \in Ticks => ~Has(c2s, {"close"})) => Ordered(c2s')
      BY <1>t, AppendFacts
    <3>s. f = "close" => rem \in {"signalled", "done"}
      BY <1>t, <3>1, <3>4, SentHead DEF Phased
    <3> HIDE DEF f
    \* Of the account only what the browser has been told matters.
    <3>a. ASSUME c'.connected => c.connected \/ f = "succeed" PROVE Accounted'
      <4>1. f = "succeed" => Has(s2c, {"succeed"})
        BY <3>5
      <4>2. Has(s2c', {"succeed"}) => Has(s2c, {"succeed"})
        BY <3>5
      <4> QED BY <1>0, <1>w, <2>1, <3>a, <4>1, <4>2, AccountedFrame
    <3> USE <1>0, <2>1, <3>3, <3>5, <3>6 DEF Send, Answerable, Settled, Early, Single, Pending, FpAnswers, Asking, Ticks
    <3>7. CASE ClientShows(f)
      <4>1. /\ c'.sclosed = c.sclosed /\ (c'.connected => c.connected \/ f = "succeed")
            /\ (c.connected => c'.connected) /\ UNCHANGED <<prompt, c2s>>
        BY <1>t, <3>7 DEF ClientShows, ClientTypes
      <4>2. Answerable'
        BY <4>1
      <4>3. ~segs'.late => Early'
        BY <4>1
      <4> QED BY <2>g, <3>a, <4>1, <4>2, <4>3
    <3>8. CASE ClientAsked(f) /\ f = "fingerprint"
      <4>1. UNCHANGED c /\ \/ UNCHANGED prompt /\ c2s' = Append(c2s, "fpYes")
                           \/ prompt' = "fingerprint" /\ UNCHANGED c2s
        BY <3>8 DEF ClientAsked
      <4>2. Answerable'
        BY <3>8, <4>1
      <4>3. ~segs'.late => Early'
        BY <3>8, <4>1
      <4> QED BY <2>g, <3>a, <4>1, <4>2, <4>3
    <3>9. CASE ClientAsked(f) /\ f = "credential"
      <4>1. UNCHANGED c /\ \/ UNCHANGED prompt /\ c2s' = Append(c2s, "cred")
                           \/ prompt' = "credential" /\ UNCHANGED c2s
        BY <3>9 DEF ClientAsked
      <4>2. Answerable'
        BY <3>9, <4>1
      <4>3. ~segs'.late => Early'
        BY <3>9, <4>1
      <4> QED BY <2>g, <3>a, <4>1, <4>2, <4>3
    <3>10. CASE ClientClosed(f) /\ f = "close"
      \* The goroutine is past everything it asks.
      <4>1. rem \in {"signalled", "done"}
        BY <3>s, <3>10
      <4>2. c'.sclosed /\ c'.connected = c.connected /\ UNCHANGED prompt
        BY <1>t, <3>10 DEF ClientClosed, ClientTypes
      <4>3. PICK r \in {<<"completed">>, <<"close", "completed">>} : c2s' = c2s \o r
        BY <3>10 DEF ClientClosed
      <4>4. /\ Has(c2s', FpAnswers) <=> Has(c2s, FpAnswers)
            /\ Has(c2s', {"cred"}) <=> Has(c2s, {"cred"})
            /\ Has(c2s', {"stdin", "resize"}) <=> Has(c2s, {"stdin", "resize"})
            /\ Has(c2s', Ticks) <=> Has(c2s, Ticks)
            /\ Once(c2s, FpAnswers) => Once(c2s', FpAnswers)
            /\ Once(c2s, {"cred"}) => Once(c2s', {"cred"})
            /\ Ordered(c2s) => Ordered(c2s')
        <5>1. /\ \A S \in SUBSET Ticks : Has(c2s', S) <=> Has(c2s, S)
              /\ \A S \in SUBSET Ticks : Once(c2s, S) => Once(c2s', S)
              /\ Ordered(c2s) => Ordered(c2s')
          BY <1>t, <4>3, ClosingFacts
        <5>2. /\ FpAnswers \in SUBSET Ticks /\ {"cred"} \in SUBSET Ticks
              /\ {"stdin", "resize"} \in SUBSET Ticks /\ Ticks \in SUBSET Ticks
          OBVIOUS
        <5> QED BY <5>1, <5>2
      <4>5. Answerable'
        BY <4>1, <4>2, <4>4
      <4>6. ~segs'.late => Early'
        BY <4>4
      <4> QED BY <2>g, <3>a, <4>2, <4>5, <4>6
    <3>11. CASE ClientClosed(f) /\ f = "completed"
      <4>1. UNCHANGED <<prompt, c2s>> /\ c'.sclosed = c.sclosed /\ c'.connected = c.connected
        BY <1>t, <3>11 DEF ClientClosed, ClientTypes
      <4>2. Answerable'
        BY <4>1
      <4>3. ~segs'.late => Early'
        BY <4>1
      <4> QED BY <2>g, <3>a, <4>1, <4>2, <4>3
    <3> QED BY <3>7, <3>8, <3>9, <3>10, <3>11 DEF ClientAsked, ClientClosed
  <2> QED BY <2>2, <2>3
<1> QED BY <1>o, <1>r

\* The watchers close the session of a server that is gone, and no other.
LEMMA ExplainedWatch == AllInv /\ Watching => Explained'
<1> SUFFICES ASSUME AllInv, Watching PROVE Explained'
  OBVIOUS
<1>0. UNCHANGED <<c, segs, prompt, c2s, s2c, link, h, herr, srv, fp, cred, answered, cut, rem>>
  BY DEF Watching, MonitorExited, MonitorFails, Watch, WatchCloses, ServerExits, Untouched, clientVars,
         wireVars, handlerVars, answerVars
<1>1. Watched' /\ (ExitSeen => ExitSeen')
  BY WatchedKept DEF AllInv, IInv, Explained, Next, Watching
<1>2. (ctx' # ctx \/ udp' # udp) => ExitSeen
  BY DEF Watching, MonitorExited, MonitorFails, Watch, WatchCloses, ServerExits, Over, AllInv, Explained,
         Watched, ExitSeen
<1>3. (Answerable => Answerable') /\ ((~segs.late => Early) => (~segs'.late => Early'))
  BY <1>0 DEF Answerable, Settled, Early, Single, Pending, Has, Once, Ordered
<1>4. Accounted => Accounted'
  BY <1>0, <1>1, <1>2 DEF Accounted, Has
<1>5. CASE Ending
  BY <1>0, <1>1, <1>5, ExplainedOver DEF AllInv, Explained
<1>6. CASE ~Ending
  BY <1>0, <1>1, <1>3, <1>4, <1>6, ExplainedRunning DEF AllInv, Explained, Ending
<1> QED BY <1>5, <1>6

LEMMA ExplainedRemote == AllInv /\ Remote => Explained'
<1> SUFFICES ASSUME AllInv, Remote PROVE Explained'
  OBVIOUS
<1>0. UNCHANGED <<c, segs, prompt, c2s, link, h, herr, srv, answered, cut>>
  BY DEF Remote, Rest, clientVars, handlerVars, answerVars, RemoteHookOutput, RemoteDial, Ask, Answered,
         Authenticate, Bootstrap, BuildSession, StartMonitor, AwaitReady, Announce, Recv, CheckContext,
         SendOutput, RemoteFailed, Leave, SignalClose, RemoteDone
<1>w. Watched' /\ (ExitSeen => ExitSeen')
  BY WatchedKept DEF AllInv, IInv, Explained, Next
<1>1. CASE Ending
  BY <1>0, <1>w, <1>1, ExplainedOver DEF AllInv, Explained
<1>2. CASE ~Ending
  <2>1. /\ Answerable /\ (~segs.late => Early) /\ (link => Accounted /\ Phased)
        /\ Explained /\ s2c \in Seq(ServerFrames)
    BY <1>2 DEF AllInv, Explained, Ending, IInv, Wired, Typed, WireOK
  <2>2. \A f : Put(f) =>
          /\ \A S : Has(s2c', S) => Has(s2c, S) \/ f \in S
          /\ \A S : Once(s2c, S) /\ (f \in S => ~Has(s2c, S)) => Once(s2c', S)
    BY <2>1, AppendFacts DEF Put
  <2>3. UNCHANGED s2c => \A S : (Has(s2c', S) <=> Has(s2c, S)) /\ (Once(s2c, S) => Once(s2c', S))
    OBVIOUS
  <2>4. Answerable'
    <3> USE <1>0, <2>1, <2>2, <2>3 DEF Step, Write, Answerable, Settled, Single, Pending, FpAnswers, Asking, answerVars
    <3>1. CASE RemoteHookOutput \/ RemoteDial
      BY <3>1 DEF RemoteHookOutput, RemoteDial, remoteVars
    <3>2. CASE Ask /\ rem = "hostkey"
      <4>1. /\ Put("fingerprint") /\ UNCHANGED <<fp, cred>> /\ rem' \in {"fpWait", "failed"}
            /\ ~link => s2c' = s2c
            /\ link => rem' = "fpWait"
        BY <3>2 DEF Ask, Put
      <4>2. /\ ~Has(s2c, {"fingerprint"}) /\ prompt # "fingerprint" /\ ~Has(c2s, FpAnswers)
            /\ ~Has(s2c, {"credential"}) /\ prompt # "credential" /\ ~Has(c2s, {"cred"})
            /\ "fingerprint" \notin answered /\ fp = "none" /\ "credential" \notin answered /\ cred = "none"
            /\ ~(link /\ c.sclosed) /\ ~Has(c2s, {"close"}) /\ srv = "open"
        BY <3>2
      <4>3. /\ ~Has(s2c', {"credential"}) /\ Once(s2c', {"fingerprint"}) /\ Once(s2c', {"credential"})
            /\ ~link => ~Has(s2c', {"fingerprint"})
        BY <4>1, <4>2
      <4> HIDE <2>2, <2>3
      <4> QED BY <4>1, <4>2, <4>3
    <3>3. CASE Ask /\ rem = "askCred"
      <4>1. /\ Put("credential") /\ UNCHANGED <<fp, cred>> /\ rem' \in {"credWait", "failed"}
            /\ ~link => s2c' = s2c
            /\ link => rem' = "credWait"
        BY <3>3 DEF Ask, Put
      <4>2. /\ ~Has(s2c, {"fingerprint"}) /\ prompt # "fingerprint" /\ ~Has(c2s, FpAnswers)
            /\ ~Has(s2c, {"credential"}) /\ prompt # "credential" /\ ~Has(c2s, {"cred"})
            /\ "credential" \notin answered /\ cred = "none"
            /\ ~(link /\ c.sclosed) /\ ~Has(c2s, {"close"}) /\ srv = "open"
        BY <3>3
      <4>3. /\ ~Has(s2c', {"fingerprint"}) /\ Once(s2c', {"fingerprint"}) /\ Once(s2c', {"credential"})
            /\ ~link => ~Has(s2c', {"credential"})
        BY <4>1, <4>2
      <4> HIDE <2>2, <2>3
      <4> QED BY <4>1, <4>2, <4>3
    <3>4. CASE Answered
      BY <3>4 DEF Answered
    <3>5. CASE Authenticate
      BY <3>5 DEF Authenticate
    <3>6. CASE Bootstrap \/ BuildSession \/ StartMonitor \/ AwaitReady
      BY <3>6 DEF Bootstrap, BuildSession, StartMonitor, AwaitReady
    <3>7. CASE Announce \/ SendOutput \/ RemoteFailed \/ SignalClose
      BY <3>7 DEF Announce, SendOutput, RemoteFailed, SignalClose
    <3>8. CASE Recv \/ CheckContext \/ Leave \/ RemoteDone
      BY <3>8 DEF Recv, SessionOver, CheckContext, Leave, RemoteDone
    <3> QED BY <3>1, <3>2, <3>3, <3>4, <3>5, <3>6, <3>7, <3>8 DEF Remote, Ask
  <2>5. link /\ rem = "failed" => ~c.connected /\ ~Has(s2c, {"succeed"})
    BY <2>1 DEF Phased, Before, Has
  <2>6. link' => Accounted'
    <3> SUFFICES ASSUME link PROVE Accounted'
      BY <1>0
    <3> USE <1>0, <1>w, <2>1, <2>2, <2>3 DEF Step, Write, Accounted
    <3>1. CASE RemoteHookOutput \/ RemoteDial \/ Ask
      BY <3>1 DEF RemoteHookOutput, RemoteDial, Ask, remoteVars
    <3>2. CASE Answered \/ Authenticate \/ Bootstrap
      BY <3>2 DEF Answered, Authenticate, Bootstrap
    <3>3. CASE BuildSession \/ StartMonitor \/ AwaitReady
      BY <3>3 DEF BuildSession, StartMonitor, AwaitReady
    <3>4. CASE Announce \/ SendOutput
      BY <3>4 DEF Announce, SendOutput
    <3>5. CASE Recv \/ CheckContext
      BY <3>5 DEF Recv, SessionOver, CheckContext
    <3>6. CASE RemoteFailed
      BY <2>5, <3>6 DEF RemoteFailed
    <3>7. CASE Leave
      BY <3>7 DEF Leave
    <3>8. CASE SignalClose \/ RemoteDone
      BY <3>8 DEF SignalClose, RemoteDone
    <3> QED BY <3>1, <3>2, <3>3, <3>4, <3>5, <3>6, <3>7, <3>8 DEF Remote
  <2>7. ~segs'.late => Early'
    BY <1>0, <2>1 DEF Early, Ordered, Has
  <2> QED BY <1>0, <1>2, <1>w, <2>1, <2>4, <2>6, <2>7, ExplainedRunning DEF Explained
<1> QED BY <1>1, <1>2

\* What the Handler takes off the queue.
LEMMA TakeFacts ==
  ASSUME Typed, NEW f, Take(f)
  PROVE  /\ h = "loop" /\ c2s' # c2s /\ c2s # <<>> /\ Head(c2s) = f
         /\ \A S : Has(c2s', S) => Has(c2s, S)
         /\ \A S : f \in S => Has(c2s, S)
         /\ \A S : Once(c2s, S) => Once(c2s', S)
         /\ \A S : Once(c2s, S) /\ f \in S => ~Has(c2s', S)
         /\ Ordered(c2s) => Ordered(c2s')
         /\ Ordered(c2s) /\ f = "close" => ~Has(c2s', Ticks)
<1>1. c2s \in Seq(ClientFrames) /\ c2s # <<>> /\ Head(c2s) = f /\ c2s' = Tail(c2s) /\ h = "loop"
  BY DEF Typed, WireOK, Take
<1>2. Len(c2s') # Len(c2s)
  BY <1>1
<1> QED BY <1>1, <1>2, TailFacts

LEMMA ExplainedHandler == AllInv /\ Handler => Explained'
<1> SUFFICES ASSUME AllInv, Handler PROVE Explained'
  OBVIOUS
<1>0. UNCHANGED <<c, segs, prompt, link, rem, server, mon>>
  BY DEF Handler, Outside, HandleControl, HandleTick, HandleAnew, HandleClose, MachineClose, CloseWait,
         SendCompleted, HandleCompleted, HandleEof, Shutdown, clientVars, remoteVars, watchVars
<1>w. Watched' /\ (ExitSeen => ExitSeen')
  BY WatchedKept DEF AllInv, IInv, Explained, Next
<1>h. Explained /\ Typed /\ Wired /\ (~link => segs.left = 0 /\ prompt = "none")
  BY DEF AllInv, IInv, Explained
\* The Handler is ending: it closes what runs, and meets no other error.
<1>1. CASE herr # "none"
  <2>1. h \in {"shutdown", "closing", "waiting", "done"}
    BY <1>1, <1>h DEF Explained
  <2>2. MachineClose \/ CloseWait \/ Shutdown
    BY <2>1 DEF Handler, HandleControl, HandleTick, HandleAnew, HandleClose, SendCompleted,
       HandleCompleted, HandleEof, Take
  <2>3. /\ UNCHANGED herr /\ h' \in {"shutdown", "closing", "waiting", "done"}
        /\ srv' = "reused" => srv = "reused"
    BY <1>1, <2>1, <2>2 DEF MachineClose, CloseWait, Shutdown, Gone
  <2> QED BY <1>0, <1>1, <1>h, <1>w, <2>3 DEF Explained, HandlerErrorsExplained, ExitSeen
\* The slot is another command's: its requests come of late segments.
<1>2. CASE herr = "none" /\ srv = "reused"
  <2>1. segs.late /\ h \notin {"closing", "waiting", "completed"}
    BY <1>2, <1>h DEF Explained, Wired
  <2>2. srv' = "reused"
    BY <1>2, <2>1 DEF Handler, HandleControl, HandleTick, HandleAnew, HandleClose, MachineClose, CloseWait,
       SendCompleted, HandleCompleted, HandleEof, Shutdown, Gone, handlerVars
  <2>3. herr' = "none" \/ (herr' \in {"eof", "garbage"} /\ h' = "shutdown")
    <3>1. ~HandleTick
      BY <1>2 DEF HandleTick, Booted
    <3>2. HandleAnew \/ HandleEof => herr' = "none" \/ (herr' \in {"eof", "garbage"} /\ h' = "shutdown")
      BY <1>2 DEF HandleAnew, HandleEof, Fail, handlerVars
    <3>3. ~HandleTick /\ ~HandleAnew /\ ~HandleEof => UNCHANGED herr
      BY DEF Handler, HandleControl, HandleClose, MachineClose, CloseWait, SendCompleted, HandleCompleted,
         Shutdown, handlerVars
    <3> QED BY <1>2, <3>1, <3>2, <3>3
  <2> QED BY <1>0, <1>h, <1>w, <2>1, <2>2, <2>3 DEF Explained, HandlerErrorsExplained
<1>3. CASE ~Ending
  <2>1. Answerable /\ (~segs.late => Early) /\ (link => Accounted) /\ s2c \in Seq(ServerFrames)
    BY <1>3, <1>h DEF Explained, Ending, Typed, WireOK
  <2>n. srv # "reused" /\ herr = "none"
    BY <1>3 DEF Ending
  <2>y. link' => Accounted'
    <3>1. link /\ srv' = "open" =>
            srv = "open" /\ UNCHANGED <<ctx, udp>> /\ (Has(s2c', {"succeed"}) => Has(s2c, {"succeed"}))
      <4>1. CASE HandleControl \/ HandleTick \/ HandleAnew \/ HandleClose
        BY <4>1 DEF HandleControl, HandleTick, HandleAnew, HandleClose, CutAnswers, remoteVars
      <4>2. CASE MachineClose \/ CloseWait \/ HandleCompleted
        BY <1>h, <4>2 DEF MachineClose, CloseWait, HandleCompleted, Wired
      <4>3. CASE SendCompleted
        BY <1>h, <4>3 DEF SendCompleted, Wired
      <4>4. CASE HandleEof \/ Shutdown
        BY <4>4, <2>1 DEF HandleEof, Shutdown, Answerable
      <4> QED BY <4>1, <4>2, <4>3, <4>4 DEF Handler
    <3> QED BY <1>0, <1>w, <2>1, <3>1 DEF Accounted
  <2>g. ASSUME Answerable', ~segs.late => Early', UNCHANGED herr, srv' # "reused" PROVE Explained'
    BY <1>0, <1>3, <1>h, <1>w, <2>g, <2>y DEF Explained, Ending, HandlerErrorsExplained
  \* An error of the Handler, explained.
  <2>x. ASSUME h' = "shutdown",
               \/ herr' = "eof"
               \/ herr' = "sendFailed" /\ (link => ExitSeen)
               \/ herr' \in {"machineClosed", "garbage"} /\ segs.late,
               srv' = "reused" => segs.late
        PROVE  Explained'
    BY <1>0, <1>h, <1>w, <2>x DEF Explained, HandlerErrorsExplained, ExitSeen
  <2>a. UNCHANGED <<c2s, srv>> => (~segs.late => Early')
    BY <2>1 DEF Early
  <2>b. UNCHANGED s2c => \A S : (Has(s2c', S) <=> Has(s2c, S)) /\ (Once(s2c, S) => Once(s2c', S))
    OBVIOUS
  <2>c. UNCHANGED c2s => \A S : (Has(c2s', S) <=> Has(c2s, S)) /\ (Once(c2s, S) => Once(c2s', S))
    OBVIOUS
  <2> USE <1>0, <2>1, <2>n, <2>b, <2>c DEF Answerable, Settled, Single, Pending, FpAnswers, Asking,
      answerVars, handlerVars
  <2>2. CASE HandleControl
    <3>1. PICK f \in {"pause", "resume"} : Take(f)
      BY <2>2 DEF HandleControl
    <3>2. UNCHANGED <<s2c, h, herr, srv, fp, cred, answered, cut>>
      BY <2>2 DEF HandleControl
    <3>3. Answerable'
      BY <1>h, <3>1, <3>2, TakeFacts
    <3>4. ~segs.late => Early'
      BY <1>h, <3>1, <3>2, TakeFacts DEF Early
    <3> QED BY <2>g, <3>2, <3>3, <3>4
  <2>3. CASE HandleTick
    <3>1. PICK f \in Ticks : Take(f)
      BY <2>3 DEF HandleTick, Ticks
    <3>2. UNCHANGED <<s2c, srv, ctx, udp>> /\ Head(c2s) = f
      BY <1>h, <2>3, <3>1, TakeFacts DEF HandleTick, remoteVars
    <3>e. ~segs.late => Early'
      BY <1>h, <3>1, <3>2, TakeFacts DEF Early
    <3>c. CASE srv # "open"
      <4>1. Has(c2s, Ticks)
        BY <1>h, <3>1, TakeFacts
      <4>2. segs.late /\ herr' = "machineClosed" /\ h' = "shutdown"
        BY <2>3, <3>c, <4>1 DEF HandleTick, Fail, Early
      <4> QED BY <2>x, <3>2, <4>2
    <3>3. CASE srv = "open" /\ TickSession
      <4>1. f \in {"stdin", "resize"}
        BY <3>2, <3>3 DEF TickSession
      <4>2. link => c.connected
        BY <1>h, <3>1, <4>1, TakeFacts
      <4>3. CASE f = "stdin" /\ Ready /\ udp = "closed"
        <5>1. herr' = "sendFailed" /\ h' = "shutdown"
          BY <3>2, <3>3, <4>3 DEF TickSession, Fail
        <5>2. link => ExitSeen
          BY <3>3, <4>2, <4>3 DEF Accounted
        <5> QED BY <2>x, <3>2, <5>1, <5>2
      <4>4. CASE ~(f = "stdin" /\ Ready /\ udp = "closed")
        <5>1. UNCHANGED <<h, herr, fp, cred, answered, cut>>
          BY <3>2, <3>3, <4>4 DEF TickSession
        <5>2. Answerable'
          BY <1>h, <3>1, <3>2, <3>3, <5>1, TakeFacts
        <5> QED BY <2>g, <3>2, <3>e, <5>1, <5>2
      <4> QED BY <4>3, <4>4
    <3>4. CASE srv = "open" /\ TickAnswer("fingerprint", {"fpYes", "fpNo"})
      <4>1. f \in {"fpYes", "fpNo"}
        BY <3>2, <3>4 DEF TickAnswer
      <4>2. "fingerprint" \notin answered /\ rem = "fpWait"
        BY <1>h, <3>1, <4>1, TakeFacts
      <4>3. UNCHANGED <<h, herr, cut>> /\ answered' = answered \cup {"fingerprint"}
        BY <3>4, <4>2 DEF TickAnswer
      <4>4. cred' = cred
        BY <3>2, <3>4, <4>1, <4>2 DEF TickAnswer
      <4>5. Answerable'
        BY <1>h, <3>1, <3>2, <3>4, <4>1, <4>2, <4>3, <4>4, TakeFacts
      <4> QED BY <2>g, <3>2, <3>e, <4>3, <4>5
    <3>5. CASE srv = "open" /\ TickAnswer("credential", {"cred"})
      <4>1. f = "cred"
        BY <3>2, <3>5 DEF TickAnswer
      <4>2. "credential" \notin answered /\ rem = "credWait"
        BY <1>h, <3>1, <4>1, TakeFacts
      <4>3. UNCHANGED <<h, herr, cut, fp>> /\ answered' = answered \cup {"credential"}
        BY <3>5, <4>2 DEF TickAnswer
      <4>4. Answerable'
        BY <1>h, <3>1, <3>2, <3>5, <4>1, <4>2, <4>3, TakeFacts
      <4> QED BY <2>g, <3>2, <3>e, <4>3, <4>4
    <3> QED BY <2>3, <3>c, <3>3, <3>4, <3>5 DEF HandleTick
  <2>4. CASE HandleAnew
    <3>1. Take("stdin") /\ srv' = "reused" /\ srv # "open"
      BY <2>4 DEF HandleAnew, Booted
    <3>2. Has(c2s, Ticks)
      BY <1>h, <3>1, TakeFacts DEF Ticks
    <3>3. segs.late
      BY <3>1, <3>2 DEF Early
    <3>4. CASE UNCHANGED <<h, herr>>
      BY <1>h, <1>w, <3>1, <3>3, <3>4 DEF Explained, HandlerErrorsExplained
    <3>5. CASE Fail("garbage")
      BY <2>x, <3>1, <3>3, <3>5 DEF Fail
    <3> QED BY <2>4, <3>4, <3>5 DEF HandleAnew
  <2>5. CASE HandleClose
    <3>1. Take("close") /\ UNCHANGED <<s2c, herr, fp, cred>> /\ srv' \notin {"open", "reused"}
          /\ h' \in {"loop", "closing"}
      BY <2>5 DEF HandleClose, Take
    <3>2. c.sclosed /\ Settled /\ (Ordered(c2s) => ~Has(c2s', Ticks) /\ Ordered(c2s'))
      BY <1>h, <3>1, TakeFacts
    <3>3. Answerable'
      BY <1>h, <3>1, <3>2, TakeFacts
    <3>4. ~segs.late => Early'
      BY <3>2 DEF Early
    <3> QED BY <2>g, <3>1, <3>3, <3>4
  <2>6. CASE MachineClose \/ CloseWait
    <3>1. UNCHANGED <<c2s, s2c, herr, srv, answerVars>> /\ h' \in {"waiting", "completed"}
      BY <2>6 DEF MachineClose, CloseWait
    <3>2. Answerable'
      BY <3>1
    <3> QED BY <2>g, <2>a, <3>1, <3>2
  <2>7. CASE SendCompleted
    <3>1. UNCHANGED <<c2s, herr, srv, answerVars>> /\ h' = "loop" /\ Put("completed")
      BY <2>7 DEF SendCompleted
    <3>2. /\ \A S : Has(s2c', S) => Has(s2c, S) \/ "completed" \in S
          /\ \A S : Once(s2c, S) /\ ("completed" \in S => ~Has(s2c, S)) => Once(s2c', S)
      BY <3>1, AppendFacts DEF Put
    <3>3. Answerable'
      BY <3>1, <3>2
    <3> QED BY <2>g, <2>a, <3>1, <3>3
  <2>8. CASE HandleCompleted
    <3>1. Take("completed") /\ UNCHANGED <<s2c, h, herr, answerVars>> /\ srv # "open"
          /\ srv' \notin {"open", "reused"}
      BY <2>8 DEF HandleCompleted
    <3>2. Answerable'
      BY <1>h, <3>1, TakeFacts
    <3>3. ~segs.late => Early'
      BY <1>h, <3>1, TakeFacts DEF Early
    <3> QED BY <2>g, <3>1, <3>2, <3>3
  <2>9. CASE HandleEof
    BY <2>x, <2>9 DEF HandleEof, Fail
  <2>10. ~Shutdown
    BY DEF Shutdown
  <2> QED BY <2>2, <2>3, <2>4, <2>5, <2>6, <2>7, <2>8, <2>9, <2>10 DEF Handler
<1> QED BY <1>1, <1>2, <1>3 DEF Ending

LEMMA AllKept == AllInv /\ [Next]_vars => AllInv'
<1> SUFFICES ASSUME AllInv, [Next]_vars PROVE AllInv'
  OBVIOUS
<1>1. IInv'
  BY TypesKept, EndedKept, WiredKept DEF AllInv, IInv
<1>2. CASE UNCHANGED vars
  <2>1. UNCHANGED <<c, segs, prompt, c2s, s2c, link, h, herr, srv, fp, cred, answered, cut, ctx, rem, udp, mon, watch, server>>
    BY <1>2 DEF vars, clientVars, wireVars, handlerVars, answerVars, remoteVars, watchVars
  <2>2. Explained
    BY DEF AllInv
  <2>3. /\ Answerable => Answerable'
        /\ Early => Early'
        /\ Accounted => Accounted'
        /\ Watched => Watched'
        /\ HandlerErrorsExplained => HandlerErrorsExplained'
    BY <2>1 DEF Watched, HandlerErrorsExplained, Answerable, Settled, Early, Accounted, ExitSeen, Single,
       Pending, Has, Once, Ordered
  <2> QED BY <1>1, <2>1, <2>2, <2>3 DEF Explained, AllInv
<1> QED
  BY <1>1, <1>2, ExplainedUser, ExplainedClient, ExplainedHandler, ExplainedRemote, ExplainedWatch
     DEF Next, Watching, AllInv

\* While the socket stands Handle ends over a frame of this session, and with it every
\* other session, only when the frame is input to a session the watcher has closed
\* because its mosh-server is gone, or a segment that sendData sent after the close: no
\* order of answers, prompts, closes and failures leads there.
THEOREM ErrorsAreExplained == Spec => []HandlerErrorsExplained
<1>1. Init => AllInv
  BY InitTyped, EndedInit, WiredInit, ExplainedInit DEF AllInv, IInv
<1>2. AllInv => HandlerErrorsExplained
  BY DEF AllInv, Explained
<1> QED BY <1>1, <1>2, AllKept, PTL DEF Spec
===============================================================================
