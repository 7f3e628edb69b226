--------------------------- MODULE SshSessionProofs ---------------------------
(***************************************************************************)
(* Proofs about SshSession, for every bound and every size of the channel  *)
(* windows: types, what a released slot leaves behind, the host key check, *)
(* the order of frames the browser receives, the errors of the Handler;    *)
(* and about the read deadline of the handshake.                           *)
(***************************************************************************)
EXTENDS SshSession, SshReadDeadline, TLAPS

----------------------------------------------------------------------------
(* Types, one group of variables at a time.                                 *)

ClientOK ==
  /\ c \in [active : BOOLEAN, connected : BOOLEAN, sclosed : BOOLEAN, shut : BOOLEAN]
  /\ prompt \in {"none", "fingerprint", "credential"} /\ verdict \in {"none", "yes", "no"}
  /\ segs \in [left : Nat, late : BOOLEAN]
  /\ broken \in BOOLEAN
WireOK == link \in BOOLEAN /\ c2s \in Seq(ClientFrames) /\ s2c \in Seq(ServerFrames)
HandlerOK ==
  /\ h \in {"loop", "writing", "refused", "machineClose", "closeWait", "completed",
            "shutdown", "shutdownClose", "shutdownWait", "done"}
  /\ senderPaused \in BOOLEAN /\ needWait \in BOOLEAN
  /\ herr \in {"none", "eof", "machineClosed", "noRemote", "fpTwice", "credTwice", "garbage"}
AnswersOK ==
  /\ fp \in {"none", "yes", "no"} /\ cred \in {"none", "sent"}
  /\ fpDone \in BOOLEAN /\ credDone \in BOOLEAN /\ cut \in BOOLEAN
RemoteOK ==
  /\ rem \in RemoteStates /\ errp \in {"none", "reading", "holding", "done"}
  /\ conn \in {"none", "queued", "taken"} /\ tcp \in {"none", "open", "closed"}
PeerOK ==
  /\ peer \in {"up", "eof", "gone"}
  /\ stdin \in 0 .. Window /\ stdout \in 0 .. Window /\ stderr \in 0 .. Window
SlotOK == srv \in {"open", "closed", "released", "reused"}
UsedOK == used \in [out : Nat, input : Nat, pause : Nat]

Typed == ClientOK /\ WireOK /\ HandlerOK /\ AnswersOK /\ RemoteOK /\ PeerOK /\ SlotOK /\ UsedOK

LEMMA TypedIsTypeOK == Typed <=> TypeOK
BY DEF Typed, TypeOK, ClientOK, WireOK, HandlerOK, AnswersOK, RemoteOK, PeerOK, SlotOK, UsedOK

\* A group that does not change keeps its types.
LEMMA Frame ==
  ASSUME Typed
  PROVE  /\ UNCHANGED clientVars => ClientOK'
         /\ UNCHANGED wireVars => WireOK'
         /\ UNCHANGED handlerVars => HandlerOK'
         /\ UNCHANGED answerVars => AnswersOK'
         /\ UNCHANGED remoteVars => RemoteOK'
         /\ UNCHANGED peerVars => PeerOK'
         /\ UNCHANGED srv => SlotOK'
         /\ UNCHANGED used => UsedOK'
<1>1. UNCHANGED clientVars => ClientOK'
  BY DEF Typed, ClientOK, clientVars
<1>2. UNCHANGED wireVars => WireOK'
  BY DEF Typed, WireOK, wireVars
<1>3. UNCHANGED handlerVars => HandlerOK'
  BY DEF Typed, HandlerOK, handlerVars
<1>4. UNCHANGED answerVars => AnswersOK'
  BY DEF Typed, AnswersOK, answerVars
<1>5. UNCHANGED remoteVars => RemoteOK'
  BY DEF Typed, RemoteOK, remoteVars
<1>6. UNCHANGED peerVars => PeerOK'
  BY DEF Typed, PeerOK, peerVars
<1>7. (UNCHANGED srv => SlotOK') /\ (UNCHANGED used => UsedOK')
  BY DEF Typed, SlotOK, UsedOK
<1> QED BY <1>1, <1>2, <1>3, <1>4, <1>5, <1>6, <1>7

LEMMA InitTyped == Init => Typed
<1> SUFFICES ASSUME Init PROVE Typed
  OBVIOUS
<1>1. WireOK
  BY DEF Init, WireOK, ServerFrames
<1>2. PeerOK
  BY SshBoundsAssumption DEF Init, PeerOK, SshBoundsAssumption
<1> QED BY <1>1, <1>2 DEF Init, Typed, ClientOK, HandlerOK, AnswersOK, RemoteOK, SlotOK, UsedOK, RemoteStates

\* Frames join and leave the queues.
LEMMA EmptyTyped == <<>> \in Seq(ClientFrames) /\ <<>> \in Seq(ServerFrames)
OBVIOUS

LEMMA QueuesTyped ==
  ASSUME Typed
  PROVE  /\ \A f \in ClientFrames : Append(c2s, f) \in Seq(ClientFrames)
         /\ \A f \in ServerFrames : Append(s2c, f) \in Seq(ServerFrames)
         /\ c2s # <<>> => Tail(c2s) \in Seq(ClientFrames)
         /\ s2c # <<>> => Tail(s2c) \in Seq(ServerFrames)
BY DEF Typed, WireOK

\* Updates of one field, which the actions make by EXCEPT.
LEMMA FieldsTyped ==
  ASSUME Typed
  PROVE  /\ \A b \in BOOLEAN : [c EXCEPT !.connected = b] \in
                [active : BOOLEAN, connected : BOOLEAN, sclosed : BOOLEAN, shut : BOOLEAN]
         /\ \A f \in {[c EXCEPT !.sclosed = TRUE], [c EXCEPT !.shut = TRUE, !.sclosed = TRUE],
                      [c EXCEPT !.active = FALSE]} :
              f \in [active : BOOLEAN, connected : BOOLEAN, sclosed : BOOLEAN, shut : BOOLEAN]
         /\ \A u \in {[used EXCEPT !.out = @ + 1], [used EXCEPT !.input = @ + 1],
                      [used EXCEPT !.pause = @ + 1]} :
              u \in [out : Nat, input : Nat, pause : Nat]
<1>1. c \in [active : BOOLEAN, connected : BOOLEAN, sclosed : BOOLEAN, shut : BOOLEAN]
  BY DEF Typed, ClientOK
<1>2. used \in [out : Nat, input : Nat, pause : Nat]
  BY DEF Typed, UsedOK
<1>3. \A b \in BOOLEAN : [c EXCEPT !.connected = b] \in
         [active : BOOLEAN, connected : BOOLEAN, sclosed : BOOLEAN, shut : BOOLEAN]
  BY <1>1
<1>4. \A f \in {[c EXCEPT !.sclosed = TRUE], [c EXCEPT !.shut = TRUE, !.sclosed = TRUE],
               [c EXCEPT !.active = FALSE]} :
         f \in [active : BOOLEAN, connected : BOOLEAN, sclosed : BOOLEAN, shut : BOOLEAN]
  BY <1>1
<1>5. \A u \in {[used EXCEPT !.out = @ + 1], [used EXCEPT !.input = @ + 1],
               [used EXCEPT !.pause = @ + 1]} :
         u \in [out : Nat, input : Nat, pause : Nat]
  BY <1>2
<1> QED BY <1>3, <1>4, <1>5

\* The loop of sendData, and what the close of a connection leaves of it.
LEMMA SegsTyped ==
  ASSUME Typed
  PROVE  /\ \A n \in 1 .. MaxSegs : [segs EXCEPT !.left = n - 1] \in [left : Nat, late : BOOLEAN]
         /\ [segs EXCEPT !.left = 0] \in [left : Nat, late : BOOLEAN]
         /\ segs.left > 0 =>
              [left |-> segs.left - 1, late |-> segs.late \/ c.sclosed] \in [left : Nat, late : BOOLEAN]
<1>1. segs \in [left : Nat, late : BOOLEAN] /\ c.sclosed \in BOOLEAN
  BY DEF Typed, ClientOK
<1>2. \A n \in 1 .. MaxSegs : n - 1 \in Nat
  BY SshBoundsAssumption DEF SshBoundsAssumption
<1>3. \A n \in Nat : [segs EXCEPT !.left = n] \in [left : Nat, late : BOOLEAN]
  BY <1>1
<1>4. segs.left > 0 => segs.left - 1 \in Nat
  BY <1>1
<1>5. (segs.late \/ c.sclosed) \in BOOLEAN
  BY <1>1
<1> QED BY <1>2, <1>3, <1>4, <1>5

\* The connection is cleared.
LEMMA ClearedTyped ==
  ASSUME Typed, Cleared, broken' \in BOOLEAN
  PROVE  ClientOK'
<1>1. segs' \in [left : Nat, late : BOOLEAN]
  BY SegsTyped DEF Cleared
<1> QED BY <1>1 DEF Cleared, Typed, ClientOK

LEMMA UserTyped == Typed /\ User => Typed'
<1> SUFFICES ASSUME Typed, User PROVE Typed'
  OBVIOUS
<1>q. \A f \in ClientFrames : Send(f) /\ UNCHANGED <<s2c, link>> => WireOK'
  BY QueuesTyped DEF Typed, WireOK, Send
<1>f. {"stdin", "resize", "fpYes", "fpNo", "cred", "close", "pause", "resume"} \subseteq ClientFrames
  BY DEF ClientFrames
<1> USE <1>q, <1>f, Frame DEF BackendFrame, Typed
<1>1. CASE AnswerFingerprint
  BY <1>1 DEF AnswerFingerprint, ClientOK
<1>2. CASE AnswerCredential
  BY <1>2, FieldsTyped DEF AnswerCredential, ClientOK
<1>3. CASE UserInput
  <2>1. segs' \in [left : Nat, late : BOOLEAN]
    <3>1. segs' = segs \/ \E n \in 1 .. MaxSegs : segs' = [segs EXCEPT !.left = n - 1]
      BY <1>3 DEF UserInput
    <3> QED BY <3>1, SegsTyped DEF ClientOK
  <2>2. ClientOK'
    BY <1>3, <2>1 DEF UserInput, ClientOK
  <2> QED BY <1>3, <2>2, FieldsTyped DEF UserInput, UsedOK
<1>7. CASE NextSegment
  <2>1. segs' \in [left : Nat, late : BOOLEAN]
    BY <1>7, SegsTyped DEF NextSegment
  <2>2. ClientOK'
    BY <1>7, <2>1 DEF NextSegment, ClientOK
  <2> QED BY <1>7, <2>2 DEF NextSegment
<1>4. CASE UserClose
  BY <1>4, FieldsTyped DEF UserClose, ClientOK
<1>5. CASE Pause
  BY <1>5, FieldsTyped DEF Pause, UsedOK
<1>6. CASE Resume
  BY <1>6, FieldsTyped DEF Resume, UsedOK
<1> QED BY <1>1, <1>2, <1>3, <1>4, <1>5, <1>6, <1>7 DEF User

\* Frames the backend has received are the first of those sent.
LEMMA PrefixTyped ==
  ASSUME NEW T, NEW q \in Seq(T), NEW n \in 0 .. Len(q)
  PROVE  /\ SubSeq(q, 1, n) \in Seq(T) /\ Len(SubSeq(q, 1, n)) = n
         /\ \A i \in 1 .. n : SubSeq(q, 1, n)[i] = q[i] /\ i \in 1 .. Len(q)
OBVIOUS

LEMMA ClientTyped == Typed /\ (ClientTick \/ ClientEof \/ LinkBreak) => Typed'
<1> SUFFICES ASSUME Typed, ClientTick \/ ClientEof \/ LinkBreak PROVE Typed'
  OBVIOUS
<1> USE Frame DEF BackendFrame, Typed
<1>1. CASE LinkBreak
  <2>1. link' = FALSE /\ s2c' = <<>> /\ \E n \in 0 .. Len(c2s) : c2s' = SubSeq(c2s, 1, n)
    BY <1>1 DEF LinkBreak, Cleared
  <2>2. WireOK'
    BY <2>1, EmptyTyped, PrefixTyped DEF WireOK
  <2>3. ClientOK'
    BY <1>1, ClearedTyped DEF LinkBreak, ClientOK
  <2> QED BY <1>1, <2>2, <2>3 DEF LinkBreak, Cleared
<1>3. CASE ClientEof
  <2>1. WireOK'
    BY <1>3 DEF ClientEof, Cleared, WireOK
  <2>2. ClientOK'
    BY <1>3, ClearedTyped DEF ClientEof, ClientOK
  <2> QED BY <1>3, <2>1, <2>2 DEF ClientEof, Cleared
<1>2. CASE ClientTick
  <2>q. s2c' \in Seq(ServerFrames)
    BY <1>2, QueuesTyped DEF ClientTick
  <2>1. CASE ClientShows
    <3>1. ClientOK'
      <4>1. (c.connected \/ Head(s2c) = "succeed") \in BOOLEAN
        BY DEF ClientOK
      <4> QED BY <2>1, <4>1, FieldsTyped DEF ClientShows, ClientOK
    <3> QED BY <2>q, <2>1, <3>1 DEF ClientShows, WireOK
  <2>2. CASE ClientAsked
    <3>1. "fpYes" \in ClientFrames /\ "cred" \in ClientFrames
      BY DEF ClientFrames
    <3>2. WireOK'
      BY <2>q, <2>2, <3>1, QueuesTyped DEF ClientAsked, Send, WireOK
    <3> QED BY <2>2, <3>2 DEF ClientAsked, ClientOK
  <2>3. CASE ClientClosed
    <3>1. "close" \in ClientFrames /\ "completed" \in ClientFrames
      BY DEF ClientFrames
    <3>2. <<"completed">> \in Seq(ClientFrames) /\ <<"close", "completed">> \in Seq(ClientFrames)
      BY <3>1
    <3>3. c2s' \in Seq(ClientFrames)
      <4>1. c2s \in Seq(ClientFrames)
        BY DEF WireOK
      <4>2. c2s' \in {c2s, c2s \o <<"completed">>, c2s \o <<"close", "completed">>}
        BY <2>3 DEF ClientClosed
      <4>3. c2s \o <<"completed">> \in Seq(ClientFrames)
        BY <3>2, <4>1
      <4>4. c2s \o <<"close", "completed">> \in Seq(ClientFrames)
        BY <3>2, <4>1
      <4> QED BY <4>1, <4>2, <4>3, <4>4
    <3>4. WireOK'
      BY <2>q, <2>3, <3>3 DEF ClientClosed, WireOK
    <3> QED BY <2>3, <3>4, FieldsTyped DEF ClientClosed, ClientOK
  <2>4. CASE ClientThrows
    <3>1. ClientOK'
      BY <2>4, ClearedTyped DEF ClientThrows
    <3>2. <<"close">> \in Seq(ClientFrames) /\ <<>> \in Seq(ClientFrames)
      BY DEF ClientFrames
    <3>3. c2s' \in Seq(ClientFrames)
      <4>1. c2s \in Seq(ClientFrames)
        BY DEF WireOK
      <4>2. c2s \o <<"close">> \in Seq(ClientFrames)
        BY <3>2, <4>1
      <4>3. c2s \o <<>> \in Seq(ClientFrames)
        BY <3>2, <4>1
      <4> QED BY <2>4, <4>2, <4>3 DEF ClientThrows
    <3>4. WireOK'
      BY <2>q, <2>4, <3>3 DEF ClientThrows, Cleared, WireOK
    <3> QED BY <2>4, <3>1, <3>4 DEF ClientThrows, Cleared
  <2> QED BY <1>2, <2>1, <2>2, <2>3, <2>4 DEF ClientTick
<1> QED BY <1>1, <1>2, <1>3

\* A write of the backend keeps the queue typed.
LEMMA WriteTyped ==
  ASSUME Typed, NEW f \in ServerFrames, Write(f), UNCHANGED <<c2s, link>>
  PROVE  WireOK'
BY QueuesTyped DEF Typed, WireOK, Write, Put

LEMMA HandlerTyped == Typed /\ Handler => Typed'
<1> SUFFICES ASSUME Typed, Handler PROVE Typed'
  OBVIOUS
<1>q. \A f : Take(f) /\ UNCHANGED <<s2c, link>> => WireOK'
  BY QueuesTyped DEF Typed, WireOK, Take
<1>u. UNCHANGED <<c2s, s2c, link>> => WireOK'
  BY DEF Typed, WireOK
<1> USE Frame DEF HandlerFrame, Typed
<1>1. CASE HandleControl
  <2>1. senderPaused' \in BOOLEAN
    BY <1>1 DEF HandleControl
  <2>2. WireOK'
    BY <1>1, <1>q DEF HandleControl
  <2> QED BY <1>1, <2>1, <2>2 DEF HandleControl, HandlerOK
<1>2. CASE HandleTick
  <2>q. WireOK'
    BY <1>2, <1>q DEF HandleTick
  <2>1. CASE srv = "open" /\ TickRemote
    <3>1. HandlerOK'
      BY <2>1 DEF TickRemote, Fail, HandlerOK
    <3>2. RemoteOK'
      BY <2>1 DEF TickRemote, Fail, RemoteOK
    <3> QED BY <1>2, <2>q, <2>1, <3>1, <3>2 DEF HandleTick, TickRemote
  <2>2. CASE srv = "open" /\ TickFingerprint
    BY <1>2, <2>q, <2>2 DEF HandleTick, TickFingerprint, FingerprintAnswer, Fail, HandlerOK, AnswersOK
  <2>3. CASE srv = "open" /\ TickCredential
    BY <1>2, <2>q, <2>3 DEF HandleTick, TickCredential, Fail, HandlerOK, AnswersOK
  <2>4. CASE srv # "open"
    BY <1>2, <2>q, <2>4 DEF HandleTick, Fail, HandlerOK
  <2> QED BY <1>2, <2>1, <2>2, <2>3, <2>4 DEF HandleTick
<1>12. CASE HandleAnew
  <2>1. CASE UNCHANGED handlerVars
    <3>1. c2s' \in Seq(ClientFrames)
      BY <1>12, QueuesTyped DEF HandleAnew, Take
    <3>2. s2c' \in Seq(ServerFrames)
      <4>1. "started" \in ServerFrames
        BY DEF ServerFrames
      <4>2. s2c' = s2c \/ s2c' = Append(s2c, "started")
        BY <1>12 DEF HandleAnew, Put
      <4> QED BY <4>1, <4>2, QueuesTyped DEF WireOK
    <3> QED BY <1>12, <2>1, <3>1, <3>2 DEF HandleAnew, WireOK, SlotOK
  <2>2. CASE Fail("garbage") /\ UNCHANGED s2c
    BY <1>12, <1>q, <2>2 DEF HandleAnew, Fail, HandlerOK, SlotOK
  <2> QED BY <1>12, <2>1, <2>2 DEF HandleAnew
<1>3. CASE StdinWrite
  BY <1>3, <1>u, SshBoundsAssumption DEF StdinWrite, Closer, HandlerOK, RemoteOK, PeerOK
<1>4. CASE RefusedReturns
  BY <1>4, <1>u DEF RefusedReturns, CloseRemote, Closer, HandlerOK, RemoteOK
<1>5. CASE HandleClose
  <2>1. AnswersOK'
    BY <1>5 DEF HandleClose, CutAnswers, AnswersOK
  <2>2. HandlerOK' /\ SlotOK'
    BY <1>5 DEF HandleClose, HandlerOK, SlotOK
  <2> QED BY <1>5, <1>q, <2>1, <2>2 DEF HandleClose
<1>6. CASE MachineClose
  BY <1>6, <1>u DEF MachineClose, CloseRemote, Closer, HandlerOK, RemoteOK
<1>7. CASE CloseWait
  BY <1>7, <1>u DEF CloseWait, HandlerOK, SlotOK
<1>8. CASE SendCompleted
  <2>1. WireOK'
    BY <1>8, WriteTyped DEF SendCompleted, Write, ServerFrames
  <2> QED BY <1>8, <2>1 DEF SendCompleted, HandlerOK
<1>9. CASE HandleCompleted
  BY <1>9, <1>q DEF HandleCompleted, SlotOK
<1>10. CASE HandleEof
  BY <1>10, <1>u DEF HandleEof, Fail, HandlerOK
<1>11. CASE Shutdown
  <2>1. AnswersOK'
    BY <1>11 DEF Shutdown, CutAnswers, AnswersOK
  <2>2. HandlerOK' /\ SlotOK'
    BY <1>11 DEF Shutdown, Gone, HandlerOK, SlotOK
  <2> QED BY <1>11, <1>u, <2>1, <2>2 DEF Shutdown
<1> QED BY <1>1, <1>2, <1>3, <1>4, <1>5, <1>6, <1>7, <1>8, <1>9, <1>10, <1>11, <1>12
  DEF Handler

LEMMA RemoteTyped == Typed /\ (Remote \/ Stderr) => Typed'
<1> SUFFICES ASSUME Typed, Remote \/ Stderr PROVE Typed'
  OBVIOUS
<1>w. \A f \in {"hook", "failed", "succeed", "fingerprint", "credential", "stdout", "stderr", "close"} :
        Write(f) /\ UNCHANGED <<c2s, link>> => WireOK'
  BY WriteTyped DEF ServerFrames
<1>u. UNCHANGED <<c2s, s2c, link>> => WireOK'
  BY DEF Typed, WireOK
<1> USE <1>w, <1>u, Frame DEF RemoteFrame, Typed, Step, RemoteOK, RemoteStates
<1>1. CASE RemoteHookOutput
  BY <1>1, FieldsTyped DEF RemoteHookOutput, UsedOK
<1>2. CASE RemoteHooksEnd
  BY <1>2 DEF RemoteHooksEnd
<1>3. CASE RemoteDial
  BY <1>3 DEF RemoteDial
<1>4. CASE AskFingerprint
  BY <1>4 DEF AskFingerprint
<1>5. CASE FingerprintAnswered
  BY <1>5 DEF FingerprintAnswered, Closer, AnswersOK
<1>6. CASE Authenticate
  BY <1>6 DEF Authenticate, Closer
<1>7. CASE AskCredential
  BY <1>7 DEF AskCredential
<1>8. CASE CredentialAnswered
  BY <1>8 DEF CredentialAnswered, Closer, AnswersOK
<1>9. CASE SessionSetup
  BY <1>9 DEF SessionSetup
<1>10. CASE RemoteFailed
  BY <1>10 DEF RemoteFailed
<1>11. CASE RemoteDeliver
  BY <1>11 DEF RemoteDeliver, Deliver
<1>12. CASE RemoteAnnounce
  BY <1>12 DEF RemoteAnnounce
<1>13. CASE ReadStdout
  BY <1>13, SshBoundsAssumption DEF ReadStdout, PeerOK
<1>14. CASE WriteStdout
  BY <1>14 DEF WriteStdout
<1>15. CASE SessionWait
  BY <1>15 DEF SessionWait, Closer
<1>16. CASE ErrOutWait
  BY <1>16 DEF ErrOutWait
<1>17. CASE SignalClose
  BY <1>17 DEF SignalClose
<1>18. CASE RemoteDone
  BY <1>18 DEF RemoteDone
<1>19. CASE ReadStderr
  BY <1>19, SshBoundsAssumption DEF ReadStderr, PeerOK
<1>20. CASE WriteStderr
  BY <1>20 DEF WriteStderr
<1> QED
  BY <1>1, <1>2, <1>3, <1>4, <1>5, <1>6, <1>7, <1>8, <1>9, <1>10, <1>11, <1>12, <1>13, <1>14,
     <1>15, <1>16, <1>17, <1>18, <1>19, <1>20 DEF Remote, Stderr

LEMMA PeerTyped == Typed /\ Peer => Typed'
<1> SUFFICES ASSUME Typed, Peer PROVE Typed'
  OBVIOUS
<1> USE Frame, SshBoundsAssumption DEF PeerFrame, Typed, PeerOK
<1>1. CASE PeerEcho
  BY <1>1 DEF PeerEcho
<1>2. CASE PeerOutput
  BY <1>2, FieldsTyped DEF PeerOutput, UsedOK
<1>3. CASE PeerEnd
  BY <1>3 DEF PeerEnd
<1> QED BY <1>1, <1>2, <1>3 DEF Peer

LEMMA TypesKept == Typed /\ [Next]_vars => Typed'
<1> SUFFICES ASSUME Typed, [Next]_vars PROVE Typed'
  OBVIOUS
<1>1. CASE UNCHANGED vars
  BY <1>1, Frame DEF Typed, vars
<1> QED BY <1>1, UserTyped, ClientTyped, HandlerTyped, RemoteTyped, PeerTyped DEF Next

\* Both ends, the wire, the goroutines and the channel windows hold only values the
\* code can give them; no window overflows.
THEOREM TypeCorrect == Spec => []TypeOK
<1>1. Spec => []Typed
  BY InitTyped, TypesKept, PTL DEF Spec
<1> QED BY <1>1, TypedIsTypeOK, PTL

----------------------------------------------------------------------------
(* What a released slot leaves behind.                                      *)

\* A slot that has been closed and is not being waited for has no goroutine any
\* more; the stderr goroutine lives inside the session, and the connection is
\* closed before the goroutine tells so.
Ended ==
  /\ srv = "closed" /\ h \notin {"machineClose", "closeWait", "shutdownClose", "shutdownWait"}
       => rem = "done"
  /\ ~Booted => rem = "done"
  /\ errp \in {"reading", "holding"} => rem \in {"serving", "holding", "sessionWait", "errWait"}
  /\ rem \in {"errWait", "exit", "signalled", "done"} => tcp # "open"

LEMMA EndedInit == Init => Ended
BY DEF Init, Ended, Booted

\* The rest of the system does not touch it.
LEMMA EndedFrame == Ended /\ UNCHANGED <<srv, h, rem, errp, tcp>> => Ended'
BY DEF Ended, Booted

LEMMA EndedHandler == Typed /\ Ended /\ Handler => Ended'
<1> SUFFICES ASSUME Typed, Ended, Handler PROVE Ended'
  OBVIOUS
<1> USE DEF Ended, Booted, remoteVars, handlerVars
<1>1. CASE HandleControl
  BY <1>1 DEF HandleControl
<1>2. CASE HandleTick
  <2>1. srv' = srv /\ h = "loop" /\ h' \in {"loop", "writing", "refused", "shutdown"}
    BY <1>2 DEF HandleTick, Take, TickRemote, TickFingerprint, TickCredential, Fail
  <2>2. UNCHANGED <<rem, errp, tcp>>
    BY <1>2 DEF HandleTick, TickRemote, TickFingerprint, TickCredential
  <2> QED BY <2>1, <2>2
<1>3. CASE StdinWrite
  BY <1>3 DEF StdinWrite, Closer
<1>4. CASE RefusedReturns
  BY <1>4 DEF RefusedReturns, CloseRemote, Closer
<1>5. CASE HandleClose
  BY <1>5 DEF HandleClose, Take
<1>6. CASE MachineClose
  BY <1>6 DEF MachineClose, CloseRemote, Closer
<1>7. CASE CloseWait
  BY <1>7 DEF CloseWait, RemoteEnded
<1>8. CASE SendCompleted
  BY <1>8 DEF SendCompleted
<1>9. CASE HandleCompleted
  BY <1>9 DEF HandleCompleted, Take
<1>10. CASE HandleEof
  BY <1>10 DEF HandleEof, Fail
<1>11. CASE Shutdown
  BY <1>11 DEF Shutdown, Gone, Typed, SlotOK
<1>12. CASE HandleAnew
  BY <1>12 DEF HandleAnew, Fail
<1> QED BY <1>1, <1>2, <1>3, <1>4, <1>5, <1>6, <1>7, <1>8, <1>9, <1>10, <1>11, <1>12 DEF Handler

LEMMA EndedRemote == Typed /\ Ended /\ (Remote \/ Stderr) => Ended'
<1> SUFFICES ASSUME Typed, Ended, Remote \/ Stderr PROVE Ended'
  OBVIOUS
<1>0. srv' = srv /\ h' = h
  BY DEF Remote, Stderr, RemoteFrame, handlerVars, RemoteHookOutput, RemoteHooksEnd, RemoteDial,
         AskFingerprint, FingerprintAnswered, Authenticate, AskCredential, CredentialAnswered,
         SessionSetup, RemoteFailed, RemoteDeliver, RemoteAnnounce, ReadStdout, WriteStdout,
         SessionWait, ErrOutWait, SignalClose, RemoteDone, ReadStderr, WriteStderr
\* The goroutine moves on and ends once.
<1> USE <1>0 DEF Ended, Booted, Step, remoteVars, Typed, RemoteOK
<1>1. CASE RemoteHookOutput \/ RemoteHooksEnd \/ RemoteDial \/ AskFingerprint
  BY <1>1 DEF RemoteHookOutput, RemoteHooksEnd, RemoteDial, AskFingerprint
<1>2. CASE FingerprintAnswered \/ Authenticate \/ AskCredential \/ CredentialAnswered
  BY <1>2 DEF FingerprintAnswered, Authenticate, AskCredential, CredentialAnswered, Closer
<1>3. CASE SessionSetup \/ RemoteFailed \/ RemoteDeliver
  BY <1>3 DEF SessionSetup, RemoteFailed, RemoteDeliver
<1>4. CASE RemoteAnnounce
  BY <1>4 DEF RemoteAnnounce
<1>5. CASE ReadStdout \/ WriteStdout
  BY <1>5 DEF ReadStdout, WriteStdout
<1>6. CASE SessionWait
  BY <1>6 DEF SessionWait, Closer
<1>7. CASE ErrOutWait \/ SignalClose \/ RemoteDone
  BY <1>7 DEF ErrOutWait, SignalClose, RemoteDone, StderrEnded
<1>8. CASE ReadStderr \/ WriteStderr
  BY <1>8 DEF ReadStderr, WriteStderr
<1> QED BY <1>1, <1>2, <1>3, <1>4, <1>5, <1>6, <1>7, <1>8 DEF Remote, Stderr

LEMMA EndedKept == Typed /\ Ended /\ [Next]_vars => Ended'
<1> SUFFICES ASSUME Typed, Ended, [Next]_vars PROVE Ended'
  OBVIOUS
<1>1. CASE User
  BY <1>1, EndedFrame DEF User, AnswerFingerprint, AnswerCredential, UserInput, NextSegment, UserClose, Pause, Resume,
         BackendFrame, handlerVars, remoteVars
<1>2. CASE ClientTick \/ ClientEof \/ LinkBreak
  BY <1>2, EndedFrame DEF ClientTick, ClientEof, LinkBreak, Cleared, ClientShows, ClientAsked, ClientClosed, ClientThrows,
         BackendFrame, handlerVars, remoteVars
<1>3. CASE Peer \/ UNCHANGED vars
  BY <1>3, EndedFrame DEF Peer, PeerEcho, PeerOutput, PeerEnd, PeerFrame, vars, handlerVars, remoteVars
<1> QED BY <1>1, <1>2, <1>3, EndedHandler, EndedRemote DEF Next

\* A released slot has neither a goroutine nor a connection, wherever the session was
\* closed: by the browser, by the peer or by the broken link.
THEOREM ReleasedIsClean == Spec => []ReleasedLeavesNothing
<1>1. Spec => [](Typed /\ Ended)
  BY InitTyped, TypesKept, EndedInit, EndedKept, PTL DEF Spec
<1>2. Typed /\ Ended => ReleasedLeavesNothing
  BY DEF Typed, RemoteOK, Ended, Booted, ReleasedLeavesNothing
<1> QED BY <1>1, <1>2, PTL

----------------------------------------------------------------------------
(* The host key check.                                                      *)

Sent(q, f) == \E i \in 1 .. Len(q) : q[i] = f

\* The key is shown once: on its way, then in the prompt, then answered; the
\* answer under way or passed on is the user's.
Confirmed ==
  /\ rem \in {"hooks", "dialing", "hostkey"} =>
       verdict = "none" /\ prompt # "fingerprint" /\ ~Sent(s2c, "fingerprint")
  /\ prompt = "fingerprint" => verdict = "none" /\ ~Sent(s2c, "fingerprint")
  /\ Sent(s2c, "fingerprint") => verdict = "none"
  /\ \A i, j \in 1 .. Len(s2c) : s2c[i] = "fingerprint" /\ s2c[j] = "fingerprint" => i = j
  /\ Sent(c2s, "fpYes") \/ fp = "yes" => verdict = "yes"
  /\ OnlyConfirmedHosts

LEMMA SentAppend ==
  ASSUME NEW S, NEW q \in Seq(S), NEW f, NEW g, Sent(Append(q, f), g)
  PROVE  Sent(q, g) \/ f = g
BY DEF Sent

LEMMA SentTail ==
  ASSUME NEW S, NEW q \in Seq(S), q # <<>>, NEW g
  PROVE  Sent(Tail(q), g) => Sent(q, g)
BY DEF Sent

\* What is at the head has been sent; what was there once is not there a second time.
LEMMA SentHead ==
  ASSUME NEW S, NEW q \in Seq(S), q # <<>>
  PROVE  /\ Sent(q, Head(q))
         /\ \A g : (\A i, j \in 1 .. Len(q) : q[i] = g /\ q[j] = g => i = j) =>
              /\ \A i, j \in 1 .. Len(Tail(q)) : Tail(q)[i] = g /\ Tail(q)[j] = g => i = j
              /\ Head(q) = g => ~Sent(Tail(q), g)
BY DEF Sent

\* Frames behind the queue that are not answers.
LEMMA NoAnswerAdded ==
  ASSUME Typed, NEW f, f # "fpYes", c2s' = Append(c2s, f)
  PROVE  Sent(c2s', "fpYes") => Sent(c2s, "fpYes")
<1>1. c2s \in Seq(ClientFrames)
  BY DEF Typed, WireOK
<1> QED BY <1>1, SentAppend

LEMMA ConfirmedInit == Init => Confirmed
BY DEF Init, Confirmed, Sent, OnlyConfirmedHosts

\* The rest of the system does not touch it.
LEMMA ConfirmedFrame ==
  Confirmed /\ UNCHANGED <<rem, verdict, prompt, s2c, c2s, fp>> => Confirmed'
BY DEF Confirmed, Sent, OnlyConfirmedHosts

\* Frames other than an answer to the prompt may be sent at any time.
LEMMA ConfirmedSend ==
  ASSUME Typed, Confirmed, UNCHANGED <<rem, verdict, prompt, s2c, fp>>,
         NEW f, f # "fpYes", Send(f)
  PROVE  Confirmed'
<1>1. c2s \in Seq(ClientFrames)
  BY DEF Typed, WireOK
<1>2. Sent(c2s', "fpYes") => Sent(c2s, "fpYes")
  BY <1>1, SentAppend DEF Send
<1> QED BY <1>2 DEF Confirmed, Sent, OnlyConfirmedHosts

\* What the Handler takes is passed on or dropped.
LEMMA ConfirmedTake ==
  ASSUME Typed, Confirmed, UNCHANGED <<rem, verdict, prompt, s2c>>,
         c2s # <<>>, c2s' = Tail(c2s), fp' = fp \/ (fp' = "yes" => Head(c2s) = "fpYes")
  PROVE  Confirmed'
<1>1. c2s \in Seq(ClientFrames)
  BY DEF Typed, WireOK
<1>2. Sent(c2s', "fpYes") => Sent(c2s, "fpYes")
  BY <1>1, SentTail
<1>3. Sent(c2s, Head(c2s))
  BY <1>1, SentHead
<1>4. Sent(c2s', "fpYes") \/ fp' = "yes" => verdict' = "yes"
  BY <1>2, <1>3 DEF Confirmed
<1> QED BY <1>4 DEF Confirmed, Sent, OnlyConfirmedHosts

\* A frame of the goroutine, which may be the question while it has not been asked.
LEMMA ConfirmedWrite ==
  ASSUME Typed, Confirmed, UNCHANGED <<verdict, prompt, c2s>>,
         NEW f, Put(f), f = "fingerprint" => rem = "hostkey" /\ rem' = "fpWait",
         fp' = fp, OnlyConfirmedHosts',
         rem' \in {"hooks", "dialing", "hostkey"} => rem \in {"hooks", "dialing", "hostkey"}
  PROVE  Confirmed'
<1>1. s2c \in Seq(ServerFrames)
  BY DEF Typed, WireOK
<1>2. CASE ~link
  BY <1>2 DEF Put, Confirmed, Sent
<1>3. CASE link
  <2>1. s2c' = Append(s2c, f)
    BY <1>3 DEF Put
  <2>2. Sent(s2c', "fingerprint") => Sent(s2c, "fingerprint") \/ f = "fingerprint"
    BY <1>1, <2>1, SentAppend
  <2>3. \A i, j \in 1 .. Len(s2c') : s2c'[i] = "fingerprint" /\ s2c'[j] = "fingerprint" => i = j
    BY <1>1, <2>1 DEF Confirmed, Sent
  <2>4. Sent(c2s', "fpYes") \/ fp' = "yes" => verdict' = "yes"
    BY DEF Confirmed, Sent
  <2> QED BY <2>2, <2>3, <2>4 DEF Confirmed
<1> QED BY <1>2, <1>3

LEMMA ConfirmedUser == Typed /\ Confirmed /\ User => Confirmed'
<1> SUFFICES ASSUME Typed, Confirmed, User PROVE Confirmed'
  OBVIOUS
<1>1. UNCHANGED <<rem, s2c, fp>>
  BY DEF User, AnswerFingerprint, AnswerCredential, UserInput, NextSegment, UserClose, Pause, Resume, BackendFrame,
         remoteVars, answerVars
<1>2. CASE AnswerFingerprint
  <2>1. c2s \in Seq(ClientFrames)
    BY DEF Typed, WireOK
  <2>2. verdict = "none" /\ ~Sent(s2c, "fingerprint") /\ ~Sent(c2s, "fpYes") /\ fp # "yes"
    BY <1>2 DEF AnswerFingerprint, Confirmed
  <2>3. Sent(c2s', "fpYes") => verdict' = "yes"
    <3>1. CASE c2s' = Append(c2s, "fpYes") /\ verdict' = "yes"
      BY <3>1
    <3>2. CASE c2s' = Append(c2s, "fpNo")
      BY <2>2, <3>2, NoAnswerAdded
    <3> QED BY <1>2, <3>1, <3>2 DEF AnswerFingerprint, Send
  <2>4. ~Sent(s2c', "fingerprint") /\ prompt' = "none"
    BY <1>1, <1>2, <2>2 DEF AnswerFingerprint, Sent
  <2>5. rem \notin {"hooks", "dialing", "hostkey"}
    BY <1>2 DEF AnswerFingerprint, Confirmed
  <2>6. OnlyConfirmedHosts'
    BY <1>1, <2>2 DEF Confirmed, OnlyConfirmedHosts
  <2> QED BY <1>1, <2>2, <2>3, <2>4, <2>5, <2>6 DEF Confirmed
<1>3. CASE AnswerCredential
  <2>1. Sent(c2s', "fpYes") => Sent(c2s, "fpYes")
    BY <1>3, NoAnswerAdded DEF AnswerCredential, Send
  <2> QED BY <1>1, <1>3, <2>1 DEF AnswerCredential, Confirmed, Sent, OnlyConfirmedHosts
<1>4. CASE UserInput \/ NextSegment \/ UserClose \/ Pause \/ Resume
  BY <1>1, <1>4, ConfirmedSend DEF UserInput, NextSegment, UserClose, Pause, Resume, clientVars
<1> QED BY <1>2, <1>3, <1>4 DEF User

LEMMA ConfirmedClient == Typed /\ Confirmed /\ (ClientTick \/ ClientEof \/ LinkBreak) => Confirmed'
<1> SUFFICES ASSUME Typed, Confirmed, ClientTick \/ ClientEof \/ LinkBreak PROVE Confirmed'
  OBVIOUS
<1>0. UNCHANGED <<rem, fp>>
  BY DEF ClientTick, ClientEof, LinkBreak, Cleared, ClientShows, ClientAsked, ClientClosed, ClientThrows, BackendFrame,
         remoteVars, answerVars
<1>q. s2c \in Seq(ServerFrames) /\ c2s \in Seq(ClientFrames)
  BY DEF Typed, WireOK
\* Whatever is lost with the connection, nothing is added.
<1>c. ASSUME Cleared, Sent(c2s', "fpYes") => Sent(c2s, "fpYes"),
             Sent(s2c', "fingerprint") => Sent(s2c, "fingerprint"),
             \A i, j \in 1 .. Len(s2c') : s2c'[i] = "fingerprint" /\ s2c'[j] = "fingerprint" => i = j
      PROVE  Confirmed'
  BY <1>0, <1>c DEF Cleared, Confirmed, OnlyConfirmedHosts
<1>1. CASE LinkBreak
  <2>1. Sent(c2s', "fpYes") => Sent(c2s, "fpYes")
    <3>1. PICK n \in 0 .. Len(c2s) : c2s' = SubSeq(c2s, 1, n)
      BY <1>1 DEF LinkBreak
    <3> QED BY <1>q, <3>1, PrefixTyped DEF Sent
  <2>2. s2c' = <<>> /\ Cleared
    BY <1>1 DEF LinkBreak
  <2> QED BY <1>c, <2>1, <2>2 DEF Sent
<1>3. CASE ClientEof
  BY <1>c, <1>3 DEF ClientEof, Confirmed, Sent
<1>2. CASE ClientTick
  <2>q. s2c \in Seq(ServerFrames) /\ c2s \in Seq(ClientFrames) /\ s2c # <<>> /\ s2c' = Tail(s2c)
    BY <1>2 DEF ClientTick, Typed, WireOK
  <2>t. Sent(s2c', "fingerprint") => Sent(s2c, "fingerprint")
    BY <2>q, SentTail
  <2>o. /\ \A i, j \in 1 .. Len(s2c') : s2c'[i] = "fingerprint" /\ s2c'[j] = "fingerprint" => i = j
        /\ Head(s2c) = "fingerprint" => ~Sent(s2c', "fingerprint") /\ Sent(s2c, "fingerprint")
    BY <2>q, SentHead DEF Confirmed
  <2>1. CASE UNCHANGED <<verdict, prompt>> /\ (Sent(c2s', "fpYes") => Sent(c2s, "fpYes"))
    BY <1>0, <2>t, <2>o, <2>1 DEF Confirmed, OnlyConfirmedHosts
  <2>2. CASE ClientShows
    <3>1. UNCHANGED <<verdict, prompt, c2s>>
      BY <2>2 DEF ClientShows
    <3> QED BY <2>1, <3>1 DEF Sent
  <2>6. CASE ClientThrows
    <3>1. Cleared /\ (c2s' = c2s \o <<"close">> \/ c2s' = c2s \o <<>>)
      BY <2>6 DEF ClientThrows
    <3>2. Sent(c2s', "fpYes") => Sent(c2s, "fpYes")
      <4>1. CASE c2s' = c2s \o <<"close">>
        BY <2>q, <4>1 DEF Sent
      <4>2. CASE c2s' = c2s \o <<>>
        BY <2>q, <4>2 DEF Sent
      <4> QED BY <3>1, <4>1, <4>2
    <3> QED BY <1>c, <2>t, <2>o, <3>1, <3>2
  <2>3. CASE ClientAsked /\ Head(s2c) = "credential"
    <3>1. Sent(c2s', "fpYes") => Sent(c2s, "fpYes")
      <4>1. c2s' = c2s \/ c2s' = Append(c2s, "cred")
        BY <2>3 DEF ClientAsked, Send
      <4>2. c2s' = c2s => (Sent(c2s', "fpYes") => Sent(c2s, "fpYes"))
        OBVIOUS
      <4> QED BY <4>1, <4>2, NoAnswerAdded
    <3>2. UNCHANGED verdict /\ (prompt' = prompt \/ prompt' = "credential")
      BY <2>3 DEF ClientAsked
    <3> QED BY <1>0, <2>t, <2>o, <3>1, <3>2 DEF Confirmed, OnlyConfirmedHosts
  <2>4. CASE ClientAsked /\ Head(s2c) = "fingerprint"
    <3>1. verdict = "none" /\ ~Sent(s2c', "fingerprint") /\ rem \notin {"hooks", "dialing", "hostkey"}
      BY <2>o, <2>4 DEF Confirmed
    <3>2. ~Sent(c2s, "fpYes") /\ fp # "yes" /\ prompt # "fingerprint"
      BY <2>o, <2>4, <3>1 DEF Confirmed
    <3>3. \/ verdict' = "yes" /\ UNCHANGED prompt
          \/ prompt' = "fingerprint" /\ UNCHANGED <<c2s, verdict>>
      BY <2>4 DEF ClientAsked
    <3>4. Sent(c2s', "fpYes") => verdict' = "yes"
      BY <3>2, <3>3 DEF Sent
    <3>5. OnlyConfirmedHosts'
      BY <1>0, <3>1, <3>3 DEF Confirmed, OnlyConfirmedHosts
    <3> QED BY <1>0, <2>o, <3>1, <3>2, <3>3, <3>4, <3>5 DEF Confirmed
  <2>5. CASE ClientClosed
    <3>1. UNCHANGED <<verdict, prompt>>
      BY <2>5 DEF ClientClosed
    <3>2. c2s' = c2s \/ c2s' = c2s \o <<"completed">> \/ c2s' = c2s \o <<"close", "completed">>
      BY <2>5 DEF ClientClosed
    <3>3. Sent(c2s', "fpYes") => Sent(c2s, "fpYes")
      <4>1. CASE c2s' = c2s
        BY <4>1
      <4>2. CASE c2s' = c2s \o <<"completed">>
        BY <2>q, <4>2 DEF Sent
      <4>3. CASE c2s' = c2s \o <<"close", "completed">>
        BY <2>q, <4>3 DEF Sent
      <4> QED BY <3>2, <4>1, <4>2, <4>3
    <3> QED BY <2>1, <3>1, <3>3
  <2> QED BY <1>2, <2>2, <2>3, <2>4, <2>5, <2>6 DEF ClientTick, ClientAsked
<1> QED BY <1>1, <1>2, <1>3

LEMMA ConfirmedHandler == Typed /\ Confirmed /\ Handler => Confirmed'
<1> SUFFICES ASSUME Typed, Confirmed, Handler PROVE Confirmed'
  OBVIOUS
<1>0. UNCHANGED <<rem, verdict, prompt>>
  BY DEF Handler, HandlerFrame, HandleControl, HandleTick, HandleAnew, TickRemote, TickFingerprint, TickCredential,
         StdinWrite, RefusedReturns, HandleClose, MachineClose, CloseWait, SendCompleted, HandleCompleted,
         HandleEof, Shutdown, clientVars, remoteVars
<1>1. CASE HandleControl \/ HandleClose \/ HandleCompleted
  BY <1>0, <1>1, ConfirmedTake DEF HandleControl, HandleClose, HandleCompleted, Take, answerVars
<1>2. CASE HandleTick
  <2>1. c2s # <<>> /\ c2s' = Tail(c2s) /\ UNCHANGED s2c
    BY <1>2 DEF HandleTick, Take
  <2>2. fp' = fp \/ (fp' = "yes" => Head(c2s) = "fpYes")
    BY <1>2 DEF HandleTick, TickRemote, TickFingerprint, TickCredential, FingerprintAnswer, answerVars
  <2> QED BY <1>0, <2>1, <2>2, ConfirmedTake
<1>3. CASE StdinWrite \/ RefusedReturns \/ MachineClose \/ CloseWait \/ HandleEof \/ Shutdown
  BY <1>0, <1>3, ConfirmedFrame DEF StdinWrite, RefusedReturns, MachineClose, CloseWait, HandleEof, Shutdown,
     answerVars
<1>5. CASE HandleAnew
  <2>1. c2s # <<>> /\ c2s' = Tail(c2s) /\ UNCHANGED fp
    BY <1>5 DEF HandleAnew, Take, answerVars
  <2>2. CASE UNCHANGED s2c
    BY <1>0, <2>1, <2>2, ConfirmedTake
  \* The goroutine is over, so the key is not asked for any more.
  <2>3. CASE link /\ s2c' = Append(s2c, "started")
    <3>1. s2c \in Seq(ServerFrames) /\ c2s \in Seq(ClientFrames)
      BY DEF Typed, WireOK
    <3>2. Sent(s2c', "fingerprint") => Sent(s2c, "fingerprint")
      BY <2>3, <3>1, SentAppend
    <3>3. \A i, j \in 1 .. Len(s2c') : s2c'[i] = "fingerprint" /\ s2c'[j] = "fingerprint" => i = j
      BY <2>3, <3>1 DEF Confirmed
    <3>4. Sent(c2s', "fpYes") => Sent(c2s, "fpYes")
      BY <2>1, <3>1, SentTail
    <3> QED BY <1>0, <2>1, <3>2, <3>3, <3>4 DEF Confirmed, OnlyConfirmedHosts
  <2> QED BY <1>5, <2>2, <2>3 DEF HandleAnew, Put
<1>4. CASE SendCompleted
  <2>1. OnlyConfirmedHosts'
    BY <1>0 DEF Confirmed, OnlyConfirmedHosts
  <2> QED BY <1>0, <1>4, <2>1, ConfirmedWrite DEF SendCompleted, answerVars
<1> QED BY <1>1, <1>2, <1>3, <1>4, <1>5 DEF Handler

LEMMA ConfirmedRemote == Typed /\ Confirmed /\ (Remote \/ Stderr) => Confirmed'
<1> SUFFICES ASSUME Typed, Confirmed, Remote \/ Stderr PROVE Confirmed'
  OBVIOUS
<1>0. UNCHANGED <<verdict, prompt, c2s>>
  BY DEF Remote, Stderr, RemoteFrame, clientVars, RemoteHookOutput, RemoteHooksEnd, RemoteDial,
         AskFingerprint, FingerprintAnswered, Authenticate, AskCredential, CredentialAnswered,
         SessionSetup, RemoteFailed, RemoteDeliver, RemoteAnnounce, ReadStdout, WriteStdout,
         SessionWait, ErrOutWait, SignalClose, RemoteDone, ReadStderr, WriteStderr
<1>1. OnlyConfirmedHosts'
  BY <1>0 DEF Confirmed, OnlyConfirmedHosts, Step, Remote, Stderr, remoteVars, RemoteHookOutput,
         RemoteHooksEnd, RemoteDial, AskFingerprint, FingerprintAnswered, Authenticate, AskCredential,
         CredentialAnswered, SessionSetup, RemoteFailed, RemoteDeliver, RemoteAnnounce, ReadStdout,
         WriteStdout, SessionWait, ErrOutWait, SignalClose, RemoteDone, ReadStderr, WriteStderr
<1>2. rem' \in {"hooks", "dialing", "hostkey"} => rem \in {"hooks", "dialing", "hostkey"}
  BY DEF Step, Remote, Stderr, remoteVars, RemoteHookOutput,
         RemoteHooksEnd, RemoteDial, AskFingerprint, FingerprintAnswered, Authenticate, AskCredential,
         CredentialAnswered, SessionSetup, RemoteFailed, RemoteDeliver, RemoteAnnounce, ReadStdout,
         WriteStdout, SessionWait, ErrOutWait, SignalClose, RemoteDone, ReadStderr, WriteStderr
\* Steps that write nothing; an answer is used up.
<1>3. CASE UNCHANGED s2c /\ (fp' = fp \/ fp' = "none")
  <2>1. fp' = "yes" => fp = "yes"
    BY <1>3
  <2> QED BY <1>0, <1>1, <1>2, <1>3, <2>1 DEF Confirmed, Sent
<1>4. CASE \/ RemoteHooksEnd \/ RemoteDial \/ FingerprintAnswered \/ Authenticate \/ CredentialAnswered
           \/ SessionSetup \/ RemoteDeliver \/ ReadStdout \/ SessionWait \/ ErrOutWait \/ RemoteDone
           \/ ReadStderr
  <2>1. UNCHANGED s2c /\ (fp' = fp \/ fp' = "none")
    BY <1>4 DEF RemoteHooksEnd, RemoteDial, FingerprintAnswered, Authenticate, CredentialAnswered,
         SessionSetup, RemoteDeliver, ReadStdout, SessionWait, ErrOutWait, RemoteDone, ReadStderr,
         answerVars
  <2> QED BY <1>3, <2>1
<1>5. CASE \/ RemoteHookOutput \/ AskCredential \/ RemoteFailed \/ RemoteAnnounce \/ WriteStdout
           \/ SignalClose \/ WriteStderr
  <2>1. \E f \in {"hook", "credential", "failed", "succeed", "stdout", "close", "stderr"} : Put(f)
    BY <1>5 DEF RemoteHookOutput, AskCredential, RemoteFailed, RemoteAnnounce, WriteStdout, SignalClose,
         WriteStderr, Write
  <2>2. fp' = fp
    BY <1>5 DEF RemoteHookOutput, AskCredential, RemoteFailed, RemoteAnnounce, WriteStdout, SignalClose,
         WriteStderr, answerVars
  <2> QED BY <1>0, <1>1, <1>2, <2>1, <2>2, ConfirmedWrite
<1>6. CASE AskFingerprint
  BY <1>0, <1>1, <1>2, <1>6, ConfirmedWrite DEF AskFingerprint, Write, Step, answerVars
<1> QED BY <1>4, <1>5, <1>6 DEF Remote, Stderr

LEMMA ConfirmedKept == Typed /\ Confirmed /\ [Next]_vars => Confirmed'
<1> SUFFICES ASSUME Typed, Confirmed, [Next]_vars PROVE Confirmed'
  OBVIOUS
<1>1. CASE Peer \/ UNCHANGED vars
  BY <1>1, ConfirmedFrame DEF Peer, PeerEcho, PeerOutput, PeerEnd, PeerFrame, vars, clientVars, wireVars,
     answerVars, remoteVars
<1> QED BY <1>1, ConfirmedUser, ConfirmedClient, ConfirmedHandler, ConfirmedRemote DEF Next

\* No authentication, and so no credential and no shell, before the user or the
\* preset has confirmed the host's key.
THEOREM HostsAreConfirmed == Spec => []OnlyConfirmedHosts
<1>1. Spec => [](Typed /\ Confirmed)
  BY InitTyped, TypesKept, ConfirmedInit, ConfirmedKept, PTL DEF Spec
<1>2. Confirmed => OnlyConfirmedHosts
  BY DEF Confirmed
<1> QED BY <1>1, <1>2, PTL

----------------------------------------------------------------------------
(* The order of frames.                                                     *)

Handshake == {"hook", "failed", "fingerprint", "credential", "succeed"}
Output == {"stdout", "stderr"}

\* A queue of frames the browser accepts one after the other in its state b.
Orderly(q, b) ==
  /\ ~b.active => b.shut /\ Len(q) = 0
  /\ b.shut => \A i \in 1 .. Len(q) : q[i] = "completed"
  /\ b.connected => \A i \in 1 .. Len(q) : q[i] \notin Handshake
  /\ \A i, j \in 1 .. Len(q) : i < j =>
       /\ q[i] = "succeed" => q[j] \notin Handshake
       /\ q[i] = "close" => q[j] = "completed"
       /\ q[i] # "completed"
  /\ \A i \in 1 .. Len(q) : q[i] \in Output =>
       b.connected \/ \E j \in 1 .. Len(q) : j < i /\ q[j] = "succeed"
  /\ \A i \in 1 .. Len(q) : q[i] = "completed" =>
       b.shut \/ \E j \in 1 .. Len(q) : j < i /\ q[j] = "close"

Before == {"hooks", "dialing", "hostkey", "fpWait", "auth", "askCred", "credWait", "setup",
           "failed", "deliver", "announce"}

\* How far the goroutine and the Handler are tells what they have sent.
Phased ==
  /\ rem \in Before =>
       ~c.connected /\ \A i \in 1 .. Len(s2c) : s2c[i] # "succeed" /\ s2c[i] \notin Output
  /\ rem \in {"serving", "holding", "sessionWait", "errWait"} =>
       c.connected \/ Sent(s2c, "succeed")
  /\ rem \notin {"signalled", "done"} => ~c.shut /\ ~Sent(s2c, "close")
  /\ rem \in {"signalled", "done"} => c.shut \/ Sent(s2c, "close")
  /\ srv = "open" \/ h \in {"machineClose", "closeWait", "completed"} =>
       c.active /\ ~Sent(s2c, "completed")

Wired ==
  /\ h \in {"machineClose", "closeWait", "completed", "shutdownClose", "shutdownWait"} => srv = "closed"
  /\ link /\ srv # "reused" => Orderly(s2c, c) /\ Phased

LEMMA SentSplit ==
  ASSUME NEW S, NEW q \in Seq(S), q # <<>>, NEW g, Sent(q, g)
  PROVE  Head(q) = g \/ Sent(Tail(q), g)
<1>1. PICK i \in 1 .. Len(q) : q[i] = g
  BY DEF Sent
<1>2. CASE i = 1
  BY <1>1, <1>2
<1>3. CASE i # 1
  <2>1. i - 1 \in 1 .. Len(Tail(q)) /\ Tail(q)[i - 1] = q[i]
    BY <1>1, <1>3
  <2> QED BY <1>1, <2>1 DEF Sent
<1> QED BY <1>2, <1>3

\* The browser accepts the head of an orderly queue.
LEMMA HeadAccepted ==
  ASSUME Typed, s2c # <<>>, Orderly(s2c, c)
  PROVE  Acceptable(Head(s2c))
<1>1. s2c \in Seq(ServerFrames) /\ Len(s2c) > 0 /\ Head(s2c) = s2c[1] /\ s2c[1] \in ServerFrames
  BY DEF Typed, WireOK
<1>2. 1 \in 1 .. Len(s2c) /\ \A j \in 1 .. Len(s2c) : ~(j < 1)
  BY <1>1
<1> QED BY <1>1, <1>2 DEF Orderly, Acceptable, Expected, Handshake, Output, ServerFrames

\* Taking the head leaves an orderly queue for the state the frame leads to.
LEMMA TailOrderly ==
  ASSUME NEW q \in Seq(ServerFrames), q # <<>>, NEW b, NEW d, Orderly(q, b),
         d.active <=> b.active /\ Head(q) # "completed",
         d.shut <=> b.shut \/ Head(q) = "close",
         d.connected <=> b.connected \/ Head(q) = "succeed",
         Head(q) = "completed" => b.shut
  PROVE  Orderly(Tail(q), d)
<1>1. /\ Len(q) \in Nat /\ Len(q) > 0 /\ Head(q) = q[1]
      /\ Len(Tail(q)) = Len(q) - 1
      /\ \A i \in 1 .. Len(Tail(q)) : i + 1 \in 1 .. Len(q) /\ Tail(q)[i] = q[i + 1] /\ 1 < i + 1
  OBVIOUS
<1>2. 1 \in 1 .. Len(q)
  BY <1>1
<1>3. ~d.active => d.shut /\ Len(Tail(q)) = 0
  <2>1. CASE ~b.active
    BY <2>1 DEF Orderly
  <2>2. CASE Head(q) = "completed"
    <3>1. \A j \in 1 .. Len(q) : ~(1 < j)
      BY <1>1, <1>2, <2>2 DEF Orderly
    <3>2. Len(Tail(q)) = 0
      BY <1>1, <3>1
    <3>3. d.shut
      BY <2>2
    <3> QED BY <3>2, <3>3
  <2> QED BY <2>1, <2>2
<1>4. d.shut => \A i \in 1 .. Len(Tail(q)) : Tail(q)[i] = "completed"
  BY <1>1, <1>2 DEF Orderly
<1>5. d.connected => \A i \in 1 .. Len(Tail(q)) : Tail(q)[i] \notin Handshake
  BY <1>1, <1>2 DEF Orderly
<1>6. \A i, j \in 1 .. Len(Tail(q)) : i < j =>
        /\ Tail(q)[i] = "succeed" => Tail(q)[j] \notin Handshake
        /\ Tail(q)[i] = "close" => Tail(q)[j] = "completed"
        /\ Tail(q)[i] # "completed"
  <2> SUFFICES ASSUME NEW i \in 1 .. Len(Tail(q)), NEW j \in 1 .. Len(Tail(q)), i < j
               PROVE  /\ Tail(q)[i] = "succeed" => Tail(q)[j] \notin Handshake
                      /\ Tail(q)[i] = "close" => Tail(q)[j] = "completed"
                      /\ Tail(q)[i] # "completed"
    OBVIOUS
  <2>1. i + 1 < j + 1
    BY <1>1
  <2> QED BY <1>1, <2>1 DEF Orderly
<1>7. \A g, f : (\A i \in 1 .. Len(q) : q[i] = f => \E j \in 1 .. Len(q) : j < i /\ q[j] = g) =>
        \A i \in 1 .. Len(Tail(q)) : Tail(q)[i] = f =>
          Head(q) = g \/ \E j \in 1 .. Len(Tail(q)) : j < i /\ Tail(q)[j] = g
  <2> SUFFICES ASSUME NEW g, NEW f,
                      \A i \in 1 .. Len(q) : q[i] = f => \E j \in 1 .. Len(q) : j < i /\ q[j] = g,
                      NEW i \in 1 .. Len(Tail(q)), Tail(q)[i] = f, Head(q) # g
               PROVE  \E j \in 1 .. Len(Tail(q)) : j < i /\ Tail(q)[j] = g
    OBVIOUS
  <2>1. PICK k \in 1 .. Len(q) : k < i + 1 /\ q[k] = g
    BY <1>1
  <2>2. k # 1
    BY <1>1, <2>1
  <2>3. k - 1 \in 1 .. Len(Tail(q)) /\ k - 1 < i /\ Tail(q)[k - 1] = q[k]
    BY <1>1, <2>1, <2>2
  <2> QED BY <2>1, <2>3
<1>8. \A i \in 1 .. Len(Tail(q)) : Tail(q)[i] \in Output =>
        d.connected \/ \E j \in 1 .. Len(Tail(q)) : j < i /\ Tail(q)[j] = "succeed"
  <2> SUFFICES ASSUME NEW i \in 1 .. Len(Tail(q)), Tail(q)[i] \in Output, ~d.connected
               PROVE  \E j \in 1 .. Len(Tail(q)) : j < i /\ Tail(q)[j] = "succeed"
    OBVIOUS
  <2>1. \A k \in 1 .. Len(q) : q[k] = Tail(q)[i] => \E j \in 1 .. Len(q) : j < k /\ q[j] = "succeed"
    BY DEF Orderly
  <2> QED BY <1>7, <2>1
<1>9. \A i \in 1 .. Len(Tail(q)) : Tail(q)[i] = "completed" =>
        d.shut \/ \E j \in 1 .. Len(Tail(q)) : j < i /\ Tail(q)[j] = "close"
  <2> SUFFICES ASSUME NEW i \in 1 .. Len(Tail(q)), Tail(q)[i] = "completed", ~d.shut
               PROVE  \E j \in 1 .. Len(Tail(q)) : j < i /\ Tail(q)[j] = "close"
    OBVIOUS
  <2>1. \A k \in 1 .. Len(q) : q[k] = "completed" => \E j \in 1 .. Len(q) : j < k /\ q[j] = "close"
    BY DEF Orderly
  <2> QED BY <1>7, <2>1
<1> QED BY <1>3, <1>4, <1>5, <1>6, <1>8, <1>9 DEF Orderly

\* A frame in its phase joins an orderly queue.
LEMMA AppendOrderly ==
  ASSUME NEW q \in Seq(ServerFrames), NEW b, Orderly(q, b), NEW f, b.active,
         ~Sent(q, "completed"),
         f # "completed" => ~b.shut /\ ~Sent(q, "close"),
         f \in Handshake => ~b.connected /\ ~Sent(q, "succeed"),
         f \in Output => b.connected \/ Sent(q, "succeed"),
         f = "completed" => b.shut \/ Sent(q, "close")
  PROVE  Orderly(Append(q, f), b)
<1>1. /\ Len(q) \in Nat /\ Len(Append(q, f)) = Len(q) + 1 /\ Append(q, f)[Len(q) + 1] = f
      /\ \A i \in 1 .. Len(q) : Append(q, f)[i] = q[i] /\ i \in 1 .. Len(Append(q, f))
      /\ \A i \in 1 .. Len(Append(q, f)) : i = Len(q) + 1 \/ i \in 1 .. Len(q)
  OBVIOUS
<1>2. b.shut => \A i \in 1 .. Len(Append(q, f)) : Append(q, f)[i] = "completed"
  BY <1>1 DEF Orderly
<1>3. b.connected => \A i \in 1 .. Len(Append(q, f)) : Append(q, f)[i] \notin Handshake
  BY <1>1 DEF Orderly
<1>4. \A i, j \in 1 .. Len(Append(q, f)) : i < j =>
        /\ Append(q, f)[i] = "succeed" => Append(q, f)[j] \notin Handshake
        /\ Append(q, f)[i] = "close" => Append(q, f)[j] = "completed"
        /\ Append(q, f)[i] # "completed"
  <2> SUFFICES ASSUME NEW i \in 1 .. Len(Append(q, f)), NEW j \in 1 .. Len(Append(q, f)), i < j
               PROVE  /\ Append(q, f)[i] = "succeed" => Append(q, f)[j] \notin Handshake
                      /\ Append(q, f)[i] = "close" => Append(q, f)[j] = "completed"
                      /\ Append(q, f)[i] # "completed"
    OBVIOUS
  <2>1. i \in 1 .. Len(q)
    BY <1>1
  <2>2. CASE j \in 1 .. Len(q)
    BY <1>1, <2>1, <2>2 DEF Orderly
  <2>3. CASE j = Len(q) + 1
    BY <1>1, <2>1, <2>3 DEF Sent
  <2> QED BY <1>1, <2>2, <2>3
<1>5. \A g : Sent(q, g) => \E j \in 1 .. Len(Append(q, f)) : j < Len(q) + 1 /\ Append(q, f)[j] = g
  BY <1>1 DEF Sent
<1>6. \A i \in 1 .. Len(Append(q, f)) : Append(q, f)[i] \in Output =>
        b.connected \/ \E j \in 1 .. Len(Append(q, f)) : j < i /\ Append(q, f)[j] = "succeed"
  <2> SUFFICES ASSUME NEW i \in 1 .. Len(Append(q, f)), Append(q, f)[i] \in Output, ~b.connected
               PROVE  \E j \in 1 .. Len(Append(q, f)) : j < i /\ Append(q, f)[j] = "succeed"
    OBVIOUS
  <2>1. CASE i \in 1 .. Len(q)
    <3>1. PICK j \in 1 .. Len(q) : j < i /\ q[j] = "succeed"
      BY <1>1, <2>1 DEF Orderly
    <3> QED BY <1>1, <3>1
  <2>2. CASE i = Len(q) + 1
    BY <1>1, <1>5, <2>2
  <2> QED BY <1>1, <2>1, <2>2
<1>7. \A i \in 1 .. Len(Append(q, f)) : Append(q, f)[i] = "completed" =>
        b.shut \/ \E j \in 1 .. Len(Append(q, f)) : j < i /\ Append(q, f)[j] = "close"
  <2> SUFFICES ASSUME NEW i \in 1 .. Len(Append(q, f)), Append(q, f)[i] = "completed", ~b.shut
               PROVE  \E j \in 1 .. Len(Append(q, f)) : j < i /\ Append(q, f)[j] = "close"
    OBVIOUS
  <2>1. i = Len(q) + 1
    BY <1>1 DEF Sent
  <2> QED BY <1>1, <1>5, <2>1
<1> QED BY <1>2, <1>3, <1>4, <1>6, <1>7 DEF Orderly

IInv == Typed /\ Ended /\ Wired

LEMMA WiredInit == Init => Wired
BY DEF Init, Wired, Orderly, Phased, Sent, Handshake, Output, Before

\* Where nothing of it changes, or the browser's own sends only.
LEMMA WiredFrame ==
  ASSUME Wired, UNCHANGED <<link, s2c, rem, srv, h>>, c' = c \/ c' = [c EXCEPT !.sclosed = TRUE], Typed
  PROVE  Wired'
<1>1. c'.active = c.active /\ c'.shut = c.shut /\ c'.connected = c.connected
  BY DEF Typed, ClientOK
<1> QED BY <1>1 DEF Wired, Orderly, Phased, Sent

LEMMA WiredClient == IInv /\ (ClientTick \/ ClientEof \/ LinkBreak) => Wired'
<1> SUFFICES ASSUME IInv, ClientTick \/ ClientEof \/ LinkBreak PROVE Wired'
  OBVIOUS
<1>0. UNCHANGED <<rem, srv, h>>
  BY DEF ClientTick, ClientEof, LinkBreak, Cleared, ClientShows, ClientAsked, ClientClosed, ClientThrows, BackendFrame,
         remoteVars, handlerVars
<1>1. CASE ~link' \/ srv = "reused"
  BY <1>0, <1>1 DEF IInv, Wired
<1>2. CASE link' /\ srv # "reused"
  <2>1. ClientTick /\ Acceptable(Head(s2c)) /\ (ClientShows \/ ClientAsked \/ ClientClosed) /\ link
    BY <1>2 DEF ClientTick, ClientEof, LinkBreak, Cleared, ClientThrows, Live
  <2>2. s2c \in Seq(ServerFrames) /\ s2c # <<>> /\ s2c' = Tail(s2c)
    BY <2>1 DEF ClientTick, IInv, Typed, WireOK
  <2>3. Orderly(s2c, c) /\ Phased
    BY <1>2, <2>1 DEF IInv, Wired
  <2>4. /\ c'.active <=> c.active /\ Head(s2c) # "completed"
        /\ c'.shut <=> c.shut \/ Head(s2c) = "close"
        /\ c'.connected <=> c.connected \/ Head(s2c) = "succeed"
    <3>0. c \in [active : BOOLEAN, connected : BOOLEAN, sclosed : BOOLEAN, shut : BOOLEAN]
      BY DEF IInv, Typed, ClientOK
    <3>1. CASE ClientShows
      BY <3>0, <3>1 DEF ClientShows
    <3>2. CASE ClientAsked
      BY <3>0, <3>2 DEF ClientAsked
    <3>3. CASE ClientClosed
      BY <3>0, <3>3 DEF ClientClosed
    <3> QED BY <2>1, <3>1, <3>2, <3>3
  <2>5. Head(s2c) = "completed" => c.shut
    BY <2>1 DEF Acceptable
  <2>6. Orderly(s2c', c')
    BY <2>2, <2>3, <2>4, <2>5, TailOrderly
  <2>7. \A g : Sent(s2c', g) => Sent(s2c, g)
    BY <2>2, SentTail
  <2>8. \A g : Sent(s2c, g) => Head(s2c) = g \/ Sent(s2c', g)
    BY <2>2, SentSplit
  <2>9. Sent(s2c, Head(s2c))
    BY <2>2, SentHead
  <2>10. \A i \in 1 .. Len(s2c') : Sent(s2c, s2c'[i])
    BY <2>7 DEF Sent
  <2>11. rem' \in Before =>
           ~c'.connected /\ \A i \in 1 .. Len(s2c') : s2c'[i] # "succeed" /\ s2c'[i] \notin Output
    BY <1>0, <2>3, <2>4, <2>9, <2>10 DEF Phased, Sent
  <2> QED BY <1>0, <2>3, <2>4, <2>6, <2>7, <2>8, <2>9, <2>11 DEF Phased, Wired, IInv
<1> QED BY <1>1, <1>2

LEMMA WiredHandler == IInv /\ Handler => Wired'
<1> SUFFICES ASSUME IInv, Handler PROVE Wired'
  OBVIOUS
<1>0. UNCHANGED <<c, link, rem>>
  BY DEF Handler, HandlerFrame, HandleControl, HandleTick, HandleAnew, TickRemote, TickFingerprint, TickCredential,
         StdinWrite, RefusedReturns, HandleClose, MachineClose, CloseWait, SendCompleted, HandleCompleted,
         HandleEof, Shutdown, clientVars, remoteVars
\* Only COMPLETED is written; of the slot and the Handler, what has been claimed of them before.
<1>1. CASE /\ UNCHANGED s2c
           /\ h' \in {"machineClose", "closeWait", "completed", "shutdownClose", "shutdownWait"} =>
                srv' = "closed"
           /\ srv' = "open" \/ h' \in {"machineClose", "closeWait", "completed"} =>
                srv = "open" \/ h \in {"machineClose", "closeWait", "completed"}
           /\ srv = "reused" => srv' = "reused"
  BY <1>0, <1>1 DEF IInv, Wired, Phased, Orderly, Sent
<1>2. CASE HandleControl \/ StdinWrite \/ RefusedReturns \/ HandleEof
  <2>1. UNCHANGED <<s2c, srv>> /\ (h' = h \/ h' \in {"loop", "shutdown"})
    BY <1>2 DEF HandleControl, StdinWrite, RefusedReturns, HandleEof, Fail
  <2> QED BY <1>1, <2>1 DEF IInv, Wired
<1>8. CASE HandleAnew
  <2>1. srv' = "reused" /\ h' \in {"loop", "shutdown"}
    BY <1>8 DEF HandleAnew, Take, Fail, handlerVars
  <2> QED BY <2>1 DEF Wired
<1>3. CASE HandleTick
  <2>1. UNCHANGED <<s2c, srv>> /\ h' \in {"loop", "writing", "refused", "shutdown"}
    BY <1>3 DEF HandleTick, Take, TickRemote, TickFingerprint, TickCredential, Fail, handlerVars
  <2> QED BY <1>1, <2>1
<1>4. CASE HandleClose \/ HandleCompleted
  <2>1. UNCHANGED s2c /\ h = "loop"
    BY <1>4 DEF HandleClose, HandleCompleted, Take
  <2> QED BY <1>1, <1>4, <2>1 DEF HandleClose, HandleCompleted, handlerVars
<1>5. CASE MachineClose \/ CloseWait
  BY <1>1, <1>5 DEF MachineClose, CloseWait, IInv, Wired
<1>6. CASE Shutdown
  BY <1>1, <1>6 DEF Shutdown, Gone
<1>7. CASE SendCompleted
  <2>1. h' = "loop" /\ srv' = "closed" /\ rem = "done" /\ Put("completed")
    BY <1>7 DEF SendCompleted, IInv, Wired, Ended
  <2>2. CASE ~link
    BY <1>0, <2>1, <2>2 DEF Wired
  <2>3. CASE link
    <3>1. s2c \in Seq(ServerFrames) /\ s2c' = Append(s2c, "completed")
      BY <2>1, <2>3 DEF Put, IInv, Typed, WireOK
    <3>2. Orderly(s2c, c) /\ c.active /\ ~Sent(s2c, "completed") /\ (c.shut \/ Sent(s2c, "close"))
      BY <1>7, <2>1, <2>3 DEF SendCompleted, IInv, Wired, Phased
    <3>3. Orderly(s2c', c')
      BY <1>0, <3>1, <3>2, AppendOrderly DEF Handshake, Output
    <3>4. Sent(s2c, "close") => Sent(s2c', "close")
      BY <3>1 DEF Sent
    <3> QED BY <1>0, <2>1, <3>2, <3>3, <3>4 DEF Wired, Phased, Before
  <2> QED BY <2>2, <2>3
<1> QED BY <1>2, <1>3, <1>4, <1>5, <1>6, <1>7, <1>8 DEF Handler

Serving == {"serving", "holding", "sessionWait", "errWait"}

\* A step of the goroutines that writes nothing and stays in its phase.
LEMMA WiredQuiet ==
  ASSUME IInv, UNCHANGED <<c, link, srv, h, s2c>>,
         rem' \in Before => rem \in Before,
         rem' \in Serving => rem \in Serving,
         rem' \in {"signalled", "done"} <=> rem \in {"signalled", "done"}
  PROVE  Wired'
BY DEF IInv, Wired, Phased, Orderly, Sent, Serving

\* A step that writes f, in the phase f belongs to.
LEMMA WiredWrite ==
  ASSUME IInv, UNCHANGED <<c, link, srv, h>>, NEW f \in ServerFrames \ {"completed", "started"}, Put(f),
         rem \notin {"signalled", "done"},
         rem' \in {"signalled", "done"} <=> f = "close",
         f \in Handshake => rem \in Before,
         f \in Output => rem \in Serving,
         link /\ rem' \in Before => rem \in Before /\ f # "succeed" /\ f \notin Output,
         link /\ rem' \in Serving => rem \in Serving \/ f = "succeed"
  PROVE  Wired'
<1>1. CASE ~link \/ srv = "reused"
  BY <1>1 DEF IInv, Wired
<1>2. CASE link /\ srv # "reused"
  <2>1. s2c \in Seq(ServerFrames) /\ s2c' = Append(s2c, f)
    BY <1>2 DEF Put, IInv, Typed, WireOK
  <2>2. Orderly(s2c, c) /\ Phased
    BY <1>2 DEF IInv, Wired
  <2>3. ~c.shut /\ ~Sent(s2c, "close")
    BY <2>2 DEF Phased
  <2>4. c.active /\ ~Sent(s2c, "completed")
    BY <2>2, <2>3 DEF Orderly, Sent
  <2>5. f \in Handshake => ~c.connected /\ ~Sent(s2c, "succeed")
    BY <2>2 DEF Phased, Sent
  <2>6. f \in Output => c.connected \/ Sent(s2c, "succeed")
    BY <2>2 DEF Phased, Serving
  <2>7. Orderly(s2c', c')
    BY <2>1, <2>2, <2>3, <2>4, <2>5, <2>6, AppendOrderly
  <2>8. \A g : Sent(s2c', g) <=> Sent(s2c, g) \/ g = f
    BY <2>1 DEF Sent
  <2>9. \A i \in 1 .. Len(s2c') : Sent(s2c, s2c'[i]) \/ s2c'[i] = f
    BY <2>8 DEF Sent
  <2>10. rem' \in Before =>
           ~c'.connected /\ \A i \in 1 .. Len(s2c') : s2c'[i] # "succeed" /\ s2c'[i] \notin Output
    BY <1>2, <2>2, <2>9 DEF Phased, Sent
  <2>11. rem' \in Serving => c'.connected \/ Sent(s2c', "succeed")
    BY <1>2, <2>2, <2>8 DEF Phased, Serving
  <2>12. /\ rem' \notin {"signalled", "done"} => ~c'.shut /\ ~Sent(s2c', "close")
         /\ rem' \in {"signalled", "done"} => c'.shut \/ Sent(s2c', "close")
    BY <2>3, <2>8
  <2>13. c'.active /\ ~Sent(s2c', "completed")
    BY <2>4, <2>8
  <2> QED BY <2>7, <2>10, <2>11, <2>12, <2>13 DEF Wired, Phased, Serving, IInv
<1> QED BY <1>1, <1>2

LEMMA WiredRemote == IInv /\ (Remote \/ Stderr) => Wired'
<1> SUFFICES ASSUME IInv, Remote \/ Stderr PROVE Wired'
  OBVIOUS
<1>0. UNCHANGED <<c, link, srv, h>>
  BY DEF Remote, Stderr, RemoteFrame, clientVars, handlerVars, RemoteHookOutput, RemoteHooksEnd,
         RemoteDial, AskFingerprint, FingerprintAnswered, Authenticate, AskCredential,
         CredentialAnswered, SessionSetup, RemoteFailed, RemoteDeliver, RemoteAnnounce, ReadStdout,
         WriteStdout, SessionWait, ErrOutWait, SignalClose, RemoteDone, ReadStderr, WriteStderr
<1> USE DEF Step, Before, Serving, remoteVars
<1>1. CASE \/ RemoteHooksEnd \/ RemoteDial \/ FingerprintAnswered \/ Authenticate \/ CredentialAnswered
           \/ SessionSetup \/ RemoteDeliver
  BY <1>0, <1>1, WiredQuiet DEF RemoteHooksEnd, RemoteDial, FingerprintAnswered, Authenticate,
     CredentialAnswered, SessionSetup, RemoteDeliver
<1>2. CASE ReadStdout \/ SessionWait \/ ErrOutWait \/ RemoteDone \/ ReadStderr
  BY <1>0, <1>2, WiredQuiet DEF ReadStdout, SessionWait, ErrOutWait, RemoteDone, ReadStderr
<1> USE WiredWrite DEF Write, ServerFrames, Handshake, Output
<1>3. CASE RemoteHookOutput
  BY <1>0, <1>3 DEF RemoteHookOutput
<1>4. CASE AskFingerprint
  BY <1>0, <1>4 DEF AskFingerprint
<1>5. CASE AskCredential
  BY <1>0, <1>5 DEF AskCredential
<1>6. CASE RemoteFailed
  BY <1>0, <1>6 DEF RemoteFailed
<1>7. CASE RemoteAnnounce
  BY <1>0, <1>7 DEF RemoteAnnounce
<1>8. CASE WriteStdout
  BY <1>0, <1>8 DEF WriteStdout
<1>9. CASE WriteStderr
  \* The stderr goroutine writes only while the session lasts.
  <2>1. rem \in Serving /\ rem' = rem
    BY <1>9 DEF WriteStderr, IInv, Ended
  <2> QED BY <1>0, <1>9, <2>1 DEF WriteStderr
<1>10. CASE SignalClose
  BY <1>0, <1>10 DEF SignalClose
<1> QED BY <1>1, <1>2, <1>3, <1>4, <1>5, <1>6, <1>7, <1>8, <1>9, <1>10 DEF Remote, Stderr

LEMMA WiredKept == IInv /\ [Next]_vars => Wired'
<1> SUFFICES ASSUME IInv, [Next]_vars PROVE Wired'
  OBVIOUS
<1>1. CASE User \/ Peer \/ UNCHANGED vars
  <2>1. UNCHANGED <<link, s2c, rem, srv, h>>
    BY <1>1 DEF User, AnswerFingerprint, AnswerCredential, UserInput, NextSegment, UserClose, Pause, Resume, Peer,
       PeerEcho, PeerOutput, PeerEnd, PeerFrame, BackendFrame, vars, wireVars, remoteVars, handlerVars
  <2>2. c' = c \/ c' = [c EXCEPT !.sclosed = TRUE]
    BY <1>1 DEF User, AnswerFingerprint, AnswerCredential, UserInput, NextSegment, UserClose, Pause, Resume, Peer,
       PeerEcho, PeerOutput, PeerEnd, PeerFrame, vars, clientVars
  <2> QED BY <2>1, <2>2, WiredFrame DEF IInv
<1> QED BY <1>1, WiredClient, WiredHandler, WiredRemote DEF Next

\* Every frame that reaches the browser is one it takes in the state it is then in:
\* none makes SSH.tick or the stream throw, which would reset all sessions.
THEOREM FramesAreAccepted == Spec => []NoFrameIsRefused
<1>1. Init => IInv
  BY InitTyped, EndedInit, WiredInit DEF IInv
<1>2. IInv /\ [Next]_vars => IInv'
  BY TypesKept, EndedKept, WiredKept DEF IInv
<1>3. IInv => NoFrameIsRefused
  BY HeadAccepted DEF IInv, Wired, NoFrameIsRefused, Live
<1> QED BY <1>1, <1>2, <1>3, PTL DEF Spec

----------------------------------------------------------------------------
(* Which frames of the browser end the Handler.                             *)

Ticks == {"stdin", "resize", "fpYes", "fpNo", "cred"}
FpAnswers == {"fpYes", "fpNo"}
Asking == {"hooks", "dialing", "hostkey", "fpWait", "auth", "askCred"}

Has(q, S) == \E i \in 1 .. Len(q) : q[i] \in S
Once(q, S) == \A i, j \in 1 .. Len(q) : q[i] \in S /\ q[j] \in S => i = j
Ordered(q) == \A i, j \in 1 .. Len(q) : i < j /\ q[i] = "close" => q[j] \notin Ticks

\* A question is at one place at a time: under way, in the prompt, or answered.
Single(x, A) ==
  /\ Once(s2c, {x}) /\ Once(c2s, A)
  /\ Has(s2c, {x}) => prompt # x /\ ~Has(c2s, A)
  /\ prompt = x => ~Has(c2s, A)
Pending(x, A) == Has(s2c, {x}) \/ prompt = x \/ Has(c2s, A)

\* Nothing is asked any more, and no answer is under way.
Settled ==
  /\ rem \notin Asking
  /\ ~Pending("fingerprint", FpAnswers) /\ ~Pending("credential", {"cred"})

\* While a question is pending the goroutine waits for its answer; once the browser
\* has closed there is none; input finds the connection.
Answerable ==
  /\ h \in {"loop", "writing", "refused", "machineClose", "closeWait", "completed"}
  /\ Single("fingerprint", FpAnswers) /\ Single("credential", {"cred"})
  /\ Pending("fingerprint", FpAnswers) => rem = "fpWait" /\ ~fpDone /\ fp = "none"
  /\ Pending("credential", {"cred"}) => rem = "credWait" /\ ~credDone /\ cred = "none"
  /\ rem \in {"hooks", "dialing", "hostkey"} => ~fpDone /\ fp = "none"
  /\ rem \in Asking => ~credDone /\ cred = "none"
  /\ link /\ c.sclosed => Settled
  /\ Has(c2s, {"close"}) \/ srv # "open" => c.sclosed /\ Settled
  /\ cut => srv # "open"
  /\ Has(c2s, {"stdin", "resize"}) \/ c.connected \/ Has(s2c, {"succeed"}) \/ rem = "announce"
       \/ segs.left > 0 => conn # "none"

\* Behind a CLOSE there is input only when a segment was late.
Early == Ordered(c2s) /\ (srv # "open" => ~Has(c2s, Ticks))

Harmless ==
  /\ HandlerErrorsExplained
  /\ herr # "none" => h \in {"shutdown", "shutdownClose", "shutdownWait", "done"}
  /\ srv = "reused" => segs.late
  /\ ~link => segs.left = 0 /\ prompt = "none"
  /\ herr = "none" /\ srv # "reused" => Answerable /\ (~segs.late => Early)

AllInv == IInv /\ Harmless

LEMMA AppendFacts ==
  ASSUME NEW T, NEW q \in Seq(T), NEW f
  PROVE  /\ \A S : Has(Append(q, f), S) <=> Has(q, S) \/ f \in S
         /\ \A S : Once(q, S) /\ (f \in S => ~Has(q, S)) => Once(Append(q, f), S)
         /\ Ordered(q) /\ (f \in Ticks => ~Has(q, {"close"})) => Ordered(Append(q, f))
<1>1. /\ Len(q) \in Nat /\ Len(Append(q, f)) = Len(q) + 1 /\ Append(q, f)[Len(q) + 1] = f
      /\ \A i \in 1 .. Len(q) : Append(q, f)[i] = q[i] /\ i \in 1 .. Len(Append(q, f))
      /\ \A i \in 1 .. Len(Append(q, f)) : i = Len(q) + 1 \/ i \in 1 .. Len(q)
      /\ Len(q) + 1 \in 1 .. Len(Append(q, f))
  OBVIOUS
<1>2. \A S : Has(Append(q, f), S) <=> Has(q, S) \/ f \in S
  BY <1>1 DEF Has
<1>3. \A S : Once(q, S) /\ (f \in S => ~Has(q, S)) => Once(Append(q, f), S)
  BY <1>1 DEF Has, Once
<1>4. Ordered(q) /\ (f \in Ticks => ~Has(q, {"close"})) => Ordered(Append(q, f))
  BY <1>1 DEF Has, Ordered
<1> QED BY <1>2, <1>3, <1>4

LEMMA TailFacts ==
  ASSUME NEW T, NEW q \in Seq(T), q # <<>>
  PROVE  /\ \A S : Has(Tail(q), S) => Has(q, S)
         /\ \A S : Head(q) \in S => Has(q, S)
         /\ \A S : Once(q, S) => Once(Tail(q), S)
         /\ \A S : Once(q, S) /\ Head(q) \in S => ~Has(Tail(q), S)
         /\ Ordered(q) => Ordered(Tail(q))
         /\ Ordered(q) /\ Head(q) = "close" => ~Has(Tail(q), Ticks)
<1>1. /\ Len(q) \in Nat /\ Len(q) > 0 /\ Head(q) = q[1] /\ 1 \in 1 .. Len(q)
      /\ Len(Tail(q)) = Len(q) - 1
      /\ \A i \in 1 .. Len(Tail(q)) : i + 1 \in 1 .. Len(q) /\ Tail(q)[i] = q[i + 1] /\ 1 < i + 1
  OBVIOUS
<1>2. \A S : Has(Tail(q), S) => Has(q, S)
  BY <1>1 DEF Has
<1>3. \A S : Head(q) \in S => Has(q, S)
  BY <1>1 DEF Has
<1>4. \A S : Once(q, S) => Once(Tail(q), S)
  BY <1>1 DEF Once
<1>5. \A S : Once(q, S) /\ Head(q) \in S => ~Has(Tail(q), S)
  BY <1>1 DEF Once, Has
<1>6. Ordered(q) => Ordered(Tail(q))
  BY <1>1 DEF Ordered
<1>7. Ordered(q) /\ Head(q) = "close" => ~Has(Tail(q), Ticks)
  BY <1>1 DEF Ordered, Has
<1> QED BY <1>2, <1>3, <1>4, <1>5, <1>6, <1>7

\* What the stream's close adds to the queue is no input.
LEMMA ClosingFacts ==
  ASSUME NEW q \in Seq(ClientFrames), NEW r \in {<<"completed">>, <<"close", "completed">>}
  PROVE  /\ \A S \in SUBSET Ticks : Has(q \o r, S) <=> Has(q, S)
         /\ \A S \in SUBSET Ticks : Once(q, S) => Once(q \o r, S)
         /\ Ordered(q) => Ordered(q \o r)
<1>1. r \in Seq(ClientFrames) /\ Len(r) \in Nat /\ \A i \in 1 .. Len(r) : r[i] \in {"close", "completed"}
  <2>1. CASE r = <<"completed">>
    BY <2>1 DEF ClientFrames
  <2>2. CASE r = <<"close", "completed">>
    BY <2>2 DEF ClientFrames
  <2> QED BY <2>1, <2>2
<1>2. /\ Len(q) \in Nat /\ Len(q \o r) = Len(q) + Len(r)
      /\ \A i \in 1 .. Len(q) : (q \o r)[i] = q[i] /\ i \in 1 .. Len(q \o r)
      /\ \A i \in 1 .. Len(q \o r) : i \notin 1 .. Len(q) => (q \o r)[i] = r[i - Len(q)] /\ i - Len(q) \in 1 .. Len(r)
  BY <1>1
<1>3. \A i \in 1 .. Len(q \o r) : i \in 1 .. Len(q) \/ (q \o r)[i] \notin Ticks
  BY <1>1, <1>2 DEF Ticks
<1>4. \A S \in SUBSET Ticks : Has(q \o r, S) <=> Has(q, S)
  BY <1>2, <1>3 DEF Has
<1>5. \A S \in SUBSET Ticks : Once(q, S) => Once(q \o r, S)
  BY <1>2, <1>3 DEF Once
<1>6. Ordered(q) => Ordered(q \o r)
  <2> SUFFICES ASSUME Ordered(q), NEW i \in 1 .. Len(q \o r), NEW j \in 1 .. Len(q \o r),
                      i < j, (q \o r)[i] = "close", (q \o r)[j] \in Ticks
               PROVE  FALSE
    BY DEF Ordered
  <2>1. j \in 1 .. Len(q)
    BY <1>3
  <2>2. i \in 1 .. Len(q)
    BY <1>2, <2>1
  <2> QED BY <1>2, <2>1, <2>2 DEF Ordered
<1> QED BY <1>4, <1>5, <1>6

\* What is left of a queue when its end is lost.
LEMMA PrefixFacts ==
  ASSUME NEW T, NEW q \in Seq(T), NEW n \in 0 .. Len(q), NEW p, p = SubSeq(q, 1, n)
  PROVE  /\ \A S : Has(p, S) => Has(q, S)
         /\ \A S : Once(q, S) => Once(p, S)
         /\ Ordered(q) => Ordered(p)
<1>1. Len(p) = n /\ \A i \in 1 .. n : p[i] = q[i] /\ i \in 1 .. Len(q)
  BY PrefixTyped
<1> QED BY <1>1 DEF Has, Once, Ordered

LEMMA HarmlessInit == Init => Harmless
BY DEF Init, Harmless, HandlerErrorsExplained, Answerable, Settled, Early, Single, Pending, Has, Once,
       Ordered, Asking, FpAnswers, Ticks

\* The rest of the system does not touch it.
LEMMA HarmlessFrame ==
  Harmless /\ UNCHANGED <<link, c, segs, c2s, s2c, prompt, h, herr, rem, fp, cred, fpDone, credDone, cut, srv,
                         conn>>
    => Harmless'
BY DEF Harmless, HandlerErrorsExplained, Answerable, Settled, Early, Single, Pending, Has, Once, Ordered

\* Once the Handler is ending, or the slot is another command's, only what has been
\* claimed of the Handler and of late segments matters.
Over == herr # "none" \/ srv = "reused"

LEMMA HarmlessOver ==
  ASSUME Harmless, Over, UNCHANGED <<h, herr, srv>>, segs.late => segs'.late,
         ~link' => segs'.left = 0 /\ prompt' = "none"
  PROVE  Harmless'
BY DEF Harmless, Over, HandlerErrorsExplained

LEMMA HarmlessRunning ==
  ASSUME Harmless, ~Over, Answerable', ~segs'.late => Early', UNCHANGED <<herr, srv>>,
         ~link' => segs'.left = 0 /\ prompt' = "none"
  PROVE  Harmless'
BY DEF Harmless, Over, HandlerErrorsExplained

LEMMA HarmlessUser == AllInv /\ User => Harmless'
<1> SUFFICES ASSUME AllInv, User PROVE Harmless'
  OBVIOUS
<1>0. /\ link /\ UNCHANGED <<link, s2c, h, herr, rem, fp, cred, fpDone, credDone, cut, srv, conn>>
  BY DEF User, AnswerFingerprint, AnswerCredential, UserInput, NextSegment, UserClose, Pause, Resume, Live,
         BackendFrame, handlerVars, answerVars, remoteVars
<1>t. c2s \in Seq(ClientFrames) /\ segs \in [left : Nat, late : BOOLEAN]
      /\ c \in [active : BOOLEAN, connected : BOOLEAN, sclosed : BOOLEAN, shut : BOOLEAN]
  BY DEF AllInv, IInv, Typed, ClientOK, WireOK
<1>s. segs.late => segs'.late
  <2>1. \/ segs' = segs \/ \E n \in 1 .. MaxSegs : segs' = [segs EXCEPT !.left = n - 1]
        \/ segs' = [left |-> segs.left - 1, late |-> segs.late \/ c.sclosed]
    BY DEF User, AnswerFingerprint, AnswerCredential, UserInput, NextSegment, UserClose, Pause, Resume,
       clientVars
  <2> QED BY <1>t, <2>1
<1>o. CASE Over
  BY <1>0, <1>s, <1>o, HarmlessOver DEF AllInv
<1>r. CASE ~Over
  <2>1. Answerable /\ (~segs.late => Early) /\ Harmless
    BY <1>r DEF AllInv, Harmless, Over
  <2>2. \A f : c2s' = Append(c2s, f) =>
          /\ \A S : Has(c2s', S) <=> Has(c2s, S) \/ f \in S
          /\ \A S : Once(c2s, S) /\ (f \in S => ~Has(c2s, S)) => Once(c2s', S)
          /\ Ordered(c2s) /\ (f \in Ticks => ~Has(c2s, {"close"})) => Ordered(c2s')
    BY <1>t, AppendFacts
  <2>g. ASSUME Answerable', ~segs'.late => Early' PROVE Harmless'
    BY <1>0, <1>r, <2>1, <2>g, HarmlessRunning
  <2> USE <1>0, <2>1, <2>2 DEF Send, Answerable, Settled, Early, Single, Pending, FpAnswers, Asking, Ticks
  <2>3. CASE AnswerFingerprint
    <3>1. prompt = "fingerprint" /\ prompt' = "none" /\ UNCHANGED <<c, segs>>
      BY <2>3 DEF AnswerFingerprint
    <3>2. PICK f \in {"fpYes", "fpNo"} : c2s' = Append(c2s, f)
      BY <2>3 DEF AnswerFingerprint
    <3>3. Answerable'
      BY <3>1, <3>2
    <3>4. ~segs'.late => Early'
      BY <3>1, <3>2
    <3> QED BY <2>g, <3>3, <3>4
  <2>4. CASE AnswerCredential
    <3>1. prompt = "credential" /\ prompt' = "none" /\ UNCHANGED segs
      BY <2>4 DEF AnswerCredential
    <3>2. ~c.sclosed => srv = "open" /\ ~Has(c2s, {"close"})
      OBVIOUS
    <3>3. rem = "credWait" /\ ~c.sclosed
      BY <3>1
    <3>4. CASE c2s' = Append(c2s, "cred") /\ UNCHANGED c
      <4>1. Answerable'
        BY <3>1, <3>3, <3>4
      <4>2. ~segs'.late => Early'
        BY <3>1, <3>2, <3>3, <3>4
      <4> QED BY <2>g, <4>1, <4>2
    <3>5. CASE c2s' = Append(c2s, "close") /\ c' = [c EXCEPT !.sclosed = TRUE]
      <4>0. c'.sclosed /\ c'.connected = c.connected
        BY <1>t, <3>5
      <4>1. Answerable'
        BY <3>1, <3>3, <3>5, <4>0
      <4>2. ~segs'.late => Early'
        BY <3>1, <3>2, <3>3, <3>5
      <4> QED BY <2>g, <4>1, <4>2
    <3> QED BY <2>4, <3>4, <3>5 DEF AnswerCredential
  <2>5. CASE UserInput
    <3>1. ~c.sclosed /\ c.connected /\ UNCHANGED <<c, prompt>> /\ segs'.late = segs.late
      <4>1. segs' = segs \/ \E n \in 1 .. MaxSegs : segs' = [segs EXCEPT !.left = n - 1]
        BY <2>5 DEF UserInput
      <4> QED BY <1>t, <2>5, <4>1 DEF UserInput
    <3>2. PICK f \in {"stdin", "resize"} : c2s' = Append(c2s, f)
      BY <2>5 DEF UserInput
    <3>3. Answerable'
      BY <3>1, <3>2
    <3>4. ~segs'.late => Early'
      BY <3>1, <3>2
    <3> QED BY <2>g, <3>3, <3>4
  <2>8. CASE NextSegment
    <3>1. /\ UNCHANGED <<c, prompt>> /\ segs.left > 0 /\ c2s' = Append(c2s, "stdin")
          /\ segs'.late = (segs.late \/ c.sclosed)
      BY <1>t, <2>8 DEF NextSegment
    <3>2. Answerable'
      BY <3>1
    <3>3. ~segs'.late => Early'
      BY <1>t, <3>1
    <3> QED BY <2>g, <3>2, <3>3
  <2>6. CASE UserClose
    \* The console is there only when the session is.
    <3>1. rem \notin Before
      BY <1>r, <2>6 DEF UserClose, Over, AllInv, IInv, Wired, Phased
    <3>2. rem \notin Asking /\ rem # "credWait"
      BY <3>1 DEF Before
    <3>3. /\ c'.sclosed /\ c'.connected = c.connected /\ ~c.sclosed /\ UNCHANGED <<prompt, segs>>
          /\ c2s' = Append(c2s, "close")
      BY <1>t, <2>6 DEF UserClose
    <3>4. Answerable'
      BY <3>2, <3>3
    <3>5. ~segs'.late => Early'
      BY <3>3
    <3> QED BY <2>g, <3>4, <3>5
  <2>7. CASE Pause \/ Resume
    <3>1. UNCHANGED <<c, prompt, segs>>
      BY <2>7 DEF Pause, Resume, clientVars
    <3>2. PICK f \in {"pause", "resume"} : c2s' = Append(c2s, f)
      BY <2>7 DEF Pause, Resume
    <3>3. Answerable'
      BY <3>1, <3>2
    <3>4. ~segs'.late => Early'
      BY <3>1, <3>2
    <3> QED BY <2>g, <3>3, <3>4
  <2> QED BY <2>3, <2>4, <2>5, <2>6, <2>7, <2>8 DEF User
<1> QED BY <1>o, <1>r

LEMMA HarmlessClient == AllInv /\ (ClientTick \/ ClientEof \/ LinkBreak) => Harmless'
<1> SUFFICES ASSUME AllInv, ClientTick \/ ClientEof \/ LinkBreak PROVE Harmless'
  OBVIOUS
<1>0. link /\ UNCHANGED <<h, herr, rem, fp, cred, fpDone, credDone, cut, srv, conn>>
  BY DEF ClientTick, ClientEof, LinkBreak, Cleared, ClientShows, ClientAsked, ClientClosed, ClientThrows,
         Live, BackendFrame, handlerVars, answerVars, remoteVars
<1>t. /\ c2s \in Seq(ClientFrames) /\ s2c \in Seq(ServerFrames) /\ segs \in [left : Nat, late : BOOLEAN]
      /\ c \in [active : BOOLEAN, connected : BOOLEAN, sclosed : BOOLEAN, shut : BOOLEAN]
  BY DEF AllInv, IInv, Typed, ClientOK, WireOK
\* Either the connection is over for the browser, or it goes on with the same loop.
<1>s. \/ Cleared /\ segs'.late = segs.late /\ segs'.left = 0 /\ prompt' = "none" /\ c'.sclosed
         /\ ~c'.connected /\ ~link'
      \/ UNCHANGED <<segs, link>>
  <2>1. Cleared \/ UNCHANGED <<segs, link>>
    BY DEF ClientTick, ClientEof, LinkBreak, ClientShows, ClientAsked, ClientClosed, ClientThrows,
           BackendFrame
  <2> QED BY <1>t, <2>1 DEF Cleared
<1>o. CASE Over
  BY <1>0, <1>s, <1>o, HarmlessOver DEF AllInv, Harmless
<1>r. CASE ~Over
  <2>1. Answerable /\ (~segs.late => Early) /\ Harmless
    BY <1>r DEF AllInv, Harmless, Over
  <2>g. ASSUME Answerable', ~segs'.late => Early' PROVE Harmless'
    BY <1>0, <1>r, <1>s, <2>1, <2>g, HarmlessRunning DEF Harmless
  <2>2. CASE LinkBreak \/ ClientEof
    <3>1. /\ Cleared /\ (s2c' = s2c \/ s2c' = <<>>)
          /\ c2s' = c2s \/ \E n \in 0 .. Len(c2s) : c2s' = SubSeq(c2s, 1, n)
      BY <2>2 DEF LinkBreak, ClientEof
    <3>2. /\ \A S : Has(c2s', S) => Has(c2s, S)
          /\ \A S : Once(c2s, S) => Once(c2s', S)
          /\ Ordered(c2s) => Ordered(c2s')
      <4>1. CASE c2s' = c2s
        BY <4>1
      <4>2. CASE \E n \in 0 .. Len(c2s) : c2s' = SubSeq(c2s, 1, n)
        BY <1>t, <4>2, PrefixFacts
      <4> QED BY <3>1, <4>1, <4>2
    <3>3. (\A S : Has(s2c', S) => Has(s2c, S)) /\ \A S : Once(s2c, S) => Once(s2c', S)
      BY <3>1 DEF Has, Once
    <3>s. segs'.late = segs.late /\ segs'.left = 0 /\ prompt' = "none" /\ c'.sclosed /\ ~c'.connected /\ ~link'
      BY <1>t, <3>1 DEF Cleared
    <3>4. Answerable'
      BY <1>0, <2>1, <3>2, <3>3, <3>s DEF Answerable, Settled, Single, Pending
    <3>5. ~segs'.late => Early'
      BY <1>0, <2>1, <3>2, <3>s DEF Early
    <3> QED BY <2>g, <3>4, <3>5
  <2>3. CASE ClientTick
    <3>1. Live /\ s2c # <<>> /\ s2c' = Tail(s2c)
      BY <2>3 DEF ClientTick
    \* A frame that is refused would end the connection.
    <3>2. Acceptable(Head(s2c))
      BY <1>r, <3>1, HeadAccepted DEF AllInv, IInv, Wired, Live, Over
    <3>3. (ClientShows \/ ClientAsked \/ ClientClosed) /\ link' = link /\ UNCHANGED segs
      BY <2>3, <3>1, <3>2 DEF ClientTick, Live, ClientShows, ClientAsked, ClientClosed, BackendFrame
    <3>4. Phased
      BY <1>0, <1>r DEF AllInv, IInv, Wired, Over
    <3>5. /\ \A S : Has(s2c', S) => Has(s2c, S)
          /\ \A S : Head(s2c) \in S => Has(s2c, S)
          /\ \A S : Once(s2c, S) => Once(s2c', S)
          /\ \A S : Once(s2c, S) /\ Head(s2c) \in S => ~Has(s2c', S)
      BY <1>t, <3>1, TailFacts
    <3>6. \A f : c2s' = Append(c2s, f) =>
            /\ \A S : Has(c2s', S) <=> Has(c2s, S) \/ f \in S
            /\ \A S : Once(c2s, S) /\ (f \in S => ~Has(c2s, S)) => Once(c2s', S)
            /\ Ordered(c2s) /\ (f \in Ticks => ~Has(c2s, {"close"})) => Ordered(c2s')
      BY <1>t, AppendFacts
    <3> USE <1>0, <2>1, <3>3, <3>5, <3>6 DEF Send, Answerable, Settled, Early, Single, Pending, FpAnswers, Asking, Ticks
    <3>7. CASE ClientShows
      <4>1. /\ c'.sclosed = c.sclosed /\ (c'.connected => c.connected \/ Head(s2c) = "succeed")
            /\ UNCHANGED <<prompt, c2s>>
        BY <1>t, <3>7 DEF ClientShows
      <4>2. Answerable'
        BY <4>1
      <4>3. ~segs'.late => Early'
        BY <4>1
      <4> QED BY <2>g, <4>2, <4>3
    <3>8. CASE ClientAsked /\ Head(s2c) = "fingerprint"
      <4>1. UNCHANGED c /\ \/ UNCHANGED prompt /\ c2s' = Append(c2s, "fpYes")
                           \/ prompt' = "fingerprint" /\ UNCHANGED c2s
        BY <3>8 DEF ClientAsked
      <4>2. Answerable'
        BY <3>8, <4>1
      <4>3. ~segs'.late => Early'
        BY <3>8, <4>1
      <4> QED BY <2>g, <4>2, <4>3
    <3>9. CASE ClientAsked /\ Head(s2c) = "credential"
      <4>1. UNCHANGED c /\ \/ UNCHANGED prompt /\ c2s' = Append(c2s, "cred")
                           \/ prompt' = "credential" /\ UNCHANGED c2s
        BY <3>9 DEF ClientAsked
      <4>2. Answerable'
        BY <3>9, <4>1
      <4>3. ~segs'.late => Early'
        BY <3>9, <4>1
      <4> QED BY <2>g, <4>2, <4>3
    <3>10. CASE ClientClosed /\ Head(s2c) = "close"
      \* The goroutine is past everything it asks.
      <4>1. rem \in {"signalled", "done"}
        BY <1>t, <3>1, <3>4, <3>10, SentHead DEF Phased
      <4>2. c'.sclosed /\ c'.connected = c.connected /\ UNCHANGED prompt
        BY <1>t, <3>10 DEF ClientClosed
      <4>3. PICK r \in {<<"completed">>, <<"close", "completed">>} : c2s' = c2s \o r
        BY <3>10 DEF ClientClosed
      <4>4. /\ Has(c2s', FpAnswers) <=> Has(c2s, FpAnswers)
            /\ Has(c2s', {"cred"}) <=> Has(c2s, {"cred"})
            /\ Has(c2s', {"stdin", "resize"}) <=> Has(c2s, {"stdin", "resize"})
            /\ Has(c2s', Ticks) <=> Has(c2s, Ticks)
            /\ Once(c2s, FpAnswers) => Once(c2s', FpAnswers)
            /\ Once(c2s, {"cred"}) => Once(c2s', {"cred"})
            /\ Ordered(c2s) => Ordered(c2s')
        <5>1. /\ \A S \in SUBSET Ticks : Has(c2s', S) <=> Has(c2s, S)
              /\ \A S \in SUBSET Ticks : Once(c2s, S) => Once(c2s', S)
              /\ Ordered(c2s) => Ordered(c2s')
          BY <1>t, <4>3, ClosingFacts
        <5>2. /\ FpAnswers \in SUBSET Ticks /\ {"cred"} \in SUBSET Ticks
              /\ {"stdin", "resize"} \in SUBSET Ticks /\ Ticks \in SUBSET Ticks
          OBVIOUS
        <5> QED BY <5>1, <5>2
      <4>5. Answerable'
        BY <4>1, <4>2, <4>4
      <4>6. ~segs'.late => Early'
        BY <4>4
      <4> QED BY <2>g, <4>5, <4>6
    <3>11. CASE ClientClosed /\ Head(s2c) = "completed"
      <4>1. UNCHANGED <<prompt, c2s>> /\ c'.sclosed = c.sclosed /\ c'.connected = c.connected
        BY <1>t, <3>11 DEF ClientClosed
      <4>2. Answerable'
        BY <4>1
      <4>3. ~segs'.late => Early'
        BY <4>1
      <4> QED BY <2>g, <4>2, <4>3
    <3> QED BY <3>7, <3>8, <3>9, <3>10, <3>11 DEF ClientAsked, ClientClosed
  <2> QED BY <2>2, <2>3
<1> QED BY <1>o, <1>r

LEMMA HarmlessRemote == AllInv /\ (Remote \/ Stderr) => Harmless'
<1> SUFFICES ASSUME AllInv, Remote \/ Stderr PROVE Harmless'
  OBVIOUS
<1>0. UNCHANGED <<c, segs, prompt, c2s, link, h, herr, srv, fpDone, credDone, cut>>
  BY DEF Remote, Stderr, RemoteFrame, clientVars, handlerVars, answerVars, RemoteHookOutput, RemoteHooksEnd,
         RemoteDial, AskFingerprint, FingerprintAnswered, Authenticate, AskCredential,
         CredentialAnswered, SessionSetup, RemoteFailed, RemoteDeliver, RemoteAnnounce, ReadStdout,
         WriteStdout, SessionWait, ErrOutWait, SignalClose, RemoteDone, ReadStderr, WriteStderr
<1>1. CASE Over
  BY <1>0, <1>1, HarmlessOver DEF AllInv, Harmless
<1>2. CASE ~Over
  <2>1. Answerable /\ Harmless /\ s2c \in Seq(ServerFrames)
    BY <1>2 DEF AllInv, Harmless, Over, IInv, Typed, WireOK
  <2>2. \A f : Put(f) =>
          /\ \A S : Has(s2c', S) => Has(s2c, S) \/ f \in S
          /\ \A S : Once(s2c, S) /\ (f \in S => ~Has(s2c, S)) => Once(s2c', S)
    BY <2>1, AppendFacts DEF Put
  <2>3. UNCHANGED s2c => \A S : (Has(s2c', S) <=> Has(s2c, S)) /\ (Once(s2c, S) => Once(s2c', S))
    OBVIOUS
  <2>e. (~segs.late => Early) => (~segs'.late => Early')
    BY <1>0 DEF Early, Ordered, Has
  <2>g. ASSUME Answerable' PROVE Harmless'
    BY <1>0, <1>2, <2>1, <2>e, <2>g, HarmlessRunning DEF Harmless, Over
  <2>s. SUFFICES Answerable'
    BY <2>g
  <2> USE <1>0, <2>1, <2>2, <2>3 DEF Step, Write, Answerable, Settled, Single, Pending, FpAnswers,
          Asking, answerVars, remoteVars
  <2>4. CASE RemoteHookOutput \/ RemoteHooksEnd \/ RemoteDial
    BY <2>4 DEF RemoteHookOutput, RemoteHooksEnd, RemoteDial
  <2>5. CASE AskFingerprint
    BY <2>5 DEF AskFingerprint
  <2>6. CASE FingerprintAnswered
    BY <2>6 DEF FingerprintAnswered
  <2>7. CASE Authenticate
    BY <2>7 DEF Authenticate
  <2>8. CASE AskCredential
    BY <2>8 DEF AskCredential
  <2>9. CASE CredentialAnswered
    BY <2>9 DEF CredentialAnswered
  <2>10. CASE SessionSetup \/ RemoteFailed \/ RemoteDeliver
    BY <2>10 DEF SessionSetup, RemoteFailed, RemoteDeliver, Deliver
  <2>11. CASE RemoteAnnounce
    BY <2>11 DEF RemoteAnnounce
  <2>12. CASE ReadStdout \/ WriteStdout \/ ReadStderr \/ WriteStderr
    BY <2>12 DEF ReadStdout, WriteStdout, ReadStderr, WriteStderr
  <2>13. CASE SessionWait \/ ErrOutWait \/ SignalClose \/ RemoteDone
    BY <2>13 DEF SessionWait, ErrOutWait, SignalClose, RemoteDone
  <2> QED BY <2>4, <2>5, <2>6, <2>7, <2>8, <2>9, <2>10, <2>11, <2>12, <2>13 DEF Remote, Stderr
<1> QED BY <1>1, <1>2

\* What the Handler takes off the queue.
LEMMA TakeFacts ==
  ASSUME Typed, NEW f, Take(f)
  PROVE  /\ h = "loop" /\ c2s' # c2s /\ c2s # <<>> /\ Head(c2s) = f
         /\ \A S : Has(c2s', S) => Has(c2s, S)
         /\ \A S : f \in S => Has(c2s, S)
         /\ \A S : Once(c2s, S) => Once(c2s', S)
         /\ \A S : Once(c2s, S) /\ f \in S => ~Has(c2s', S)
         /\ Ordered(c2s) => Ordered(c2s')
         /\ Ordered(c2s) /\ f = "close" => ~Has(c2s', Ticks)
<1>1. c2s \in Seq(ClientFrames) /\ c2s # <<>> /\ Head(c2s) = f /\ c2s' = Tail(c2s) /\ h = "loop"
  BY DEF Typed, WireOK, Take
<1>2. Len(c2s') # Len(c2s)
  BY <1>1
<1> QED BY <1>1, <1>2, TailFacts

LEMMA HarmlessHandler == AllInv /\ Handler => Harmless'
<1> SUFFICES ASSUME AllInv, Handler PROVE Harmless'
  OBVIOUS
<1>0. UNCHANGED <<c, segs, prompt, link, rem>>
  BY DEF Handler, HandlerFrame, HandleControl, HandleTick, HandleAnew, TickRemote, TickFingerprint,
         TickCredential, StdinWrite, RefusedReturns, HandleClose, MachineClose, CloseWait, SendCompleted,
         HandleCompleted, HandleEof, Shutdown, clientVars, remoteVars
<1>h. Harmless /\ Typed /\ Wired /\ (~link => segs.left = 0 /\ prompt = "none")
  BY DEF AllInv, IInv, Harmless
\* The Handler is ending: it closes what runs, and meets no other error.
<1>1. CASE herr # "none"
  <2>1. h \in {"shutdown", "shutdownClose", "shutdownWait", "done"}
    BY <1>1, <1>h DEF Harmless
  <2>2. MachineClose \/ CloseWait \/ Shutdown
    BY <2>1 DEF Handler, HandleControl, HandleTick, HandleAnew, StdinWrite, RefusedReturns, HandleClose,
       SendCompleted, HandleCompleted, HandleEof, Take
  <2>3. /\ UNCHANGED herr /\ h' \in {"shutdown", "shutdownClose", "shutdownWait", "done"}
        /\ srv' = "reused" => srv = "reused"
    BY <2>1, <2>2 DEF MachineClose, CloseWait, Shutdown, Gone
  <2> QED BY <1>0, <1>1, <1>h, <2>3 DEF Harmless, HandlerErrorsExplained
\* The slot is another command's: its requests come of late segments.
<1>2. CASE herr = "none" /\ srv = "reused"
  <2>1. segs.late /\ h \notin {"machineClose", "closeWait", "completed", "shutdownClose", "shutdownWait"}
    BY <1>2, <1>h DEF Harmless, Wired
  <2>2. srv' = "reused"
    BY <1>2, <2>1 DEF Handler, HandleControl, HandleTick, HandleAnew, StdinWrite, RefusedReturns, HandleClose,
       MachineClose, CloseWait, SendCompleted, HandleCompleted, HandleEof, Shutdown, Gone, handlerVars
  <2>3. herr' = "none" \/ (herr' \in {"eof", "garbage"} /\ h' = "shutdown")
    <3>1. ~HandleTick
      BY <1>2 DEF HandleTick, Booted
    <3>2. HandleAnew \/ HandleEof => herr' = "none" \/ (herr' \in {"eof", "garbage"} /\ h' = "shutdown")
      BY <1>2 DEF HandleAnew, HandleEof, Fail, handlerVars
    <3>3. ~HandleTick /\ ~HandleAnew /\ ~HandleEof => UNCHANGED herr
      BY DEF Handler, HandleControl, StdinWrite, RefusedReturns, HandleClose, MachineClose, CloseWait,
         SendCompleted, HandleCompleted, Shutdown, handlerVars
    <3> QED BY <1>2, <3>1, <3>2, <3>3
  <2> QED BY <1>0, <1>h, <2>1, <2>2, <2>3 DEF Harmless, HandlerErrorsExplained
<1>3. CASE ~Over
  <2>1. Answerable /\ (~segs.late => Early) /\ s2c \in Seq(ServerFrames)
    BY <1>3, <1>h DEF Harmless, Over, Typed, WireOK
  <2>g. ASSUME Answerable', ~segs.late => Early', UNCHANGED herr, srv' # "reused" PROVE Harmless'
    BY <1>0, <1>3, <1>h, <2>g DEF Harmless, Over, HandlerErrorsExplained
  \* An error of the Handler, explained.
  <2>x. ASSUME h' = "shutdown", herr' = "eof" \/ (herr' \in {"machineClosed", "garbage"} /\ segs.late),
               srv' = "reused" => segs.late
        PROVE  Harmless'
    BY <1>0, <1>h, <2>x DEF Harmless, HandlerErrorsExplained
  <2>n. srv # "reused" /\ herr = "none"
    BY <1>3 DEF Over
  <2>a. UNCHANGED <<c2s, srv>> => (~segs.late => Early')
    BY <2>1 DEF Early
  <2>b. UNCHANGED s2c => \A S : (Has(s2c', S) <=> Has(s2c, S)) /\ (Once(s2c, S) => Once(s2c', S))
    OBVIOUS
  <2>c. UNCHANGED c2s => \A S : (Has(c2s', S) <=> Has(c2s, S)) /\ (Once(c2s, S) => Once(c2s', S))
    OBVIOUS
  <2> USE <1>0, <2>1, <2>n, <2>b, <2>c DEF Answerable, Settled, Single, Pending, FpAnswers, Asking, remoteVars,
          answerVars, handlerVars
  <2>2. CASE HandleControl
    <3>1. Take("pause") \/ Take("resume")
      BY <2>2 DEF HandleControl
    <3>2. UNCHANGED <<s2c, h, herr, srv, fp, cred, fpDone, credDone, cut, conn>>
      BY <2>2 DEF HandleControl
    <3>3. Answerable'
      BY <1>h, <3>1, <3>2, TakeFacts
    <3>4. ~segs.late => Early'
      BY <1>h, <3>1, <3>2, TakeFacts DEF Early
    <3> QED BY <2>g, <3>2, <3>3, <3>4
  <2>3. CASE HandleTick
    <3>1. PICK f \in Ticks : Take(f)
      BY <2>3 DEF HandleTick, Ticks
    <3>2. UNCHANGED <<s2c, srv>> /\ Head(c2s) = f
      BY <1>h, <2>3, <3>1, TakeFacts DEF HandleTick
    <3>e. ~segs.late => Early'
      BY <1>h, <3>1, <3>2, TakeFacts DEF Early
    <3>c. CASE srv # "open"
      <4>1. Has(c2s, Ticks)
        BY <1>h, <3>1, TakeFacts
      <4>2. segs.late /\ herr' = "machineClosed" /\ h' = "shutdown"
        BY <2>3, <3>c, <4>1 DEF HandleTick, Fail, Early
      <4> QED BY <2>x, <3>2, <4>2
    <3>3. CASE srv = "open" /\ TickRemote
      <4>1. f \in {"stdin", "resize"}
        BY <3>2, <3>3 DEF TickRemote
      <4>2. conn # "none"
        BY <1>h, <3>1, <4>1, TakeFacts
      <4>3. conn' = "taken" /\ h' \in {"writing", "loop"} /\ UNCHANGED <<herr, answerVars>>
        BY <3>3, <4>2 DEF TickRemote
      <4>4. Answerable'
        BY <1>h, <3>1, <3>2, <4>1, <4>3, TakeFacts
      <4> QED BY <2>g, <3>2, <3>e, <4>3, <4>4
    <3>4. CASE srv = "open" /\ TickFingerprint
      <4>1. f \in {"fpYes", "fpNo"}
        BY <3>2, <3>4 DEF TickFingerprint
      <4>2. ~fpDone /\ rem = "fpWait"
        BY <1>h, <3>1, <4>1, TakeFacts
      <4>3. h' \in {"refused", "loop"} /\ UNCHANGED <<herr, cred, credDone, cut, conn>>
        BY <3>4, <4>2 DEF TickFingerprint
      <4>4. Answerable'
        BY <1>h, <3>1, <3>2, <4>1, <4>2, <4>3, TakeFacts
      <4> QED BY <2>g, <3>2, <3>e, <4>3, <4>4
    <3>5. CASE srv = "open" /\ TickCredential
      <4>1. f = "cred"
        BY <3>2, <3>5 DEF TickCredential
      <4>2. ~credDone /\ rem = "credWait"
        BY <1>h, <3>1, <4>1, TakeFacts
      <4>3. UNCHANGED <<h, herr, fp, fpDone, cut, conn>>
        BY <3>5, <4>2 DEF TickCredential
      <4>4. Answerable'
        BY <1>h, <3>1, <3>2, <4>1, <4>2, <4>3, TakeFacts
      <4> QED BY <2>g, <3>2, <3>e, <4>3, <4>4
    <3> QED BY <2>3, <3>c, <3>3, <3>4, <3>5 DEF HandleTick
  <2>11. CASE HandleAnew
    <3>1. Take("stdin") /\ srv' = "reused" /\ srv # "open"
      BY <2>11 DEF HandleAnew, Booted
    <3>2. Has(c2s, Ticks)
      BY <1>h, <3>1, TakeFacts DEF Ticks
    <3>3. segs.late
      BY <3>1, <3>2 DEF Early
    <3>4. CASE UNCHANGED handlerVars
      BY <1>h, <3>1, <3>3, <3>4 DEF Harmless, HandlerErrorsExplained
    <3>5. CASE Fail("garbage")
      BY <2>x, <3>1, <3>3, <3>5 DEF Fail
    <3> QED BY <2>11, <3>4, <3>5 DEF HandleAnew
  <2>4. CASE StdinWrite \/ RefusedReturns \/ MachineClose
    <3>1. /\ UNCHANGED <<c2s, s2c, herr, srv, answerVars>> /\ (conn' = "none" => conn = "none")
          /\ h' \in {"loop", "closeWait"}
      BY <2>4 DEF StdinWrite, RefusedReturns, MachineClose, CloseRemote, Closer
    <3>2. Answerable'
      BY <3>1
    <3> QED BY <2>g, <2>a, <3>1, <3>2
  <2>5. CASE HandleClose
    <3>1. Take("close") /\ UNCHANGED <<s2c, herr, fp, cred, conn>> /\ srv' \notin {"open", "reused"}
          /\ h' \in {"loop", "machineClose"}
      BY <2>5 DEF HandleClose, Take
    <3>2. c.sclosed /\ Settled /\ (Ordered(c2s) => ~Has(c2s', Ticks) /\ Ordered(c2s'))
      BY <1>h, <3>1, TakeFacts
    <3>3. Answerable'
      BY <1>h, <3>1, <3>2, TakeFacts
    <3>4. ~segs.late => Early'
      BY <3>2 DEF Early
    <3> QED BY <2>g, <3>1, <3>3, <3>4
  <2>6. CASE CloseWait
    <3>1. UNCHANGED <<c2s, s2c, herr, answerVars, conn>> /\ h' = "completed" /\ UNCHANGED srv
      BY <2>6 DEF CloseWait
    <3>2. Answerable'
      BY <3>1
    <3> QED BY <2>g, <2>a, <3>1, <3>2
  <2>7. CASE SendCompleted
    <3>1. UNCHANGED <<c2s, herr, srv, answerVars, conn>> /\ h' = "loop" /\ Put("completed")
      BY <2>7 DEF SendCompleted
    <3>2. /\ \A S : Has(s2c', S) => Has(s2c, S) \/ "completed" \in S
          /\ \A S : Once(s2c, S) /\ ("completed" \in S => ~Has(s2c, S)) => Once(s2c', S)
      BY <3>1, AppendFacts DEF Put
    <3>3. Answerable'
      BY <3>1, <3>2
    <3> QED BY <2>g, <2>a, <3>1, <3>3
  <2>8. CASE HandleCompleted
    <3>1. Take("completed") /\ UNCHANGED <<s2c, h, herr, answerVars, conn>> /\ srv # "open"
          /\ srv' \notin {"open", "reused"}
      BY <2>8 DEF HandleCompleted
    <3>2. Answerable'
      BY <1>h, <3>1, TakeFacts
    <3>3. ~segs.late => Early'
      BY <1>h, <3>1, TakeFacts DEF Early
    <3> QED BY <2>g, <3>1, <3>2, <3>3
  <2>9. CASE HandleEof
    BY <2>x, <2>9 DEF HandleEof, Fail
  <2>10. ~Shutdown
    BY DEF Shutdown
  <2> QED BY <2>2, <2>3, <2>4, <2>5, <2>6, <2>7, <2>8, <2>9, <2>10, <2>11 DEF Handler
<1> QED BY <1>1, <1>2, <1>3 DEF Over

\* Whatever the browser sends, in whatever order with the prompts, the close and the
\* end of the session, the Handler ends the connection for it in one case only: a
\* segment of input that sendData sent after the close.
THEOREM ErrorsAreExplained == Spec => []HandlerErrorsExplained
<1>1. Init => AllInv
  BY InitTyped, EndedInit, WiredInit, HarmlessInit DEF AllInv, IInv
<1>2. AllInv /\ [Next]_vars => AllInv'
  <2> SUFFICES ASSUME AllInv, [Next]_vars PROVE AllInv'
    OBVIOUS
  <2>1. IInv'
    BY TypesKept, EndedKept, WiredKept DEF AllInv, IInv
  <2>2. ASSUME Peer \/ UNCHANGED vars PROVE Harmless'
    <3>1. UNCHANGED <<link, c, segs, c2s, s2c, prompt, h, herr, rem, fp, cred, fpDone, credDone, cut, srv, conn>>
      BY <2>2 DEF Peer, PeerEcho, PeerOutput, PeerEnd, PeerFrame, vars, clientVars, wireVars,
         handlerVars, answerVars, remoteVars
    <3> QED BY <3>1, HarmlessFrame DEF AllInv
  <2>3. Harmless'
    BY <2>2, HarmlessUser, HarmlessClient, HarmlessHandler, HarmlessRemote DEF Next
  <2> QED BY <2>1, <2>3 DEF AllInv
<1>3. AllInv => HandlerErrorsExplained
  BY DEF AllInv, Harmless
<1> QED BY <1>1, <1>2, <1>3, PTL DEF Spec

----------------------------------------------------------------------------
(* The read deadline of the handshake (SshReadDeadline).                    *)

\* The retry mode is on exactly while a prompt is open; after the first prompt
\* either the next timeout is forced to be retried, or one has been since the
\* answer, or two have expired.
Forgiving ==
  /\ retry <=> phase = "asking"
  /\ reader = "expired" => expired >= 1
  /\ prompts > 0 /\ phase \in {"handshake", "setup", "serving"}
       => force \/ expired >= 2 \/ (expired >= 1 /\ reader = "reading") \/ reader = "failed"

\* The reader's failure is preceded by what Forgiving keeps.
DeadlineInv == DeadlineTypeOK /\ Forgiving

\* The start of a dial.
LEMMA DeadlineStart == DeadlineInit => DeadlineInv
<1> SUFFICES ASSUME DeadlineInit PROVE DeadlineInv
  OBVIOUS
<1>1. DeadlineTypeOK
  <2>1. 0 \in 0 .. MaxPrompts /\ 0 \in 0 .. MaxExpiries
    BY DeadlineBoundsAssumption
  <2> QED BY <2>1 DEF DeadlineInit, DeadlineTypeOK
<1>2. Forgiving
  BY DEF DeadlineInit, Forgiving
<1> QED BY <1>1, <1>2 DEF DeadlineInv

\* Every step keeps the types and the forgiveness.
LEMMA DeadlineKept == DeadlineInv /\ [DeadlineNext]_deadlineVars => DeadlineInv'
<1> USE DeadlineBoundsAssumption DEF DeadlineInv, DeadlineTypeOK, Forgiving
<1> SUFFICES ASSUME DeadlineInv, [DeadlineNext]_deadlineVars PROVE DeadlineInv'
  OBVIOUS
<1>1. CASE Ask
  BY <1>1 DEF Ask
<1>2. CASE Answered
  <2>1. /\ phase = "asking" /\ phase' = "handshake" /\ retry' = FALSE /\ force' = TRUE
        /\ UNCHANGED <<prompts, reader, armed, total>>
    BY <1>2 DEF Answered, ForceNext
  <2>2. expired' \in Nat /\ (reader' = "expired" => expired' >= 1)
    BY <1>2 DEF Answered
  <2> QED BY <2>1, <2>2
<1>3. CASE Connected
  BY <1>3 DEF Connected
<1>4. CASE ClearDeadline
  BY <1>4 DEF ClearDeadline
<1>5. CASE Expire
  BY <1>5 DEF Expire
<1>6. CASE RequestTimeoutRetry
  <2>1. CASE retry
    <3>1. force' = force
      BY <1>6, <2>1, Zenon DEF RequestTimeoutRetry
    <3>2. /\ reader' = "reading" /\ armed' = TRUE
          /\ UNCHANGED <<phase, prompts, retry, expired, total>>
      BY <1>6, <2>1 DEF RequestTimeoutRetry
    <3>3. DeadlineTypeOK'
      BY <3>1, <3>2
    <3>4. Forgiving'
      BY <2>1, <3>1, <3>2
    <3> QED BY <3>3, <3>4
  <2>2. CASE ~retry /\ force
    <3>1. force' = FALSE
      BY <1>6, <2>2, Zenon DEF RequestTimeoutRetry
    <3>2. /\ reader = "expired" /\ reader' = "reading" /\ armed' = TRUE
          /\ UNCHANGED <<phase, prompts, retry, expired, total>>
      BY <1>6, <2>2 DEF RequestTimeoutRetry
    <3>3. DeadlineTypeOK'
      BY <3>1, <3>2
    <3>4. Forgiving'
      BY <2>2, <3>1, <3>2
    <3> QED BY <3>3, <3>4
  <2>3. CASE ~retry /\ ~force
    <3>1. reader' = "failed" /\ UNCHANGED <<armed, force, phase, prompts, retry, expired, total>>
      BY <1>6, <2>3, Zenon DEF RequestTimeoutRetry
    <3>2. DeadlineTypeOK'
      BY <3>1
    <3>3. Forgiving'
      BY <2>3, <3>1
    <3> QED BY <3>2, <3>3
  <2> QED BY <2>1, <2>2, <2>3
<1>7. CASE GiveUp
  BY <1>7 DEF GiveUp
<1>8. CASE UNCHANGED deadlineVars
  BY <1>8 DEF deadlineVars
<1> QED BY <1>1, <1>2, <1>3, <1>4, <1>5, <1>6, <1>7, <1>8 DEF DeadlineNext

\* A read fails only when neither flag is set.
LEMMA FailureExplained ==
  ASSUME DeadlineInv, [DeadlineNext]_deadlineVars, ReadFails
  PROVE  phase # "asking" /\ (prompts > 0 => expired >= 2)
<1>1. RequestTimeoutRetry
  BY DEF DeadlineNext, Ask, Answered, Connected, ClearDeadline, Expire, GiveUp, ReadFails, deadlineVars
<1>2. reader = "expired" /\ ~retry /\ ~force /\ phase # "over"
  BY <1>1 DEF RequestTimeoutRetry, ReadFails
<1> QED BY <1>2 DEF DeadlineInv, DeadlineTypeOK, Forgiving

\* The time a user spends on a prompt, and a deadline left over from it, never fail
\* the connection (enable- and disableRemoteReadTimeoutRetry).
THEOREM PromptsForgiven == DeadlineSpec => PromptsAreForgiven
<1>1. DeadlineInv /\ [DeadlineNext]_deadlineVars
        => [ReadFails => phase # "asking" /\ (prompts > 0 => expired >= 2)]_deadlineVars
  BY FailureExplained
<1> QED BY <1>1, DeadlineStart, DeadlineKept, PTL DEF DeadlineSpec, PromptsAreForgiven

===============================================================================
