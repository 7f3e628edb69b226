----------------------------- MODULE SshSession -----------------------------
(***************************************************************************)
(* One SSH session from the accepted request to the released slot: the     *)
(* backend command (application/commands/ssh.go) with its "remote" and     *)
(* stderr goroutines, the part of the Handler that ticks and closes it     *)
(* (application/command/handler.go), the browser command with its          *)
(* fingerprint and credential prompts (ui/commands/ssh.js), and the peer   *)
(* behind the SSH channel windows. One stream: frames carry no slot.       *)
(***************************************************************************)
EXTENDS Naturals, Sequences

CONSTANTS
  MaxOut,     \* bound: outputs of hooks, and of the peer on its own account
  MaxInput,   \* bound: sendData and sendResize calls of the user
  MaxSegs,    \* bound: segments one sendData call is cut into
  MaxPause,   \* bound: pause requests
  Window,     \* data an SSH channel direction takes before its writer blocks
  MayRefuse   \* whether the user may refuse the fingerprint

ASSUME SshBoundsAssumption ==
  /\ MaxOut \in Nat /\ MaxInput \in Nat /\ MaxPause \in Nat
  /\ MaxSegs \in Nat \ {0}
  /\ Window \in Nat \ {0} /\ MayRefuse \in BOOLEAN

VARIABLES
  \* the browser
  c,           \* the SSH object and its Stream: [active, connected, sclosed, shut]
  prompt,      \* the wizard's open prompt
  verdict,     \* the fingerprint answer given
  broken,      \* Streams.tick threw: the whole connection is reset
  segs,        \* the sendData loop: segments left, and (history) whether one was
               \* sent after its Sender closed
  \* the web socket
  c2s, s2c, link,
  \* the Handler goroutine
  h, senderPaused, needWait, herr,
  \* sshClient
  srv,         \* FSM: "open", "closed", "released"; "reused": a late segment on
               \* the released slot was read as the request of another command
  fp,          \* fingerprintVerifyResultReceive
  cred,        \* credentialReceive
  fpDone,      \* fingerprintProcessed
  credDone,    \* credentialProcessed
  cut,         \* both answer channels are closed
  rem,         \* the remote goroutine
  errp,        \* the stderr goroutine
  conn,        \* remoteConnReceive/remoteConn: "none", "queued", "taken"
  tcp,         \* the connection to the peer: "none", "open", "closed"
  \* the peer (external)
  peer,        \* "up", "eof" (its output is closed), "gone"
  stdin, stdout, stderr, \* data under way in the channel windows
  used         \* how much of each bound is spent

clientVars  == <<c, prompt, verdict, broken, segs>>
wireVars    == <<c2s, s2c, link>>
handlerVars == <<h, senderPaused, needWait, herr>>
answerVars  == <<fp, cred, fpDone, credDone, cut>>
remoteVars  == <<rem, errp, conn, tcp>>
peerVars    == <<peer, stdin, stdout, stderr>>
vars == <<clientVars, wireVars, handlerVars, srv, answerVars, remoteVars, peerVars, used>>

ClientFrames == {"stdin", "resize", "fpYes", "fpNo", "cred", "close", "completed",
                 "pause", "resume"}
ServerFrames == {"started", "hook", "failed", "succeed", "fingerprint", "credential",
                 "stdout", "stderr", "close", "completed"}

RemoteStates == {"hooks", "dialing", "hostkey", "fpWait", "auth", "askCred", "credWait",
                 "setup", "failed", "deliver", "announce", "serving", "holding",
                 "sessionWait", "errWait", "exit", "signalled", "done"}

TypeOK ==
  /\ c \in [active : BOOLEAN, connected : BOOLEAN, sclosed : BOOLEAN, shut : BOOLEAN]
  /\ prompt \in {"none", "fingerprint", "credential"} /\ verdict \in {"none", "yes", "no"}
  /\ segs \in [left : Nat, late : BOOLEAN]
  /\ broken \in BOOLEAN /\ link \in BOOLEAN
  /\ c2s \in Seq(ClientFrames) /\ s2c \in Seq(ServerFrames)
  /\ h \in {"loop", "writing", "refused", "machineClose", "closeWait", "completed",
            "shutdown", "shutdownClose", "shutdownWait", "done"}
  /\ senderPaused \in BOOLEAN /\ needWait \in BOOLEAN
  /\ herr \in {"none", "eof", "machineClosed", "noRemote", "fpTwice", "credTwice",
              "garbage"}
  /\ srv \in {"open", "closed", "released", "reused"}
  /\ fp \in {"none", "yes", "no"} /\ cred \in {"none", "sent"}
  /\ fpDone \in BOOLEAN /\ credDone \in BOOLEAN /\ cut \in BOOLEAN
  /\ rem \in RemoteStates /\ errp \in {"none", "reading", "holding", "done"}
  /\ conn \in {"none", "queued", "taken"} /\ tcp \in {"none", "open", "closed"}
  /\ peer \in {"up", "eof", "gone"}
  /\ stdin \in 0 .. Window /\ stdout \in 0 .. Window /\ stderr \in 0 .. Window
  /\ used \in [out : Nat, input : Nat, pause : Nat]

\* The initial response is on its way and the remote goroutine has started. That
\* a frame of the goroutine may overtake the response is StreamMux's subject.
Init ==
  /\ c = [active |-> TRUE, connected |-> FALSE, sclosed |-> FALSE, shut |-> FALSE]
  /\ prompt = "none" /\ verdict = "none" /\ broken = FALSE
  /\ segs = [left |-> 0, late |-> FALSE]
  /\ c2s = <<>> /\ s2c = <<"started">> /\ link = TRUE
  /\ h = "loop" /\ senderPaused = FALSE /\ needWait = FALSE /\ herr = "none"
  /\ srv = "open" /\ fp = "none" /\ cred = "none"
  /\ fpDone = FALSE /\ credDone = FALSE /\ cut = FALSE
  /\ rem = "hooks" /\ errp = "none" /\ conn = "none" /\ tcp = "none"
  /\ peer = "up" /\ stdin = 0 /\ stdout = 0 /\ stderr = 0
  /\ used = [out |-> 0, input |-> 0, pause |-> 0]

----------------------------------------------------------------------------
(* The browser.                                                             *)

Send(f) == c2s' = Append(c2s, f)
BackendFrame == UNCHANGED <<link, handlerVars, srv, answerVars, remoteVars, peerVars>>

Live == link /\ ~broken

\* The prompt of stepFingerprintPrompt: continue or refuse.
AnswerFingerprint ==
  /\ Live /\ prompt = "fingerprint"
  /\ \/ Send("fpYes") /\ verdict' = "yes"
     \/ MayRefuse /\ Send("fpNo") /\ verdict' = "no"
  /\ prompt' = "none"
  /\ UNCHANGED <<c, broken, segs, s2c, used>> /\ BackendFrame

\* The prompt of stepCredentialPrompt: log in, or cancel, which closes the Sender.
AnswerCredential ==
  /\ Live /\ prompt = "credential" /\ prompt' = "none"
  /\ \/ Send("cred") /\ UNCHANGED c
     \/ Send("close") /\ c' = [c EXCEPT !.sclosed = TRUE]
  /\ UNCHANGED <<verdict, broken, segs, s2c, used>> /\ BackendFrame

\* The console's input and resize events. Input is cut into segments, and sendData
\* looks whether the Sender is closed before the first of them only.
UserInput ==
  /\ Live /\ c.connected /\ ~c.sclosed /\ used.input < MaxInput
  /\ \/ /\ segs.left = 0 /\ Send("stdin")
        /\ \E n \in 1 .. MaxSegs : segs' = [segs EXCEPT !.left = n - 1]
     \/ Send("resize") /\ UNCHANGED segs
  /\ used' = [used EXCEPT !.input = @ + 1]
  /\ UNCHANGED <<c, prompt, verdict, broken, s2c>> /\ BackendFrame

\* The transport took the segment before: sendData's loop sends the next one,
\* whatever has become of the stream meanwhile.
NextSegment ==
  /\ Live /\ segs.left > 0 /\ Send("stdin")
  /\ segs' = [left |-> segs.left - 1, late |-> segs.late \/ c.sclosed]
  /\ UNCHANGED <<c, prompt, verdict, broken, s2c, used>> /\ BackendFrame

\* SSH.sendClose from the console's tab.
UserClose ==
  /\ Live /\ c.connected /\ ~c.sclosed
  /\ c' = [c EXCEPT !.sclosed = TRUE] /\ Send("close")
  /\ UNCHANGED <<prompt, verdict, broken, segs, s2c, used>> /\ BackendFrame

\* Streams.pause and resume by socket.js; used.pause is odd while paused.
Pause ==
  /\ Live /\ used.pause < 2 * MaxPause /\ used.pause % 2 = 0
  /\ Send("pause") /\ used' = [used EXCEPT !.pause = @ + 1]
  /\ UNCHANGED <<clientVars, s2c>> /\ BackendFrame

Resume ==
  /\ Live /\ used.pause % 2 = 1
  /\ Send("resume") /\ used' = [used EXCEPT !.pause = @ + 1]
  /\ UNCHANGED <<clientVars, s2c>> /\ BackendFrame

\* Markers SSH.tick accepts before and after "connect.succeed".
Expected(f) ==
  IF c.connected THEN f \in {"stdout", "stderr"}
                 ELSE f \in {"hook", "failed", "fingerprint", "credential", "succeed"}

\* Whether Streams.tick handles the frame f without throwing.
Acceptable(f) ==
  /\ c.active
  /\ CASE f = "started"   -> ~c.shut
       [] f = "close"     -> ~c.shut
       [] f = "completed" -> c.shut
       [] OTHER           -> ~c.shut /\ Expected(f)

\* Output, hook output and failures only change what the wizard or the console
\* shows; ConnectSucceed brings the console up.
ClientShows ==
  /\ Head(s2c) \in {"started", "hook", "failed", "succeed", "stdout", "stderr"}
  /\ c' = [c EXCEPT !.connected = @ \/ Head(s2c) = "succeed"]
  /\ UNCHANGED <<prompt, verdict, broken, segs, c2s, used>> /\ BackendFrame

\* A known fingerprint is confirmed, and a stored credential sent, unasked.
ClientAsked ==
  /\ \/ /\ Head(s2c) = "fingerprint"
        /\ \/ Send("fpYes") /\ verdict' = "yes" /\ UNCHANGED prompt
           \/ prompt' = "fingerprint" /\ UNCHANGED <<c2s, verdict>>
     \/ /\ Head(s2c) = "credential" /\ UNCHANGED verdict
        /\ \/ Send("cred") /\ UNCHANGED prompt
           \/ prompt' = "credential" /\ UNCHANGED c2s
  /\ UNCHANGED <<c, broken, segs, used>> /\ BackendFrame

\* Streams.handleClose, with SSH.close and so Sender.close; and handleCompleted.
ClientClosed ==
  /\ \/ /\ Head(s2c) = "close"
        /\ c2s' = c2s \o IF c.sclosed THEN <<"completed">> ELSE <<"close", "completed">>
        /\ c' = [c EXCEPT !.shut = TRUE, !.sclosed = TRUE]
     \/ /\ Head(s2c) = "completed" /\ UNCHANGED c2s
        /\ c' = [c EXCEPT !.active = FALSE]
  /\ UNCHANGED <<prompt, verdict, broken, segs, used>> /\ BackendFrame

\* Streams.clear: the stream is closed and completed, its command and prompt are over.
Cleared ==
  /\ link' = FALSE /\ prompt' = "none" /\ segs' = [segs EXCEPT !.left = 0]
  /\ c' = [active |-> FALSE, connected |-> FALSE, sclosed |-> TRUE, shut |-> TRUE]
  /\ UNCHANGED <<verdict, used, handlerVars, srv, answerVars, remoteVars, peerVars>>

\* Streams.tick throws and the client resets the connection; Streams.clear flushes
\* the CLOSE that SSH.close sends.
ClientThrows ==
  /\ broken' = TRUE /\ Cleared
  /\ c2s' = c2s \o IF c.active /\ ~c.sclosed THEN <<"close">> ELSE <<>>

ClientTick ==
  /\ Live /\ s2c # <<>> /\ s2c' = Tail(s2c)
  /\ IF Acceptable(Head(s2c)) THEN ClientShows \/ ClientAsked \/ ClientClosed ELSE ClientThrows

\* The backend has returned from Handle and closed the socket.
ClientEof == Live /\ h = "done" /\ s2c = <<>> /\ Cleared /\ UNCHANGED <<broken, c2s, s2c>>

\* What is under way is lost, but for the frames the backend has received already.
LinkBreak ==
  /\ Live /\ Cleared /\ s2c' = <<>> /\ UNCHANGED broken
  /\ \E n \in 0 .. Len(c2s) : c2s' = SubSeq(c2s, 1, n)

----------------------------------------------------------------------------
(* The Handler goroutine.                                                   *)

Put(f) == s2c' = IF link THEN Append(s2c, f) ELSE s2c

Take(f) == h = "loop" /\ c2s # <<>> /\ Head(c2s) = f /\ c2s' = Tail(c2s)
HandlerFrame == UNCHANGED <<clientVars, link, used>>

Fail(e) ==
  herr' = e /\ needWait' = FALSE /\ senderPaused' = FALSE /\ h' = "shutdown"

HandleControl ==
  /\ Take("pause") \/ Take("resume")
  /\ senderPaused' = (Head(c2s) = "pause")
  /\ needWait' = senderPaused'
  /\ UNCHANGED <<s2c, h, herr, srv, answerVars, remoteVars, peerVars>> /\ HandlerFrame

\* getRemote returns: a connection is cached or queued, or the channel is closed.
GetRemoteReturns == conn # "none" \/ rem = "done"

\* sshRemoteConn.closer: the session and the connection.
Closer == tcp' = "closed"

CloseRemote_NotClosed ==
  IF conn = "none" THEN UNCHANGED <<conn, tcp>> ELSE conn' = "taken" /\ UNCHANGED tcp
CloseRemote == IF conn = "none" THEN UNCHANGED <<conn, tcp>> ELSE conn' = "taken" /\ Closer

\* Input and resize: without a connection the tick returns an error.
TickRemote ==
  /\ Head(c2s) \in {"stdin", "resize"} /\ GetRemoteReturns
  /\ IF conn = "none"
     THEN Fail("noRemote") /\ UNCHANGED conn
     ELSE /\ conn' = "taken"
          /\ h' = IF Head(c2s) = "stdin" THEN "writing" ELSE "loop"
          /\ UNCHANGED <<senderPaused, needWait, herr>>
  /\ UNCHANGED <<answerVars, rem, errp, tcp>>

\* remote.writer.Write blocks while the channel window is full; a failing write
\* closes the connection and the tick carries on.
StdinWrite ==
  /\ h = "writing" /\ h' = "loop"
  /\ \/ /\ tcp = "open" /\ peer # "gone" /\ stdin < Window
        /\ stdin' = stdin + 1 /\ UNCHANGED tcp
     \/ /\ tcp = "closed" \/ peer = "gone"
        /\ Closer /\ UNCHANGED stdin
  /\ UNCHANGED <<c2s, s2c, senderPaused, needWait, herr, srv, answerVars,
                 rem, errp, conn, peer, stdout, stderr>> /\ HandlerFrame

\* The answer to the fingerprint: passed on, once. After a refusal the tick waits
\* for getRemote.
FingerprintAnswer == IF Head(c2s) = "fpYes" THEN "yes" ELSE "no"

TickFingerprint ==
  /\ Head(c2s) \in {"fpYes", "fpNo"}
  /\ IF fpDone
     THEN Fail("fpTwice") /\ UNCHANGED answerVars
     ELSE /\ fpDone' = TRUE /\ fp' = FingerprintAnswer
          /\ h' = IF fp' = "no" THEN "refused" ELSE "loop"
          /\ UNCHANGED <<senderPaused, needWait, herr, cred, credDone, cut>>
  /\ UNCHANGED remoteVars

RefusedReturns ==
  /\ h = "refused" /\ GetRemoteReturns /\ h' = "loop"
  /\ CloseRemote
  /\ UNCHANGED <<c2s, s2c, senderPaused, needWait, herr, srv, answerVars, rem, errp, peerVars>>
  /\ HandlerFrame

TickCredential ==
  /\ Head(c2s) = "cred"
  /\ IF credDone
     THEN Fail("credTwice") /\ UNCHANGED answerVars
     ELSE /\ credDone' = TRUE /\ cred' = "sent"
          /\ UNCHANGED <<handlerVars, fp, fpDone, cut>>
  /\ UNCHANGED remoteVars

\* stream.tick: a stream that is closing refuses the frame.
Booted == srv \in {"open", "closed"}

HandleTick ==
  /\ \E f \in {"stdin", "resize", "fpYes", "fpNo", "cred"} : Take(f)
  /\ Booted
  /\ IF srv = "open"
     THEN TickRemote \/ TickFingerprint \/ TickCredential
     ELSE Fail("machineClosed") /\ UNCHANGED <<answerVars, remoteVars>>
  /\ UNCHANGED <<s2c, srv, peerVars>> /\ HandlerFrame

\* A segment that finds the slot released: stream.reinit takes it for the request of
\* a command, and answers; what it leaves unread may be no frame. The slot is not
\* this session's any more (StreamMux.HandleBoot and Misframe follow it).
HandleAnew ==
  /\ Take("stdin") /\ ~Booted /\ srv' = "reused"
  /\ \/ Put("started") /\ UNCHANGED handlerVars
     \/ Fail("garbage") /\ UNCHANGED s2c
  /\ UNCHANGED <<answerVars, remoteVars, peerVars>> /\ HandlerFrame

\* The first part of sshClient.Close: no further answer is taken, and who waits
\* for one is told.
CutAnswers_Forgotten == fpDone' = TRUE /\ credDone' = TRUE /\ UNCHANGED cut
CutAnswers == fpDone' = TRUE /\ credDone' = TRUE /\ cut' = TRUE

\* Handler.handleClose; a CLOSE for a closing stream is ignored.
HandleClose ==
  /\ Take("close")
  /\ IF srv = "open"
     THEN /\ srv' = "closed" /\ needWait' = FALSE /\ h' = "machineClose" /\ CutAnswers
     ELSE UNCHANGED <<srv, needWait, h, fpDone, credDone, cut>>
  /\ UNCHANGED <<s2c, senderPaused, herr, fp, cred, remoteVars, peerVars>> /\ HandlerFrame

\* The rest of sshClient.Close: getRemote, closer, baseCtxCancel, and the wait.
MachineClose ==
  /\ h \in {"machineClose", "shutdownClose"} /\ GetRemoteReturns
  /\ CloseRemote
  /\ h' = IF h = "machineClose" THEN "closeWait" ELSE "shutdownWait"
  /\ UNCHANGED <<c2s, s2c, senderPaused, needWait, herr, srv, answerVars, rem, errp, peerVars>>
  /\ HandlerFrame

\* d.remoteCloseWait.Wait()
RemoteEnded_NotWaited == TRUE
RemoteEnded == rem = "done"

CloseWait ==
  /\ h \in {"closeWait", "shutdownWait"} /\ RemoteEnded
  /\ IF h = "closeWait"
     THEN h' = "completed" /\ UNCHANGED srv
     ELSE h' = "done" /\ srv' = "released"
  /\ UNCHANGED <<c2s, s2c, senderPaused, needWait, herr, answerVars, remoteVars, peerVars>>
  /\ HandlerFrame

SendCompleted ==
  /\ h = "completed" /\ ~needWait /\ Put("completed")
  /\ h' = "loop" /\ needWait' = senderPaused
  /\ UNCHANGED <<c2s, senderPaused, herr, srv, answerVars, remoteVars, peerVars>> /\ HandlerFrame

\* handleCompleted: FSM.release.
HandleCompleted ==
  /\ Take("completed") /\ srv = "closed" /\ srv' = "released"
  /\ UNCHANGED <<s2c, handlerVars, answerVars, remoteVars, peerVars>> /\ HandlerFrame

HandleEof ==
  /\ h = "loop" /\ c2s = <<>> /\ ~link /\ Fail("eof")
  /\ UNCHANGED <<c2s, s2c, srv, answerVars, remoteVars, peerVars>> /\ HandlerFrame

\* streams.shutdown: a slot still running is closed, unless it was, and released.
Gone == IF srv = "reused" THEN "reused" ELSE "released"

Shutdown ==
  /\ h = "shutdown"
  /\ IF srv = "open"
     THEN srv' = "closed" /\ h' = "shutdownClose" /\ CutAnswers
     ELSE srv' = Gone /\ h' = "done" /\ UNCHANGED <<fpDone, credDone, cut>>
  /\ UNCHANGED <<c2s, s2c, senderPaused, needWait, herr, fp, cred, remoteVars, peerVars>>
  /\ HandlerFrame

Handler ==
  \/ HandleControl \/ HandleTick \/ HandleAnew \/ StdinWrite \/ RefusedReturns \/ HandleClose \/ MachineClose \/ CloseWait
  \/ SendCompleted \/ HandleCompleted \/ HandleEof \/ Shutdown

----------------------------------------------------------------------------
(* The remote goroutine (sshClient.remote) and its callbacks.               *)

Step(from, to) == rem = from /\ rem' = to
RemoteFrame == UNCHANGED <<clientVars, c2s, link, handlerVars, srv>>

\* StreamResponder.SendManual blocks while the sender waits.
Write(f) == ~needWait /\ Put(f)

RemoteHookOutput ==
  /\ rem = "hooks" /\ used.out < MaxOut /\ Write("hook")
  /\ used' = [used EXCEPT !.out = @ + 1]
  /\ UNCHANGED <<answerVars, remoteVars, peerVars>> /\ RemoteFrame

\* The hooks and the dial succeed or fail.
RemoteHooksEnd ==
  /\ Step("hooks", "dialing") \/ Step("hooks", "failed")
  /\ UNCHANGED <<s2c, answerVars, errp, conn, tcp, peerVars, used>> /\ RemoteFrame

RemoteDial ==
  /\ \/ Step("dialing", "hostkey") /\ tcp' = "open"
     \/ Step("dialing", "failed") /\ UNCHANGED tcp
  /\ UNCHANGED <<s2c, answerVars, errp, conn, peerVars, used>> /\ RemoteFrame

\* confirmRemoteFingerprint: ask, then wait for the answer or for Close. What
\* makes NewClientConn fail closes the connection.
AskFingerprint ==
  /\ Step("hostkey", "fpWait") /\ Write("fingerprint")
  /\ UNCHANGED <<answerVars, errp, conn, tcp, peerVars, used>> /\ RemoteFrame

FingerprintAnswered ==
  /\ \/ fp = "yes" /\ Step("fpWait", "auth") /\ UNCHANGED tcp
     \/ (fp = "no" \/ (fp = "none" /\ cut)) /\ Step("fpWait", "failed") /\ Closer
  /\ fp' = "none"
  /\ UNCHANGED <<s2c, cred, fpDone, credDone, cut, errp, conn, peerVars, used>> /\ RemoteFrame

\* Authentication: no credential, one of the preset, or one from the browser.
Authenticate ==
  /\ \/ (Step("auth", "setup") \/ Step("auth", "askCred")) /\ UNCHANGED tcp
     \/ Step("auth", "failed") /\ Closer
  /\ UNCHANGED <<s2c, answerVars, errp, conn, peerVars, used>> /\ RemoteFrame

AskCredential ==
  /\ Step("askCred", "credWait") /\ Write("credential")
  /\ UNCHANGED <<answerVars, errp, conn, tcp, peerVars, used>> /\ RemoteFrame

CredentialAnswered ==
  /\ \/ cred = "sent" /\ Step("credWait", "setup") /\ UNCHANGED tcp
     \/ (cred = "sent" \/ cut) /\ Step("credWait", "failed") /\ Closer
  /\ cred' = "none"
  /\ UNCHANGED <<s2c, fp, fpDone, credDone, cut, errp, conn, peerVars, used>> /\ RemoteFrame

\* NewSession, the three pipes, RequestPty and Shell; a failure closes the
\* connection when the goroutine returns.
SessionSetup ==
  /\ Step("setup", "deliver") \/ Step("setup", "failed")
  /\ UNCHANGED <<s2c, answerVars, errp, conn, tcp, peerVars, used>> /\ RemoteFrame

\* ConnectFailed, then the deferred conn.Close.
RemoteFailed ==
  /\ Step("failed", "exit") /\ Write("failed")
  /\ tcp' = IF tcp = "open" THEN "closed" ELSE tcp
  /\ UNCHANGED <<answerVars, errp, conn, peerVars, used>> /\ RemoteFrame

\* remoteConnReceive <- sshRemoteConn{...}, before ConnectSucceed.
Deliver == conn' = "queued"

RemoteDeliver ==
  /\ Step("deliver", "announce") /\ Deliver
  /\ UNCHANGED <<s2c, answerVars, errp, tcp, peerVars, used>> /\ RemoteFrame

\* ConnectSucceed; a failing write returns before the stderr goroutine exists.
RemoteAnnounce ==
  /\ Write("succeed")
  /\ \/ Step("announce", "serving") /\ errp' = "reading"
     \/ ~link /\ Step("announce", "sessionWait") /\ UNCHANGED errp
  /\ UNCHANGED <<answerVars, conn, tcp, peerVars, used>> /\ RemoteFrame

\* The stdout loop: data read is held while the sender waits. Read fails when the
\* session is over or the output closed, once what has arrived is read.
SessionOver == tcp = "closed" \/ peer = "gone"
OutputOver  == SessionOver \/ peer = "eof"

ReadStdout ==
  /\ \/ stdout > 0 /\ Step("serving", "holding") /\ stdout' = stdout - 1
     \/ stdout = 0 /\ OutputOver /\ Step("serving", "sessionWait") /\ UNCHANGED stdout
  /\ UNCHANGED <<s2c, answerVars, errp, conn, tcp, peer, stdin, stderr, used>> /\ RemoteFrame

WriteStdout ==
  /\ Write("stdout")
  /\ Step("holding", "serving") \/ (~link /\ Step("holding", "sessionWait"))
  /\ UNCHANGED <<answerVars, errp, conn, tcp, peerVars, used>> /\ RemoteFrame

ReadStderr ==
  /\ errp = "reading"
  /\ \/ stderr > 0 /\ errp' = "holding" /\ stderr' = stderr - 1
     \/ stderr = 0 /\ OutputOver /\ errp' = "done" /\ UNCHANGED stderr
  /\ UNCHANGED <<s2c, answerVars, rem, conn, tcp, peer, stdin, stdout, used>> /\ RemoteFrame

WriteStderr ==
  /\ errp = "holding" /\ Write("stderr")
  /\ errp' = "reading" \/ (~link /\ errp' = "done")
  /\ UNCHANGED <<answerVars, rem, conn, tcp, peerVars, used>> /\ RemoteFrame

\* The deferred calls, last first: session.Wait, session.Close and conn.Close,
\* errOutWg.Wait, then HeaderClose, close(remoteConnReceive) and Done.
SessionWait ==
  /\ SessionOver /\ Step("sessionWait", "errWait") /\ Closer
  /\ UNCHANGED <<s2c, answerVars, errp, conn, peerVars, used>> /\ RemoteFrame

StderrEnded_Forgotten == TRUE
StderrEnded == errp \in {"none", "done"}

ErrOutWait ==
  /\ StderrEnded /\ Step("errWait", "exit")
  /\ UNCHANGED <<s2c, answerVars, errp, conn, tcp, peerVars, used>> /\ RemoteFrame

SignalClose ==
  /\ Step("exit", "signalled") /\ Write("close")
  /\ UNCHANGED <<answerVars, errp, conn, tcp, peerVars, used>> /\ RemoteFrame

RemoteDone ==
  /\ Step("signalled", "done")
  /\ UNCHANGED <<s2c, answerVars, errp, conn, tcp, peerVars, used>> /\ RemoteFrame

Remote ==
  \/ RemoteHookOutput \/ RemoteHooksEnd \/ RemoteDial \/ AskFingerprint
  \/ FingerprintAnswered \/ Authenticate \/ AskCredential \/ CredentialAnswered
  \/ SessionSetup \/ RemoteFailed \/ RemoteDeliver \/ RemoteAnnounce
  \/ ReadStdout \/ WriteStdout \/ SessionWait \/ ErrOutWait \/ SignalClose \/ RemoteDone
Stderr == ReadStderr \/ WriteStderr

----------------------------------------------------------------------------
(* The peer (external): a shell that echoes its input and writes on its own   *)
(* account, blocking while a window is full; it may close its output or end.  *)

PeerFrame == UNCHANGED <<clientVars, wireVars, handlerVars, srv, answerVars, remoteVars>>
Shell == tcp = "open" /\ rem \in {"deliver", "announce", "serving", "holding", "sessionWait"}

PeerEcho ==
  /\ Shell /\ stdin > 0 /\ stdin' = stdin - 1
  /\ \/ peer = "up" /\ stdout < Window /\ stdout' = stdout + 1
     \/ peer = "eof" /\ UNCHANGED stdout
  /\ UNCHANGED <<peer, stderr, used>> /\ PeerFrame

PeerOutput ==
  /\ Shell /\ peer = "up" /\ used.out < MaxOut
  /\ used' = [used EXCEPT !.out = @ + 1]
  /\ \/ stdout < Window /\ stdout' = stdout + 1 /\ UNCHANGED stderr
     \/ stderr < Window /\ stderr' = stderr + 1 /\ UNCHANGED stdout
  /\ UNCHANGED <<peer, stdin>> /\ PeerFrame

PeerEnd ==
  /\ Shell
  /\ (peer = "up" /\ peer' = "eof") \/ (peer # "gone" /\ peer' = "gone")
  /\ UNCHANGED <<stdin, stdout, stderr, used>> /\ PeerFrame

----------------------------------------------------------------------------
User ==
  \/ AnswerFingerprint \/ AnswerCredential \/ UserInput \/ NextSegment \/ UserClose
  \/ Pause \/ Resume
Peer == PeerEcho \/ PeerOutput \/ PeerEnd

Next == User \/ ClientTick \/ ClientEof \/ LinkBreak \/ Handler \/ Remote \/ Stderr \/ Peer

Spec == Init /\ [][Next]_vars

\* Goroutines and the event loop are scheduled, hooks and the dial time out, reads
\* on a closed connection fail, and a client that paused resumes once it has
\* worked off its backlog (socket.js). The user and the peer owe nothing.
Fairness ==
  /\ WF_vars(Handler) /\ WF_vars(ClientTick) /\ WF_vars(ClientEof) /\ WF_vars(Resume)
  /\ WF_vars(RemoteHooksEnd) /\ WF_vars(RemoteDial) /\ WF_vars(AskFingerprint)
  /\ WF_vars(FingerprintAnswered) /\ WF_vars(Authenticate) /\ WF_vars(AskCredential)
  /\ WF_vars(CredentialAnswered) /\ WF_vars(SessionSetup) /\ WF_vars(RemoteFailed)
  /\ WF_vars(RemoteDeliver) /\ WF_vars(RemoteAnnounce)
  /\ WF_vars(ReadStdout) /\ WF_vars(WriteStdout)
  /\ WF_vars(ReadStderr) /\ WF_vars(WriteStderr)
  /\ WF_vars(SessionWait) /\ WF_vars(ErrOutWait) /\ WF_vars(SignalClose) /\ WF_vars(RemoteDone)

FairSpec == Spec /\ Fairness

\* With a peer that reads and echoes whenever it can.
EchoSpec == FairSpec /\ WF_vars(PeerEcho)

----------------------------------------------------------------------------
(* Properties.                                                              *)

\* No frame of the session makes SSH.tick or the stream throw, which would reset every
\* session of the connection: prompts and failures only before ConnectSucceed, output
\* only after it, both output goroutines ended before HeaderClose. (The answer to a
\* late segment on the released slot is not the session's.)
NoFrameIsRefused == (Live /\ s2c # <<>> /\ srv # "reused") => Acceptable(Head(s2c))

\* Handle ends over a frame of this session in one case only: a segment sendData sent
\* after the Sender closed. Input sent after ConnectSucceed finds the connection (it is
\* delivered before), no prompt is answered twice or after the session closed.
HandlerErrorsExplained ==
  \/ herr \in {"none", "eof"}
  \/ herr \in {"machineClosed", "garbage"} /\ segs.late

\* Past the host key check (authentication, the credential, the shell) only with
\* the user's confirmation: a refusal or a cancelled prompt never gets there.
OnlyConfirmedHosts ==
  rem \in {"auth", "askCred", "credWait", "setup", "deliver", "announce", "serving", "holding"}
    => verdict = "yes"

\* A released slot leaves nothing behind: both goroutines have ended and the
\* connection to the peer, if there was one, is closed.
ReleasedLeavesNothing ==
  srv \in {"released", "reused"} => rem = "done" /\ errp \in {"none", "done"} /\ tcp \in {"none", "closed"}

\* A tick blocked by the peer's full channel window, which Resume cannot reach
\* either (see InputReturns), and a refusal behind a paused sender (RefusalReturns).
StuckOnPeer   == h = "writing" /\ stdin = Window
StuckOnSender == h = "refused" /\ needWait

\* The Handler always comes back to its loop, or ends, whatever the peer and the
\* user do and wherever the session is closed; the only other outcomes are that it
\* is blocked for good in one of the two situations above.
HandlerComesBack ==
  []<>(h \in {"loop", "done"}) \/ <>[](StuckOnPeer \/ StuckOnSender)

\* A session whose Sender has closed (the tab, a cancelled login) is torn down
\* wherever its goroutine is, and its slot becomes free, with the same exceptions.
ClosedIsFreed ==
  \/ c.sclosed ~> (~c.active \/ ~link)
  \/ <>[](StuckOnPeer \/ StuckOnSender)

\* What the warning of handleStream asks of a tick ("MUST NOT write to client ...
\* Calling write may dead lock the routine"): a refusal does not make the Handler
\* wait for a goroutine that writes to the client.
RefusalReturns == (h = "refused") ~> (h \in {"loop", "done"})

\* The same for input: with a peer that echoes what it reads whenever it can, the
\* Handler does not stay in a write to it.
InputReturns == (h = "writing") ~> (h \in {"loop", "done"})

====
