----------------------------- MODULE MoshSession -----------------------------
(***************************************************************************)
(* One Mosh session from the accepted request to the released slot: the    *)
(* backend command (application/commands/mosh.go), which bootstraps over   *)
(* SSH, talks to the remote mosh-server over UDP (mosh_session.go) and     *)
(* watches that server over the SSH connection; the part of the Handler    *)
(* that ticks and closes it (application/command/handler.go); and the      *)
(* browser command (ui/commands/mosh.js). One stream: frames carry no slot.*)
(***************************************************************************)
EXTENDS Naturals, Sequences

CONSTANTS
  MaxOut,   \* bound: outputs of hooks and of the session
  MaxInput, \* bound: sendData and sendResize calls of the user
  MaxSegs,  \* bound: segments one sendData call is cut into
  MaxPause  \* bound: pause requests

ASSUME MoshBoundsAssumption ==
  MaxOut \in Nat /\ MaxInput \in Nat /\ MaxPause \in Nat /\ MaxSegs \in Nat \ {0}

VARIABLES
  \* the browser
  c,        \* the Mosh object and its Stream: [active, connected, sclosed, shut]
  prompt,   \* the wizard's open prompt
  verdict,  \* the fingerprint answer given
  broken,   \* Streams.tick threw: the whole connection is reset
  segs,     \* the sendData loop: segments left, and (history) whether one was sent
            \* after its Sender closed
  \* the web socket
  c2s, s2c, link,
  \* the Handler goroutine
  h, senderPaused, needWait, herr,
  \* moshClient
  srv,      \* FSM: "open", "closed", "released"; "reused": a late segment on the
            \* released slot was read as the request of another command
  fp, cred, \* fingerprintVerifyResultReceive, credentialReceive
  answered, \* prompts whose answer is processed (fingerprintProcessed, credentialProcessed)
  cut,      \* both answer channels are closed
  ctx,      \* baseCtx is cancelled
  rem,      \* the remote goroutine
  offered,  \* a session is in sessionReceive
  cached,   \* moshClient.session # nil
  ssh,      \* the bootstrap connection: "none", "open", "closed"
  udp,      \* moshGoSession: "none", "open", "closed"
  mon,      \* the monitor goroutine and what it reports
  watch,    \* closeSessionWhenRemoteMoshServerExits
  \* external
  server,   \* the remote mosh-server: "none", "up", "gone"
  used      \* how much of each bound is spent

clientVars  == <<c, prompt, verdict, broken, segs>>
wireVars    == <<c2s, s2c, link>>
handlerVars == <<h, senderPaused, needWait, herr>>
answerVars  == <<fp, cred, answered, cut>>
cacheVars   == <<offered, cached>>
remoteVars  == <<rem, ssh, udp>>
watchVars   == <<mon, watch, server>>
vars == <<clientVars, wireVars, handlerVars, srv, answerVars, ctx, cacheVars, remoteVars,
          watchVars, used>>

ClientFrames == {"stdin", "resize", "fpYes", "fpNo", "cred", "close", "completed", "pause", "resume"}
ServerFrames == {"started", "hook", "failed", "succeed", "fingerprint", "credential", "stdout",
                 "close", "completed"}

TypeOK ==
  /\ c \in [active : BOOLEAN, connected : BOOLEAN, sclosed : BOOLEAN, shut : BOOLEAN]
  /\ prompt \in {"none", "fingerprint", "credential"} /\ verdict \in {"none", "yes", "no"}
  /\ broken \in BOOLEAN /\ link \in BOOLEAN
  /\ segs \in [left : Nat, late : BOOLEAN]
  /\ c2s \in Seq(ClientFrames) /\ s2c \in Seq(ServerFrames)
  /\ h \in {"loop", "closing", "waiting", "completed", "shutdown", "done"}
  /\ senderPaused \in BOOLEAN /\ needWait \in BOOLEAN
  /\ herr \in {"none", "eof", "machineClosed", "sendFailed", "answeredTwice", "garbage"}
  /\ srv \in {"open", "closed", "released", "reused"}
  /\ fp \in {"none", "yes", "no"} /\ cred \in {"none", "sent"}
  /\ answered \subseteq {"fingerprint", "credential"} /\ cut \in BOOLEAN /\ ctx \in BOOLEAN
  /\ rem \in {"hooks", "dialing", "hostkey", "fpWait", "auth", "askCred", "credWait", "bootstrap",
              "session", "monitor", "ready", "announce", "recv", "received", "holding", "failed",
              "leaving", "exit", "signalled", "done"}
  /\ offered \in BOOLEAN /\ cached \in BOOLEAN
  /\ ssh \in {"none", "open", "closed"} /\ udp \in {"none", "open", "closed"}
  /\ mon \in {"none", "running", "exited", "failed"} /\ watch \in {"none", "waiting", "closing", "done"}
  /\ server \in {"none", "up", "gone"}
  /\ used \in [out : 0 .. MaxOut, input : 0 .. MaxInput, pause : 0 .. 2 * MaxPause]

\* The initial response is on its way and the remote goroutine has started.
Init ==
  /\ c = [active |-> TRUE, connected |-> FALSE, sclosed |-> FALSE, shut |-> FALSE]
  /\ prompt = "none" /\ verdict = "none" /\ broken = FALSE
  /\ segs = [left |-> 0, late |-> FALSE]
  /\ c2s = <<>> /\ s2c = <<"started">> /\ link = TRUE
  /\ h = "loop" /\ senderPaused = FALSE /\ needWait = FALSE /\ herr = "none" /\ srv = "open"
  /\ fp = "none" /\ cred = "none" /\ answered = {} /\ cut = FALSE /\ ctx = FALSE
  /\ rem = "hooks" /\ offered = FALSE /\ cached = FALSE /\ ssh = "none" /\ udp = "none"
  /\ mon = "none" /\ watch = "none" /\ server = "none"
  /\ used = [out |-> 0, input |-> 0, pause |-> 0]

----------------------------------------------------------------------------
(* The browser.                                                             *)

Send(f) == c2s' = Append(c2s, f)
Spend(bound) == used' = [used EXCEPT ![bound] = @ + 1]
Live == link /\ ~broken
Backend == <<handlerVars, srv, answerVars, ctx, cacheVars, remoteVars, watchVars>>

\* The prompts of stepFingerprintPrompt and stepCredentialPrompt; cancelling the
\* latter closes the Sender.
Answer ==
  /\ Live /\ prompt' = "none"
  /\ \/ /\ prompt = "fingerprint" /\ UNCHANGED c
        /\ (Send("fpYes") /\ verdict' = "yes") \/ (Send("fpNo") /\ verdict' = "no")
     \/ /\ prompt = "credential" /\ UNCHANGED verdict
        /\ \/ Send("cred") /\ UNCHANGED c
           \/ Send("close") /\ c' = [c EXCEPT !.sclosed = TRUE]
  /\ UNCHANGED <<broken, segs, s2c, link, used, Backend>>

\* The console's input and resize events. Input is cut into segments, and sendData
\* looks whether the Sender is closed before the first of them only.
UserInput ==
  /\ Live /\ c.connected /\ ~c.sclosed /\ used.input < MaxInput /\ Spend("input")
  /\ \/ /\ segs.left = 0 /\ Send("stdin")
        /\ \E n \in 1 .. MaxSegs : segs' = [segs EXCEPT !.left = n - 1]
     \/ Send("resize") /\ UNCHANGED segs
  /\ UNCHANGED <<c, prompt, verdict, broken, s2c, link, Backend>>

\* The transport took the segment before: sendData's loop sends the next one,
\* whatever has become of the stream meanwhile.
NextSegment ==
  /\ Live /\ segs.left > 0 /\ Send("stdin")
  /\ segs' = [left |-> segs.left - 1, late |-> segs.late \/ c.sclosed]
  /\ UNCHANGED <<c, prompt, verdict, broken, s2c, link, used, Backend>>

\* Mosh.sendClose from the console's tab.
UserClose ==
  /\ Live /\ c.connected /\ ~c.sclosed
  /\ c' = [c EXCEPT !.sclosed = TRUE] /\ Send("close")
  /\ UNCHANGED <<prompt, verdict, broken, segs, s2c, link, used, Backend>>

\* Streams.pause and resume; used.pause is odd while paused.
Pause ==
  /\ Live /\ used.pause < 2 * MaxPause /\ used.pause % 2 = 0
  /\ Send("pause") /\ Spend("pause")
  /\ UNCHANGED <<clientVars, s2c, link, Backend>>

Resume ==
  /\ Live /\ used.pause % 2 = 1
  /\ Send("resume") /\ Spend("pause")
  /\ UNCHANGED <<clientVars, s2c, link, Backend>>

\* Mosh.tick before and after "connect.succeed", within Stream.tick.
Expected(f) ==
  IF c.connected THEN f = "stdout"
                 ELSE f \in {"hook", "failed", "fingerprint", "credential", "succeed"}

Acceptable(f) ==
  /\ c.active
  /\ CASE f = "started"   -> ~c.shut
       [] f = "close"     -> ~c.shut
       [] f = "completed" -> c.shut
       [] OTHER           -> ~c.shut /\ Expected(f)

\* A recorded fingerprint is confirmed, and a stored credential sent, unasked.
ClientAsked(f) ==
  \/ /\ f = "fingerprint" /\ UNCHANGED c
     /\ \/ Send("fpYes") /\ verdict' = "yes" /\ UNCHANGED prompt
        \/ prompt' = f /\ UNCHANGED <<c2s, verdict>>
  \/ /\ f = "credential" /\ UNCHANGED <<c, verdict>>
     /\ \/ Send("cred") /\ UNCHANGED prompt
        \/ prompt' = f /\ UNCHANGED c2s

ClientShows(f) ==
  /\ f \in {"started", "hook", "failed", "succeed", "stdout"}
  /\ c' = [c EXCEPT !.connected = @ \/ f = "succeed"]
  /\ UNCHANGED <<prompt, verdict, c2s>>

\* Streams.handleClose, with Mosh.close and Sender.close, and handleCompleted.
ClientClosed(f) ==
  /\ UNCHANGED <<prompt, verdict>>
  /\ \/ /\ f = "close" /\ c' = [c EXCEPT !.shut = TRUE, !.sclosed = TRUE]
        /\ c2s' = c2s \o IF c.sclosed THEN <<"completed">> ELSE <<"close", "completed">>
     \/ f = "completed" /\ c' = [c EXCEPT !.active = FALSE] /\ UNCHANGED c2s

\* Streams.clear: the stream is closed and completed, its command and prompt are over.
Cleared ==
  /\ link' = FALSE /\ prompt' = "none" /\ segs' = [segs EXCEPT !.left = 0]
  /\ c' = [active |-> FALSE, connected |-> FALSE, sclosed |-> TRUE, shut |-> TRUE]
  /\ UNCHANGED <<verdict, used, Backend>>

\* Streams.tick throws and the client resets the connection; Streams.clear flushes
\* the CLOSE that Mosh.close sends.
ClientThrows ==
  /\ broken' = TRUE /\ Cleared
  /\ c2s' = c2s \o IF c.active /\ ~c.sclosed THEN <<"close">> ELSE <<>>

ClientTick ==
  /\ Live /\ s2c # <<>> /\ s2c' = Tail(s2c)
  /\ IF Acceptable(Head(s2c))
     THEN /\ ClientAsked(Head(s2c)) \/ ClientShows(Head(s2c)) \/ ClientClosed(Head(s2c))
          /\ UNCHANGED <<broken, segs, link, used, Backend>>
     ELSE ClientThrows

\* The backend has returned from Handle and closed the socket.
ClientEof == Live /\ h = "done" /\ s2c = <<>> /\ Cleared /\ UNCHANGED <<broken, c2s, s2c>>

\* What is under way is lost, but for the frames the backend has received already.
LinkBreak ==
  /\ Live /\ Cleared /\ s2c' = <<>> /\ UNCHANGED broken
  /\ \E n \in 0 .. Len(c2s) : c2s' = SubSeq(c2s, 1, n)

----------------------------------------------------------------------------
(* The Handler goroutine.                                                   *)

Put(f) == s2c' = IF link THEN Append(s2c, f) ELSE s2c
Take(f) == h = "loop" /\ c2s # <<>> /\ Head(c2s) = f /\ c2s' = Tail(c2s)
Outside == <<clientVars, link, used>>

Fail(e) == herr' = e /\ needWait' = FALSE /\ senderPaused' = FALSE /\ h' = "shutdown"

HandleControl ==
  /\ Take("pause") \/ Take("resume")
  /\ senderPaused' = (Head(c2s) = "pause") /\ needWait' = senderPaused'
  /\ UNCHANGED <<s2c, h, herr, srv, answerVars, ctx, cacheVars, remoteVars, watchVars, Outside>>

\* moshClient.closeSession.
CloseSession == udp' = IF cached THEN "closed" ELSE udp

\* getSessionIfReady takes a session from the cache or from the channel, never waiting.
Ready == cached \/ offered

\* Input without a session is dropped; a session that has ended fails the tick. A
\* resize reports no failure.
TickSession ==
  /\ Head(c2s) \in {"stdin", "resize"}
  /\ cached' = (cached \/ Ready) /\ offered' = (offered /\ cached)
  /\ IF Head(c2s) = "stdin" /\ Ready /\ udp = "closed"
     THEN Fail("sendFailed")
     ELSE UNCHANGED <<h, senderPaused, needWait, herr>>
  /\ UNCHANGED answerVars

Confirmed(f) == IF f = "fpYes" THEN "yes" ELSE "no"

\* An answer to a prompt is passed on, once.
TickAnswer(name, frames) ==
  /\ Head(c2s) \in frames
  /\ IF name \in answered
     THEN Fail("answeredTwice") /\ UNCHANGED answerVars
     ELSE /\ answered' = answered \cup {name}
          /\ fp' = IF name = "fingerprint" THEN Confirmed(Head(c2s)) ELSE fp
          /\ cred' = IF Head(c2s) = "cred" THEN "sent" ELSE cred
          /\ UNCHANGED <<handlerVars, cut>>
  /\ UNCHANGED cacheVars

\* stream.tick: a stream that is closing refuses the frame.
Booted == srv \in {"open", "closed"}

HandleTick ==
  /\ Booted
  /\ \E f \in {"stdin", "resize", "fpYes", "fpNo", "cred"} : Take(f)
  /\ IF srv = "open"
     THEN \/ TickSession
          \/ TickAnswer("fingerprint", {"fpYes", "fpNo"})
          \/ TickAnswer("credential", {"cred"})
     ELSE Fail("machineClosed") /\ UNCHANGED <<answerVars, cacheVars>>
  /\ UNCHANGED <<s2c, srv, ctx, remoteVars, watchVars, Outside>>

\* A segment that finds the slot released: stream.reinit takes it for the request of
\* a command, and answers; what it leaves unread may be no frame. The slot is not
\* this session's any more (StreamMux.HandleBoot and Misframe follow it).
HandleAnew ==
  /\ Take("stdin") /\ ~Booted /\ srv' = "reused"
  /\ \/ Put("started") /\ UNCHANGED handlerVars
     \/ Fail("garbage") /\ UNCHANGED s2c
  /\ UNCHANGED <<answerVars, ctx, cacheVars, remoteVars, watchVars, Outside>>

\* The beginning of moshClient.Close: no further answer, and baseCtxCancel.
CutAnswers_Forgotten == answered' = {"fingerprint", "credential"} /\ ctx' = TRUE /\ UNCHANGED cut
CutAnswers == answered' = {"fingerprint", "credential"} /\ cut' = TRUE /\ ctx' = TRUE

\* Handler.handleClose; a CLOSE for a closing stream is ignored.
HandleClose ==
  /\ Take("close")
  /\ IF srv = "open"
     THEN srv' = "closed" /\ needWait' = FALSE /\ h' = "closing" /\ CutAnswers
     ELSE UNCHANGED <<srv, needWait, h, answered, cut, ctx>>
  /\ UNCHANGED <<s2c, senderPaused, herr, fp, cred, cacheVars, remoteVars, watchVars, Outside>>

\* closeSession, then remoteCloseWait.Wait.
MachineClose ==
  /\ h = "closing" /\ h' = "waiting" /\ CloseSession
  /\ UNCHANGED <<c2s, s2c, senderPaused, needWait, herr, srv, answerVars, ctx, cacheVars, rem, ssh,
                 watchVars, Outside>>

RemoteEnded == rem = "done"

\* Close returns to handleClose, or to streams.shutdown after an error.
CloseWait ==
  /\ h = "waiting" /\ RemoteEnded
  /\ IF herr = "none" THEN h' = "completed" /\ UNCHANGED srv ELSE h' = "done" /\ srv' = "released"
  /\ UNCHANGED <<c2s, s2c, senderPaused, needWait, herr, answerVars, ctx, cacheVars, remoteVars,
                 watchVars, Outside>>

SendCompleted ==
  /\ h = "completed" /\ ~needWait /\ Put("completed")
  /\ h' = "loop" /\ needWait' = senderPaused
  /\ UNCHANGED <<c2s, senderPaused, herr, srv, answerVars, ctx, cacheVars, remoteVars, watchVars, Outside>>

HandleCompleted ==
  /\ Take("completed") /\ srv = "closed" /\ srv' = "released"
  /\ UNCHANGED <<s2c, handlerVars, answerVars, ctx, cacheVars, remoteVars, watchVars, Outside>>

HandleEof ==
  /\ h = "loop" /\ c2s = <<>> /\ ~link /\ Fail("eof")
  /\ UNCHANGED <<c2s, s2c, srv, answerVars, ctx, cacheVars, remoteVars, watchVars, Outside>>

\* streams.shutdown: a slot still running is closed, unless it was, and released.
Gone == IF srv = "reused" THEN "reused" ELSE "released"

Shutdown ==
  /\ h = "shutdown"
  /\ IF srv = "open"
     THEN srv' = "closed" /\ h' = "closing" /\ CutAnswers
     ELSE srv' = Gone /\ h' = "done" /\ UNCHANGED <<answered, cut, ctx>>
  /\ UNCHANGED <<c2s, s2c, senderPaused, needWait, herr, fp, cred, cacheVars, remoteVars, watchVars, Outside>>

Handler ==
  \/ HandleControl \/ HandleTick \/ HandleAnew \/ HandleClose \/ MachineClose \/ CloseWait
  \/ SendCompleted \/ HandleCompleted \/ HandleEof \/ Shutdown

----------------------------------------------------------------------------
(* The remote goroutine (moshClient.remote).                                *)

Step(from, to) == rem = from /\ rem' = to
Write(f) == ~needWait /\ Put(f)
Rest == <<clientVars, c2s, link, handlerVars, srv>>

\* Output of the hooks before connecting.
RemoteHookOutput ==
  /\ rem = "hooks" /\ used.out < MaxOut /\ Write("hook") /\ Spend("out")
  /\ UNCHANGED <<answerVars, ctx, cacheVars, remoteVars, watchVars, Rest>>

\* The hooks, the access check and the dial succeed or fail.
RemoteDial ==
  /\ \/ (Step("hooks", "dialing") \/ Step("hooks", "failed") \/ Step("dialing", "failed")) /\ UNCHANGED ssh
     \/ Step("dialing", "hostkey") /\ ssh' = "open"
  /\ UNCHANGED <<s2c, answerVars, ctx, cacheVars, udp, watchVars, used, Rest>>

\* confirmRemoteFingerprint and the credential callbacks ask the browser; a write that
\* fails makes the handshake fail.
Ask ==
  /\ \/ rem = "hostkey" /\ Write("fingerprint")
     \/ rem = "askCred" /\ Write("credential")
  /\ \/ rem' = (IF rem = "hostkey" THEN "fpWait" ELSE "credWait") /\ UNCHANGED ssh
     \/ ~link /\ rem' = "failed" /\ ssh' = "closed"
  /\ UNCHANGED <<answerVars, ctx, cacheVars, udp, watchVars, used, Rest>>

\* An answer arrives, or Close cuts the wait; what makes the handshake fail closes
\* the connection.
Answered ==
  /\ \/ fp = "yes" /\ Step("fpWait", "auth") /\ UNCHANGED ssh
     \/ (fp = "no" \/ (fp = "none" /\ cut)) /\ Step("fpWait", "failed") /\ ssh' = "closed"
     \/ cred = "sent" /\ Step("credWait", "bootstrap") /\ UNCHANGED ssh
     \/ (cred = "sent" \/ cut) /\ Step("credWait", "failed") /\ ssh' = "closed"
  /\ fp' = IF rem = "fpWait" THEN "none" ELSE fp
  /\ cred' = IF rem = "credWait" THEN "none" ELSE cred
  /\ UNCHANGED <<s2c, answered, cut, ctx, cacheVars, udp, watchVars, used, Rest>>

\* No credential is needed, the preset has it, or the browser is asked.
Authenticate ==
  /\ \/ (Step("auth", "bootstrap") \/ Step("auth", "askCred")) /\ UNCHANGED ssh
     \/ Step("auth", "failed") /\ ssh' = "closed"
  /\ UNCHANGED <<s2c, answerVars, ctx, cacheVars, udp, watchVars, used, Rest>>

\* mosh-server is started and its connect line parsed, under the read deadline.
Bootstrap ==
  /\ \/ Step("bootstrap", "session") /\ server' = "up"
     \/ Step("bootstrap", "failed") /\ UNCHANGED server
  /\ UNCHANGED <<s2c, answerVars, ctx, cacheVars, ssh, udp, mon, watch, used, Rest>>

\* buildRemoteSession and cacheSession.
BuildSession ==
  /\ \/ Step("session", "monitor") /\ udp' = "open" /\ cached' = TRUE
     \/ Step("session", "failed") /\ UNCHANGED <<udp, cached>>
  /\ UNCHANGED <<s2c, answerVars, ctx, offered, ssh, watchVars, used, Rest>>

\* monitorRemoteMoshServer: no process id, no second session, or both goroutines
\* start. NewSession waits for the peer without a deadline.
StartMonitor ==
  /\ Step("monitor", "ready")
  /\ UNCHANGED <<mon, watch>> \/ (mon' = "running" /\ watch' = "waiting")
  /\ UNCHANGED <<s2c, answerVars, ctx, cacheVars, ssh, udp, server, used, Rest>>

\* moshGoSession.AwaitReady, and the session is offered to the ticks; the readiness
\* fails by timeout, cancellation or closing.
AwaitReady ==
  /\ \/ udp = "open" /\ Step("ready", "announce") /\ offered' = TRUE
     \/ Step("ready", "failed") /\ UNCHANGED offered
  /\ UNCHANGED <<s2c, answerVars, ctx, cached, ssh, udp, watchVars, used, Rest>>

\* ConnectSucceed; then the first output, if there was one, is sent.
Announce ==
  /\ Write("succeed")
  /\ Step("announce", "recv") \/ Step("announce", "holding") \/ (~link /\ Step("announce", "leaving"))
  /\ UNCHANGED <<answerVars, ctx, cacheVars, ssh, udp, watchVars, used, Rest>>

SessionOver_Reported == "failed"
SessionOver == "leaving"

\* session.Recv returns output, nothing after its timeout, or the end of the session.
Recv ==
  /\ \/ udp = "open" /\ used.out < MaxOut /\ Step("recv", "received") /\ Spend("out")
     \/ udp = "closed" /\ Step("recv", SessionOver) /\ UNCHANGED used
  /\ UNCHANGED <<s2c, answerVars, ctx, cacheVars, ssh, udp, watchVars, Rest>>

\* Between Recv and the next, the context is looked at, after a timeout too.
CheckContext ==
  /\ \/ ctx /\ (Step("recv", "leaving") \/ Step("received", "leaving"))
     \/ ~ctx /\ Step("received", "holding")
  /\ UNCHANGED <<s2c, answerVars, ctx, cacheVars, ssh, udp, watchVars, used, Rest>>

SendOutput ==
  /\ Write("stdout") /\ (Step("holding", "recv") \/ (~link /\ Step("holding", "leaving")))
  /\ UNCHANGED <<answerVars, ctx, cacheVars, ssh, udp, watchVars, used, Rest>>

RemoteFailed ==
  /\ Step("failed", "leaving") /\ Write("failed")
  /\ UNCHANGED <<answerVars, ctx, cacheVars, ssh, udp, watchVars, used, Rest>>

CloseConn_Kept == UNCHANGED ssh
CloseConn == ssh' = IF ssh = "open" THEN "closed" ELSE ssh

\* The deferred calls: conn.Close and session.Close, then HeaderClose, then
\* close(sessionReceive), baseCtxCancel and Done.
Leave ==
  /\ Step("leaving", "exit") /\ CloseConn
  /\ udp' = IF udp = "open" THEN "closed" ELSE udp
  /\ UNCHANGED <<s2c, answerVars, ctx, cacheVars, watchVars, used, Rest>>

SignalClose ==
  /\ Step("exit", "signalled") /\ Write("close")
  /\ UNCHANGED <<answerVars, ctx, cacheVars, ssh, udp, watchVars, used, Rest>>

RemoteDone ==
  /\ Step("signalled", "done") /\ ctx' = TRUE
  /\ UNCHANGED <<s2c, answerVars, cacheVars, ssh, udp, watchVars, used, Rest>>

Remote ==
  \/ RemoteHookOutput \/ RemoteDial \/ Ask \/ Answered \/ Authenticate \/ Bootstrap \/ BuildSession
  \/ StartMonitor \/ AwaitReady \/ Announce \/ Recv \/ CheckContext \/ SendOutput \/ RemoteFailed
  \/ Leave \/ SignalClose \/ RemoteDone

----------------------------------------------------------------------------
(* The two goroutines that watch the remote mosh-server, and that server.   *)

Untouched == <<clientVars, wireVars, handlerVars, srv, answerVars, cacheVars, rem, ssh, used>>

\* The command of monitorRemoteMoshServer ends with its process, or with an error,
\* for sure once the connection is closed.
MonitorExited == /\ mon = "running" /\ ssh = "open" /\ server = "gone" /\ mon' = "exited"
                 /\ UNCHANGED <<ctx, udp, watch, server, Untouched>>
MonitorFails  == /\ mon = "running" /\ mon' = "failed"
                 /\ UNCHANGED <<ctx, udp, watch, server, Untouched>>

Over_Never == {}
Over == {"exited"}

\* closeSessionWhenRemoteMoshServerExits: the report or the context, whichever the
\* select picks; then cancel and closeSession.
Watch ==
  /\ watch = "waiting"
  /\ \/ (ctx \/ mon \in {"exited", "failed"} \ Over) /\ watch' = "done" /\ UNCHANGED ctx
     \/ mon \in Over /\ watch' = "closing" /\ ctx' = TRUE
  /\ UNCHANGED <<udp, mon, server, Untouched>>

WatchCloses ==
  /\ watch = "closing" /\ watch' = "done" /\ CloseSession
  /\ UNCHANGED <<ctx, mon, server, Untouched>>

\* The shell exits and its mosh-server with it, or it times out.
ServerExits ==
  /\ server = "up" /\ server' = "gone"
  /\ UNCHANGED <<ctx, udp, mon, watch, Untouched>>

----------------------------------------------------------------------------
User == Answer \/ UserInput \/ NextSegment \/ UserClose \/ Pause \/ Resume
Next == User \/ ClientTick \/ ClientEof \/ LinkBreak \/ Handler \/ Remote
        \/ MonitorExited \/ MonitorFails \/ Watch \/ WatchCloses \/ ServerExits

Spec == Init /\ [][Next]_vars

\* Goroutines and the event loop are scheduled; hooks, dial, bootstrap and readiness
\* time out; Recv returns at its timeout; a command on a closed connection fails and
\* one whose process has ended reports it; a client that paused resumes. Nothing
\* obliges the user, nor the peer to let StartMonitor return.
Fairness ==
  /\ WF_vars(Handler) /\ WF_vars(ClientTick) /\ WF_vars(ClientEof) /\ WF_vars(Resume)
  /\ WF_vars(RemoteDial) /\ WF_vars(Ask) /\ WF_vars(Answered) /\ WF_vars(Authenticate)
  /\ WF_vars(Bootstrap) /\ WF_vars(BuildSession) /\ WF_vars(AwaitReady) /\ WF_vars(Announce)
  /\ WF_vars(Recv \/ CheckContext) /\ WF_vars(SendOutput) /\ WF_vars(RemoteFailed)
  /\ WF_vars(Leave) /\ WF_vars(SignalClose) /\ WF_vars(RemoteDone)
  /\ WF_vars(MonitorExited) /\ WF_vars(ssh = "closed" /\ MonitorFails)
  /\ WF_vars(Watch) /\ WF_vars(WatchCloses)

FairSpec == Spec /\ Fairness

----------------------------------------------------------------------------
(* Properties.                                                              *)

\* No frame makes Mosh.tick or the stream throw: a failed readiness is reported
\* before ConnectSucceed only, output after it only, nothing after HeaderClose. (The
\* answer to a late segment on the released slot is not the session's.)
NoFrameIsRefused == (Live /\ s2c # <<>> /\ srv # "reused") => Acceptable(Head(s2c))

\* Authentication, the bootstrap and the session only with the user's confirmation.
OnlyConfirmedHosts == (rem \in {"auth", "askCred", "bootstrap", "session"} \/ udp # "none") => verdict = "yes"

\* While the socket stands Handle ends over a frame of this session in two ways only:
\* input to a session that the watcher has closed because its mosh-server exited (see
\* InputNeverEndsHandler), and a segment sendData sent after the Sender closed.
HandlerErrorsExplained ==
  \/ herr \in {"none", "eof"}
  \/ herr = "sendFailed" /\ (~link \/ (server = "gone" /\ mon = "exited"))
  \/ herr \in {"machineClosed", "garbage"} /\ segs.late

\* A released slot leaves nothing behind: the goroutine has ended, the UDP session
\* and the SSH connection are closed.
ReleasedLeavesNothing ==
  srv \in {"released", "reused"} => rem = "done" /\ udp # "open" /\ ssh # "open"

\* Nor do the goroutines that watch the server stay, whichever end came first.
NobodyWatches == (rem = "done") ~> (mon # "running" /\ watch \in {"none", "done"})

\* A tick, a close and a shutdown always return, wherever the session stands and
\* whoever ends it, unless the peer never answers the monitor's NewSession.
HandlerComesBack == []<>(h \in {"loop", "done"}) \/ <>[](rem = "monitor")

\* When the shell of an announced session exits while it is watched, the tab is told,
\* paused or not, with nobody typing.
ExitIsNoticed ==
  (server = "gone" /\ mon = "running" /\ c.connected) ~> (c.shut \/ ~Live \/ mon = "failed" \/ herr # "none")

\* fsm.go:69-70 says that a state returns "an error that will terminate the stream":
\* no frame of one session ends Handle, and with it every other session.
InputNeverEndsHandler == herr # "sendFailed"

============================================================================
