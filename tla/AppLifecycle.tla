---------------------------- MODULE AppLifecycle ----------------------------
(***************************************************************************)
(* The life of the program (application/application.go, Run and run, and   *)
(* application/server/server.go): load the configuration, start a server   *)
(* per listener, wait on the signal channel, shut the servers down, and    *)
(* start over after SIGHUP. A server that fails closes the signal channel  *)
(* from its own goroutine and sets the shared variable closeNotify to nil. *)
(* HTTP requests are counted only: those that outlive Shutdown would meet  *)
(* the next run. Upgraded WebSocket connections are hijacked, which        *)
(* Shutdown does not wait for; they are not counted here.                  *)
(***************************************************************************)
EXTENDS Naturals

CONSTANTS
  Servers,     \* how many listeners are configured
  MaxRequests, \* bound: requests under way per server
  Signals      \* the signals the operating system sends

ASSUME LifecycleAssumption ==
  Servers \in Nat \ {0} /\ MaxRequests \in Nat /\ Signals \subseteq {"HUP", "INT", "TERM"}

VARIABLES
  main,        \* where Application.run is
  turn,        \* the loop variable of starting and of closing the servers
  waitsOn,     \* what main receives from: the value of closeNotify it has read
  outcome,     \* what run is about to return
  err,         \* run's variable err
  closeNotify, \* run's variable of that name: "set" or "nil"
  channel,     \* the channel itself: "none", "open", "closed"
  buffer,      \* its buffer of one signal, "none" if empty
  closes,      \* how often it has been closed
  serving,     \* [Server -> how far Serving.run is]
  joined,      \* the servers whose goroutine has called Done
  called,      \* and the close callback
  shutdown,    \* the servers Shutdown has been called for
  requests     \* [Server -> requests under way]

notifyVars == <<closeNotify, channel, buffer, closes>>
mainVars == <<main, turn, waitsOn, outcome>>
serverVars == <<serving, joined, called, shutdown, requests>>
lifeVars == <<mainVars, err, notifyVars, serverVars>>

Server == 1 .. Servers

Ended == {"exited", "killed"}

LifeTypeOK ==
  /\ main \in {"load", "start", "wait", "close", "join", "end", "return"} \cup Ended
  /\ turn \in 0 .. Servers + 1
  /\ waitsOn \in {"none", "channel", "nil"}
  /\ outcome \in {"none", "restart", "stop", "error"}
  /\ err \in {"none", "failed", "closed"}
  /\ closeNotify \in {"set", "nil"} /\ channel \in {"none", "open", "closed"}
  /\ buffer \in {"none"} \cup Signals /\ closes \in 0 .. 1
  /\ serving \in [Server -> {"new", "starting", "serving", "failed", "closed"}]
  /\ joined \subseteq Server /\ called \subseteq joined /\ shutdown \subseteq Server
  /\ requests \in [Server -> 0 .. MaxRequests]

LifeInit ==
  /\ main = "load" /\ turn = 1 /\ waitsOn = "none" /\ outcome = "none" /\ err = "none"
  /\ closeNotify = "nil" /\ channel = "none" /\ buffer = "none" /\ closes = 0
  /\ serving = [s \in Server |-> "new"] /\ joined = {} /\ called = {} /\ shutdown = {}
  /\ requests = [s \in Server |-> 0]

----------------------------------------------------------------------------
(* Application.run.                                                         *)

\* The configuration is good: the channel is made and registered.
Load ==
  /\ main = "load" /\ main' = "start"
  /\ closeNotify' = "set" /\ channel' = "open"
  /\ UNCHANGED <<turn, waitsOn, outcome, err, buffer, closes, serverVars>>

\* It is not: run returns before there is anything to clean up.
LoadFails ==
  /\ main = "load" /\ main' = "exited" /\ outcome' = "error"
  /\ UNCHANGED <<turn, waitsOn, err, notifyVars, serverVars>>

Serve ==
  /\ main = "start" /\ turn <= Servers
  /\ serving' = [serving EXCEPT ![turn] = "starting"]
  /\ turn' = turn + 1
  /\ UNCHANGED <<main, waitsOn, outcome, err, notifyVars, joined, called, shutdown, requests>>

\* "switch <-closeNotify" reads the variable, without its lock, and then waits.
Wait ==
  /\ main = "start" /\ turn > Servers
  /\ main' = "wait"
  /\ waitsOn' = IF closeNotify = "set" THEN "channel" ELSE "nil"
  /\ UNCHANGED <<turn, outcome, err, notifyVars, serverVars>>

\* A signal, or the zero value of a closed channel. Nothing comes from a nil channel.
Receive ==
  /\ main = "wait" /\ waitsOn = "channel"
  /\ buffer # "none" \/ channel = "closed"
  /\ buffer' = "none"
  /\ outcome' = IF buffer = "HUP" THEN "restart"
                ELSE IF buffer # "none" \/ err = "none" THEN "stop" ELSE "error"
  /\ main' = "close" /\ turn' = Servers
  /\ UNCHANGED <<waitsOn, err, closeNotify, channel, closes, serverVars>>

\* Serving.Close: Shutdown stops the listener and waits for the requests.
Close ==
  /\ main = "close" /\ turn > 0 /\ turn \notin shutdown
  /\ shutdown' = shutdown \cup {turn}
  /\ UNCHANGED <<mainVars, err, notifyVars, serving, joined, called, requests>>

Drained_NoWait(s) == TRUE
Drained(s) == requests[s] = 0

CloseReturns ==
  /\ main = "close" /\ turn \in shutdown /\ Drained(turn)
  /\ turn' = turn - 1
  /\ main' = IF turn = 1 THEN "join" ELSE main
  /\ UNCHANGED <<waitsOn, outcome, err, notifyVars, serverVars>>

\* Server.Wait.
AllDone == joined = Server

Join ==
  /\ main = "join" /\ AllDone
  /\ main' = "end"
  /\ UNCHANGED <<turn, waitsOn, outcome, err, notifyVars, serverVars>>

\* Under the lock, from the deferred function or from a server's goroutine: stop
\* the signals, close the channel, forget it. The second to come finds nil.
StopNotify ==
  IF closeNotify = "set"
  THEN closes' = closes + 1 /\ closeNotify' = "nil" /\ channel' = "closed"
  ELSE UNCHANGED <<closes, closeNotify, channel>>

\* The last deferred function, before run returns.
End ==
  /\ main = "end" /\ main' = "return"
  /\ StopNotify
  /\ UNCHANGED <<turn, waitsOn, outcome, err, buffer, serverVars>>

\* Run starts over or ends. Callbacks that come after this find their own run's
\* closeNotify nil and do nothing.
Restart ==
  /\ main = "return" /\ outcome = "restart"
  /\ main' = "load" /\ turn' = 1 /\ waitsOn' = "none" /\ outcome' = "none" /\ err' = "none"
  /\ channel' = "none" /\ buffer' = "none" /\ closes' = 0
  /\ serving' = [s \in Server |-> "new"] /\ joined' = {} /\ called' = {} /\ shutdown' = {}
  /\ requests' = [s \in Server |-> 0] /\ closeNotify' = "nil"

Exit ==
  /\ main = "return" /\ outcome # "restart" /\ main' = "exited"
  /\ UNCHANGED <<turn, waitsOn, outcome, err, notifyVars, serverVars>>

Run ==
  Load \/ LoadFails \/ Serve \/ Wait \/ Receive \/ Close \/ CloseReturns \/ Join \/ End \/ Restart \/ Exit

----------------------------------------------------------------------------
(* Serving.run, one goroutine for each server, and its requests.            *)

Becomes(s, from, to) ==
  /\ serving[s] = from /\ serving' = [serving EXCEPT ![s] = to]
  /\ UNCHANGED <<mainVars, err, notifyVars, joined, called, shutdown, requests>>

Listen(s) == Becomes(s, "starting", "serving")

\* buildListener fails, or Serve does.
ListenFails(s) == Becomes(s, "starting", "failed")
ServeFails(s) == s \notin shutdown /\ Becomes(s, "serving", "failed")

\* Serve returns http.ErrServerClosed once Shutdown has been called, even before it.
ServeReturns(s) == s \in shutdown /\ Becomes(s, "serving", "closed")

\* The listener is closed, then the deferred function calls Done and the callback.
Finished_CleanOnly == {"closed"}
Finished == {"failed", "closed"}

Done(s) ==
  /\ serving[s] \in Finished /\ s \notin joined
  /\ joined' = joined \cup {s}
  /\ UNCHANGED <<mainVars, err, notifyVars, serving, called, shutdown, requests>>

\* closeCallback(err) of the first goroutine ends the wait of main.
Reported_Nothing(s) == "none"
Reported(s) == serving[s]

Callback(s) ==
  /\ s \in joined \ called
  /\ called' = called \cup {s}
  /\ err' = IF closeNotify = "set" THEN Reported(s) ELSE err
  /\ StopNotify
  /\ UNCHANGED <<mainVars, buffer, serving, joined, shutdown, requests>>

Request(s) ==
  /\ serving[s] = "serving" /\ s \notin shutdown /\ requests[s] < MaxRequests
  /\ requests' = [requests EXCEPT ![s] = @ + 1]
  /\ UNCHANGED <<mainVars, err, notifyVars, serving, joined, called, shutdown>>

RequestEnds(s) ==
  /\ requests[s] > 0
  /\ requests' = [requests EXCEPT ![s] = @ - 1]
  /\ UNCHANGED <<mainVars, err, notifyVars, serving, joined, called, shutdown>>

Serving(s) ==
  Listen(s) \/ ListenFails(s) \/ ServeFails(s) \/ ServeReturns(s) \/ Done(s) \/ Callback(s)

----------------------------------------------------------------------------
(* Signals. os/signal keeps one in the buffer and drops the others; a signal *)
(* that is not registered, or no longer, ends the process.                   *)

\* What signal.Notify is called with; os.Kill cannot be caught.
Notified == {"INT", "HUP"}

Signal(sig) ==
  /\ main \notin Ended
  /\ IF closeNotify = "set" /\ sig \in Notified
     THEN buffer = "none" /\ buffer' = sig /\ main' = main
     ELSE main' = "killed" /\ buffer' = buffer
  /\ UNCHANGED <<turn, waitsOn, outcome, err, closeNotify, channel, closes, serverVars>>

LifeNext ==
  \/ Run
  \/ \E s \in Server : Serving(s) \/ Request(s) \/ RequestEnds(s)
  \/ \E sig \in Signals : Signal(sig)

LifeSpec == LifeInit /\ [][LifeNext]_lifeVars

\* Goroutines run; a server either listens or fails; every request is answered or
\* times out (ReadTimeout and WriteTimeout of the server). No signal need come.
LifeFairSpec ==
  /\ LifeSpec /\ WF_lifeVars(Run)
  /\ \A s \in Server :
       /\ WF_lifeVars(Listen(s) \/ ListenFails(s)) /\ WF_lifeVars(ServeReturns(s))
       /\ WF_lifeVars(Done(s)) /\ WF_lifeVars(Callback(s)) /\ WF_lifeVars(RequestEnds(s))

----------------------------------------------------------------------------
(* Properties.                                                              *)

\* Nothing of a run outlives it: no listener still holds the port the next run
\* binds and no request, such as a preset update under the old repository's lock,
\* is under way when the configuration is read again.
NothingOutlivesRun ==
  main = "return" => joined = Server /\ \A s \in Server : requests[s] = 0

\* How run ends is what made it end: SIGHUP restarts, an interrupt stops, and a
\* server that failed is reported, never the ErrServerClosed of the shutdown.
EndsExplained ==
  [][ outcome' # outcome /\ outcome' # "none" =>
        CASE outcome' = "restart" -> buffer = "HUP"
          [] outcome' = "stop" -> buffer = "INT"
          [] outcome' = "error" -> main = "load" \/ err = "failed" ]_lifeVars

\* Once main waits on the channel, a signal or a failed server gets it through the
\* shutdown: to a restart or to the end.
ShutdownEnds ==
  main = "wait" /\ waitsOn = "channel" /\ (buffer # "none" \/ channel = "closed")
    ~> main \in {"load"} \cup Ended

\* application.go:64-68, "(false, err) when an error forces an early exit": a server
\* that fails while nothing else ends the run does end it.
FailureEndsRun == (\E s \in Server : serving[s] = "failed") ~> main \in {"return"} \cup Ended

\* application.go:142-151 handles SIGTERM as a clean shutdown: no signal kills the
\* process while run waits for one.
CleanShutdown == [][ main = "wait" /\ closeNotify = "set" => main' # "killed" ]_lifeVars

\* application.go:210-213, "repeatedly calls run until a non-restart signal is
\* received": an interrupt delivered while a restart shuts the servers down counts.
InterruptObeyed == buffer = "INT" /\ outcome = "restart" ~> main \in Ended

============================================================================
