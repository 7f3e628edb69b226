---------------------------- MODULE Backpressure ----------------------------
(***************************************************************************)
(* How the browser slows the backend down (ui/socket.js, Socket.get, and   *)
(* application/command/handler.go, handleControl): it counts the bytes of  *)
(* the messages that arrive and of those it has unpacked, asks the backend *)
(* to pause once the former run away, and to resume once they are caught.  *)
(* Messages are byte counts; the other end of a pause is the sender of     *)
(* handler.go, which holds the streams back but not the Handler's answers. *)
(***************************************************************************)
EXTENDS Naturals, Sequences, SequencesExt

CONSTANTS
  MaxMessage,  \* the largest message
  MinReceived, \* minReceivedToPause
  Factor,      \* receiveToPauseFactor
  MaxBytes     \* bound: bytes the backend sends in all

ASSUME BackpressureAssumption ==
  /\ MaxMessage \in Nat \ {0} /\ MinReceived \in Nat
  /\ Factor \in Nat \ {0} /\ MaxBytes \in Nat

VARIABLES
  \* the browser
  received,   \* currentReceived
  unpacked,   \* currentUnpacked
  paused,     \* streamPaused
  attached,   \* streamHandler is set: dial has returned
  backlog,    \* bytes arrived and not yet unpacked
  \* the wire
  wire,       \* bytes under way to the browser
  control,    \* control frames under way to the backend
  \* the backend
  senderPaused,
  sent        \* bytes sent in all, to bound them

browserVars == <<received, unpacked, paused, attached, backlog>>
pauseVars == <<browserVars, wire, control, senderPaused, sent>>

Controls == {"pause", "resume"}

PauseTypeOK ==
  /\ received \in Nat /\ unpacked \in Nat /\ backlog \in Nat /\ wire \in Nat /\ sent \in Nat
  /\ paused \in BOOLEAN /\ attached \in BOOLEAN /\ senderPaused \in BOOLEAN
  /\ control \in Seq(Controls)

PauseInit ==
  /\ received = 0 /\ unpacked = 0 /\ backlog = 0 /\ wire = 0 /\ sent = 0
  /\ paused = FALSE /\ attached = FALSE /\ senderPaused = FALSE /\ control = <<>>

----------------------------------------------------------------------------
(* The browser.                                                             *)

\* The message event: callbacks.inbound, then the reader keeps the data.
Arrive ==
  \E n \in 1 .. wire :
    /\ n <= MaxMessage
    /\ wire' = wire - n /\ backlog' = backlog + n /\ received' = received + n
    /\ UNCHANGED <<unpacked, paused, attached, control, senderPaused, sent>>

\* Dial.dial returns and Streams starts serving.
Attach ==
  /\ ~attached /\ attached' = TRUE
  /\ UNCHANGED <<received, unpacked, paused, backlog, wire, control, senderPaused, sent>>

ShouldPause(r, u) == r > MinReceived /\ r > u * Factor

\* What a message of n bytes adds to currentUnpacked.
UnpackedSize_Counted(n) == 1
UnpackedSize(n) == n

\* The frame sent when streamPaused becomes p.
Request_PauseOnly(p) == IF p THEN <<"pause">> ELSE <<>>
Request(p) == <<IF p THEN "pause" ELSE "resume">>

\* The reader asks for the next message and it has been converted
\* (callbacks.inboundUnpacked). Equal counts start from zero again.
Unpack ==
  \E n \in 1 .. backlog :
    LET u == unpacked + UnpackedSize(n)
        caughtUp == u >= received
    IN  /\ n <= MaxMessage
        /\ backlog' = backlog - n
        /\ received' = IF caughtUp THEN 0 ELSE received
        /\ unpacked' = IF caughtUp THEN 0 ELSE u
        /\ IF attached /\ paused # ShouldPause(received', unpacked')
           THEN paused' = ~paused /\ control' = control \o Request(~paused)
           ELSE UNCHANGED <<paused, control>>
        /\ UNCHANGED <<attached, wire, senderPaused, sent>>

----------------------------------------------------------------------------
(* The backend.                                                             *)

\* Handler.handleControl; repeated commands change nothing.
HandleControl ==
  /\ control # <<>> /\ control' = Tail(control)
  /\ senderPaused' = (Head(control) = "pause")
  /\ UNCHANGED <<browserVars, wire, sent>>

\* A stream writes while the sender lets it, the Handler answers at any time.
Write ==
  \E n \in 1 .. MaxMessage :
    /\ ~senderPaused \/ n = 1
    /\ sent + n <= MaxBytes
    /\ wire' = wire + n /\ sent' = sent + n
    /\ UNCHANGED <<browserVars, control, senderPaused>>

PauseNext == Arrive \/ Attach \/ Unpack \/ HandleControl \/ Write

PauseSpec == PauseInit /\ [][PauseNext]_pauseVars

\* Messages are delivered, serve() keeps reading, the Handler keeps reading
\* (see SshSession for what may keep it from doing so).
PauseFairSpec == PauseSpec /\ WF_pauseVars(Arrive) /\ WF_pauseVars(Unpack) /\ WF_pauseVars(HandleControl)

----------------------------------------------------------------------------
(* Properties.                                                              *)

\* Once everything that arrived is unpacked the client is not asking for silence:
\* the unpacking that clears the backlog is the last callback there is, so what it
\* leaves paused would stay paused for ever.
PausedMeansBacklog == paused => backlog > 0

\* The backend ends up in the state the client is in: no request is lost or
\* repeated, so the branches "Repeated Pause/Resume Stream command" are never taken.
PauseAgreed ==
  /\ paused = IF control = <<>> THEN senderPaused ELSE Last(control) = "pause"
  /\ \A i \in 1 .. Len(control) :
       control[i] # IF i = 1 THEN IF senderPaused THEN "pause" ELSE "resume" ELSE control[i - 1]

\* A silenced backend may speak again: what SshSession and StreamMux assume of the
\* browser as WF(Resume).
SilenceEnds == senderPaused ~> ~senderPaused

============================================================================
