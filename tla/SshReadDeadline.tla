-------------------------- MODULE SshReadDeadline --------------------------
(***************************************************************************)
(* The read deadline of an SSH connection while the session is set up      *)
(* (application/commands/ssh.go): the SSH library's reader, which asks     *)
(* requestTimeoutRetry after a timeout, runs beside the remote goroutine,  *)
(* which switches the retry mode around every prompt and finally clears    *)
(* the deadline. The library (external) reads in a goroutine of its own.   *)
(***************************************************************************)
EXTENDS Naturals

CONSTANTS
  MaxPrompts,  \* prompts of a handshake (fingerprint and credential)
  MaxExpiries  \* bound: expired deadlines

ASSUME DeadlineBoundsAssumption == MaxPrompts \in Nat /\ MaxExpiries \in Nat

VARIABLES
  phase,    \* the remote goroutine: "handshake", "asking", "setup", "serving", "over"
  prompts,  \* prompts shown so far
  reader,   \* "reading", "expired" (Read returned a timeout), "failed"
  armed,    \* a read deadline is set
  retry,    \* remoteReadTimeoutRetry
  force,    \* remoteReadForceRetryNextTimeout
  expired,  \* bookkeeping: expiries since the last prompt was answered
  total     \* bookkeeping: expiries in all

deadlineVars == <<phase, prompts, reader, armed, retry, force, expired, total>>

DeadlineTypeOK ==
  /\ phase \in {"handshake", "asking", "setup", "serving", "over"}
  /\ prompts \in 0 .. MaxPrompts /\ reader \in {"reading", "expired", "failed"}
  /\ armed \in BOOLEAN /\ retry \in BOOLEAN /\ force \in BOOLEAN
  /\ expired \in Nat /\ total \in 0 .. MaxExpiries

\* dialRemote: SetReadDeadline(Now + Timeout), then NewClientConn.
DeadlineInit ==
  /\ phase = "handshake" /\ prompts = 0 /\ reader = "reading" /\ armed = TRUE
  /\ retry = FALSE /\ force = FALSE /\ expired = 0 /\ total = 0

\* enableRemoteReadTimeoutRetry, when a prompt is sent to the browser.
Ask ==
  /\ phase = "handshake" /\ prompts < MaxPrompts
  /\ phase' = "asking" /\ prompts' = prompts + 1 /\ retry' = TRUE
  /\ UNCHANGED <<reader, armed, force, expired, total>>

\* The next timeout is retried even though the prompt is over.
ForceNext_Forgotten == UNCHANGED force
ForceNext == force' = TRUE

\* disableRemoteReadTimeoutRetry, when the answer is in (or the prompt cancelled).
Answered ==
  /\ phase = "asking" /\ phase' = "handshake"
  /\ retry' = FALSE /\ ForceNext /\ expired' = IF reader = "expired" THEN 1 ELSE 0
  /\ UNCHANGED <<prompts, reader, armed, total>>

\* NewClientConn returns; the session, its pipes, the terminal and the shell follow.
Connected ==
  /\ phase = "handshake" /\ phase' = "setup"
  /\ UNCHANGED <<prompts, reader, armed, retry, force, expired, total>>

\* clearConnInitialDeadline.
ClearDeadline ==
  /\ phase = "setup" /\ phase' = "serving"
  /\ retry' = FALSE /\ force' = TRUE /\ armed' = FALSE
  /\ UNCHANGED <<prompts, reader, expired, total>>

\* A pending Conn.Read times out.
Expire ==
  /\ phase # "over" /\ reader = "reading" /\ armed /\ total < MaxExpiries
  /\ reader' = "expired" /\ expired' = expired + 1 /\ total' = total + 1
  /\ UNCHANGED <<phase, prompts, armed, retry, force>>

\* requestTimeoutRetry, called by sshRemoteConnWrapper.Read under the lock.
RequestTimeoutRetry ==
  /\ phase # "over" /\ reader = "expired"
  /\ IF retry \/ force
     THEN reader' = "reading" /\ armed' = TRUE /\ force' = IF retry THEN force ELSE FALSE
     ELSE reader' = "failed" /\ UNCHANGED <<armed, force>>
  /\ UNCHANGED <<phase, prompts, retry, expired, total>>

\* A failed read ends the connection, and so the goroutine once it is not prompting.
GiveUp ==
  /\ reader = "failed" /\ phase \in {"handshake", "setup", "serving"} /\ phase' = "over"
  /\ UNCHANGED <<prompts, reader, armed, retry, force, expired, total>>

DeadlineNext == Ask \/ Answered \/ Connected \/ ClearDeadline \/ Expire \/ RequestTimeoutRetry \/ GiveUp

DeadlineSpec == DeadlineInit /\ [][DeadlineNext]_deadlineVars

----------------------------------------------------------------------------
ReadFails == reader # "failed" /\ reader' = "failed"

\* The time a user spends on a prompt is not the connection's: no timeout that
\* fires while a prompt is open, nor the first one after the answer (whose
\* deadline was set before it), fails the connection.
PromptsAreForgiven ==
  [][ReadFails => phase # "asking" /\ (prompts > 0 => expired >= 2)]_deadlineVars

\* What dialRemote says of its second result ("clears the initial read deadline
\* once the session is ready"): the reads of an established session do not time out.
EstablishedNeverTimesOut == [][ReadFails => phase # "serving"]_deadlineVars

============================================================================
