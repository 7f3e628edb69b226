------------------------------ MODULE SshWizard ------------------------------
(***************************************************************************)
(* The browser's half of the SSH command (ui/commands/ssh.js): the steps   *)
(* its Wizard and Executer hand to the connector, what each frame of the   *)
(* backend turns into, and what each answer of the user sends.             *)
(***************************************************************************)
EXTENDS Naturals

\* The steps of the wizard, by what the connector has to show: a prompt, a
\* wait screen or an outcome.
Prompts == {"initial", "fingerprint", "credential"}
Steps == Prompts \cup {"wait", "ok", "error"}

\* A fresh Wizard: nothing has been requested, run() resolves the first step.
\* The credential of the session is empty unless the preset had one.
New(how) == [started |-> FALSE, cached |-> how = "preset"]

\* stepInitialPrompt of the Wizard shows the form, that of the Executer
\* requests the stream at once and waits.
WizardFirst   == [step |-> "initial", started |-> FALSE, requests |-> FALSE]
ExecuterFirst == [step |-> "wait", started |-> TRUE, requests |-> TRUE]

\* What "Connect" does: hasStarted, streams.request and the wait screen.
Connect == [step |-> "wait", started |-> TRUE, requests |-> TRUE]

\* Wizard.close only resolves a failed outcome; the stream is left alone.
Closing == "error"

\* The request opens a stream with the SSH object as its command; run() sends
\* the initial request.
Opens == [frame |-> "initial", connected |-> FALSE]

\* initialize() fires "initialized" or "initialization.failed".
OnInitial(success) == IF success THEN "wait" ELSE "error"

\* tick() accepts the markers of the handshake before "connected" only.
Accepts(connected, body) ==
  body \in IF connected THEN {"data"}
           ELSE {"hook", "fingerprint", "credential", "connected", "failed"}

\* The verify callback: the key of the server against the preset's record.
Recognised_AnyRecord(known, key) == known # "none"
Recognised(known, key) == known = key

\* The step each frame resolves. A recognised key and a remembered credential
\* are answered without a prompt.
Shows(body, known, key, cached) ==
  CASE body = "hook" -> "wait"
    [] body = "fingerprint" -> IF Recognised(known, key) THEN "wait" ELSE "fingerprint"
    [] body = "credential" -> IF cached THEN "wait" ELSE "credential"
    [] body = "connected" -> "ok"
    [] body = "failed" -> "error"

\* The answer sent along with that step, if any.
AutoAnswer(body, known, key, cached) ==
  CASE body = "fingerprint" /\ Recognised(known, key) -> "accept"
    [] body = "credential" /\ cached -> "login"
    [] OTHER -> "none"

\* stepFingerprintPrompt: "Continue" and "Cancel".
FingerprintAnswer(go) == IF go THEN "accept" ELSE "reject"

\* stepCredentialPrompt: "Login" answers, "Cancel" closes the stream.
CredentialAnswer(go) == IF go THEN "login" ELSE "close"

\* "@completed" resolves a failed outcome while no Control has taken its place.
OnCompleted(connected) == IF connected THEN "none" ELSE "error"

\* Command.launch: user@host|auth[|charset], every field verified.
LaunchAccepts(parts, valid) == parts >= 2 /\ valid
==============================================================================
