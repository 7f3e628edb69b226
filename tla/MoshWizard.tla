------------------------------ MODULE MoshWizard ------------------------------
(***************************************************************************)
(* The browser's half of the Mosh command (ui/commands/mosh.js). It asks   *)
(* the same questions as SSH in code of its own: the session is started    *)
(* over SSH, only the established traffic differs.                         *)
(***************************************************************************)
EXTENDS Naturals

\* A fresh Wizard; a preset's credential is the session's from the start.
New(how) == [started |-> FALSE, cached |-> how = "preset"]

\* The form of the Wizard, and the immediate request of the Executer.
WizardFirst   == [step |-> "initial", started |-> FALSE, requests |-> FALSE]
ExecuterFirst == [step |-> "wait", started |-> TRUE, requests |-> TRUE]
Connect       == [step |-> "wait", started |-> TRUE, requests |-> TRUE]

\* Wizard.close only resolves a failed outcome.
Closing == "error"

\* The Mosh object becomes the command of the stream and sends the request,
\* with the Mosh Server field between the method and the preset.
Opens == [frame |-> "initial", connected |-> FALSE]

OnInitial(success) == IF success THEN "wait" ELSE "error"

\* tick(): one stream of output and no stderr once connected.
Accepts(connected, body) ==
  IF connected THEN body = "data"
  ELSE body \in {"hook", "fingerprint", "credential", "connected", "failed"}

\* The verify callback: only a record equal to the key is recognised.
Recognised(known, key) == known # "none" /\ known = key

Shows(body, known, key, cached) ==
  CASE body = "hook" -> "wait"
    [] body = "fingerprint" /\ Recognised(known, key) -> "wait"
    [] body = "fingerprint" /\ ~Recognised(known, key) -> "fingerprint"
    [] body = "credential" /\ cached -> "wait"
    [] body = "credential" /\ ~cached -> "credential"
    [] body = "connected" -> "ok"
    [] body = "failed" -> "error"

AutoAnswer(body, known, key, cached) ==
  CASE body = "fingerprint" /\ Recognised(known, key) -> "accept"
    [] body = "credential" /\ cached -> "login"
    [] OTHER -> "none"

\* The buttons of the fingerprint and of the credential prompt.
FingerprintAnswer(go) == IF go THEN "accept" ELSE "reject"
CredentialAnswer(go)  == IF go THEN "login" ELSE "close"

OnCompleted(connected) == IF connected THEN "none" ELSE "error"

\* Command.launch: user@host|auth[|charset[|mosh server]], at most four parts.
LaunchAccepts(parts, valid) == parts \in 2 .. 4 /\ valid
==============================================================================
