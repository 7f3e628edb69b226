----------------------------- MODULE TelnetWizard -----------------------------
(***************************************************************************)
(* The browser's half of the Telnet command (ui/commands/telnet.js): one   *)
(* form, then the outcome. The backend asks nothing.                       *)
(***************************************************************************)
EXTENDS Naturals

New(how) == [started |-> FALSE, cached |-> FALSE]

\* The form of the Wizard, and the immediate request of the Executor.
WizardFirst   == [step |-> "initial", started |-> FALSE, requests |-> FALSE]
ExecutorFirst == [step |-> "wait", started |-> TRUE, requests |-> TRUE]
Connect       == [step |-> "wait", started |-> TRUE, requests |-> TRUE]

Closing == "error"

\* The Telnet object becomes the command and sends the address alone.
Opens == [frame |-> "initial", connected |-> FALSE]

OnInitial(success) == IF success THEN "wait" ELSE "error"

\* tick(): hook output and the outcome of the dial, then in-band data.
Accepts(connected, body) ==
  IF connected THEN body = "data" ELSE body \in {"hook", "connected", "failed"}

Shows(body) ==
  CASE body = "hook" -> "wait" [] body = "connected" -> "ok" [] body = "failed" -> "error"

\* "@completed" does nothing: a stream that ends without an outcome leaves the
\* wizard without one.
OnCompleted == "none"

\* Command.launch: host[|charset], the rest is cut off.
LaunchAccepts(parts, valid) == parts >= 1 /\ valid
==============================================================================
