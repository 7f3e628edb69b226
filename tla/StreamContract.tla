--------------------------- MODULE StreamContract ---------------------------
(***************************************************************************)
(* What the two ends of a connection promise each other about every        *)
(* stream, as application/command/header.go states it for its packet       *)
(* types: data only on an open stream, none after CLOSE, exactly one       *)
(* COMPLETED in response to each CLOSE and no other, a slot reopened only  *)
(* when both directions are completed. How the ends come to these steps    *)
(* (handlers, goroutines, flow control) is left to StreamMux.              *)
(***************************************************************************)
EXTENDS Naturals, Sequences

CONSTANTS Slots, ClientData, ServerData, Controls   \* frames by kind
CONSTANTS Initial(_), Close(_), Completed(_), Refused(_)

VARIABLES
  c2s, s2c,  \* frames under way
  up,        \* client's direction of a slot: "idle", "open", "closed"
  acked,     \* the client has answered the backend's CLOSE
  down,      \* backend's direction: "idle", "refusing", "open", "closed"
  owes,      \* the backend has taken a CLOSE and not yet answered it
  broken     \* the connection has ended or lost its frame boundaries

cvars == <<c2s, s2c, up, acked, down, owes, broken>>

Init ==
  /\ c2s = <<>> /\ s2c = <<>> /\ broken = FALSE
  /\ up = [s \in Slots |-> "idle"] /\ acked = [s \in Slots |-> FALSE]
  /\ down = [s \in Slots |-> "idle"] /\ owes = [s \in Slots |-> FALSE]

\* The client.

Up(s, from, to, f) ==
  /\ up[s] = from /\ up' = [up EXCEPT ![s] = to]
  /\ c2s' = Append(c2s, f) /\ UNCHANGED <<s2c, acked, down, owes>>

Open(s)       == Up(s, "idle", "open", Initial(s))
SendUp(s)     == \E f \in ClientData : f.slot = s /\ Up(s, "open", "open", f)
SendControl   == \E f \in Controls : /\ c2s' = Append(c2s, f)
                                     /\ UNCHANGED <<s2c, up, acked, down, owes>>
CloseUp(s)    == Up(s, "open", "closed", Close(s))

Take(f) == s2c # <<>> /\ Head(s2c) = f /\ s2c' = Tail(s2c)

\* CLOSE from the backend is answered at once, with a CLOSE of the client's own
\* if it has sent none.
AnswerUp(s) ==
  /\ Take(Close(s)) /\ up[s] # "idle" /\ ~acked[s]
  /\ c2s' = c2s \o (IF up[s] = "open" THEN <<Close(s), Completed(s)>> ELSE <<Completed(s)>>)
  /\ up' = [up EXCEPT ![s] = "closed"] /\ acked' = [acked EXCEPT ![s] = TRUE]
  /\ UNCHANGED <<down, owes>>

\* Both directions are completed: the slot is free.
FreeUp(s) ==
  /\ Take(Completed(s)) /\ up[s] = "closed" /\ acked[s]
  /\ up' = [up EXCEPT ![s] = "idle"] /\ acked' = [acked EXCEPT ![s] = FALSE]
  /\ UNCHANGED <<c2s, down, owes>>

ReceiveUp(s) ==
  /\ up[s] # "idle" /\ ~acked[s]
  /\ \/ \E f \in ServerData : f.slot = s /\ Take(f) /\ up' = up
     \/ Take(Refused(s)) /\ up[s] = "open" /\ up' = [up EXCEPT ![s] = "idle"]
  /\ UNCHANGED <<c2s, acked, down, owes>>

\* The backend.

Accept(f) == c2s # <<>> /\ Head(c2s) = f /\ c2s' = Tail(c2s)

OpenDown(s) ==
  /\ Accept(Initial(s)) /\ down[s] = "idle"
  /\ \E d \in {"open", "refusing"} : down' = [down EXCEPT ![s] = d]
  /\ UNCHANGED <<s2c, up, acked, owes>>

ReceiveDown ==
  /\ \/ \E f \in ClientData : Accept(f) /\ down[f.slot] \in {"open", "closed"} /\ ~owes[f.slot]
     \/ \E f \in Controls : Accept(f)
  /\ UNCHANGED <<s2c, up, acked, down, owes>>

Down(s, from, to, f) ==
  /\ down[s] = from /\ down' = [down EXCEPT ![s] = to]
  /\ s2c' = Append(s2c, f) /\ UNCHANGED <<c2s, up, acked, owes>>

Refuse(s)    == Down(s, "refusing", "idle", Refused(s))
SendDown(s)  == \E f \in ServerData : f.slot = s /\ Down(s, "open", "open", f)
CloseDown(s) == Down(s, "open", "closed", Close(s))

OweDown(s) ==
  /\ Accept(Close(s)) /\ down[s] \in {"open", "closed"} /\ ~owes[s]
  /\ owes' = [owes EXCEPT ![s] = TRUE] /\ UNCHANGED <<s2c, up, acked, down>>

AnswerDown(s) ==
  /\ owes[s] /\ down[s] = "closed"
  /\ s2c' = Append(s2c, Completed(s))
  /\ owes' = [owes EXCEPT ![s] = FALSE] /\ UNCHANGED <<c2s, up, acked, down>>

FreeDown(s) ==
  /\ Accept(Completed(s)) /\ down[s] = "closed" /\ ~owes[s]
  /\ down' = [down EXCEPT ![s] = "idle"] /\ UNCHANGED <<s2c, up, acked, owes>>

Next ==
  \/ /\ ~broken /\ ~broken'
     /\ \/ SendControl \/ ReceiveDown
        \/ \E s \in Slots : \/ Open(s) \/ SendUp(s) \/ CloseUp(s)
                            \/ AnswerUp(s) \/ FreeUp(s) \/ ReceiveUp(s)
                            \/ OpenDown(s) \/ Refuse(s) \/ SendDown(s) \/ CloseDown(s)
                            \/ OweDown(s) \/ AnswerDown(s) \/ FreeDown(s)
  \/ broken'  \* nothing is promised any more

Spec == Init /\ [][Next]_cvars

============================================================================
