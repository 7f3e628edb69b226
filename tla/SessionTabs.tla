------------------------------ MODULE SessionTabs ------------------------------
(***************************************************************************)
(* The established sessions of the browser: the tabs of ui/home.vue, the   *)
(* Control of each (ui/control/), the console that shows its output        *)
(* (ui/widgets/screen_console.vue) and the streams they run on, reduced to *)
(* data, CLOSE and COMPLETED. Positions are counted from 1, the code       *)
(* counts from 0: position 0 stands for its -1.                            *)
(*                                                                         *)
(* JavaScript finishes every due continuation, and Vue its rendering,      *)
(* before the next event: an action is an event with what follows from it  *)
(* at once. What is awaited across events is the flush of a CLOSE, the     *)
(* loading of fonts and the next output of a session.                      *)
(***************************************************************************)
EXTENDS Naturals, Sequences, FiniteSets, SequencesExt

CONSTANTS
  MaxSessions,   \* bound: sessions that connect
  MaxData,       \* bound: pieces of output of a session
  MaxClosing     \* bound: tabs whose closing is under way at a time

ASSUME TabsAssumption ==
  MaxSessions \in Nat \ {0} /\ MaxData \in Nat /\ MaxClosing \in Nat \ {0}

Sessions == 1 .. MaxSessions
End == 0          \* the rejection that ends a session's output

VARIABLES
  conn,      \* the connection is up
  opened,    \* tab.lastID: sessions opened so far
  tabs,      \* tab.tabs
  current,   \* tab.current
  closes,    \* calls of closeTab that await the flush of their CLOSE, by position
  net,       \* stream: "none", "live", "leaving" (CLOSE queued), "left" (closed by the far end), "over"
  subs,      \* Control.subs: output nobody has received yet
  received,  \* history: pieces of output that arrived
  term,      \* the console: "none", "loading", "open", "gone"
  font,      \* its font: "asked", "fallback", "loaded"
  runner,    \* its receive loop: "none", "waiting", "ended"
  written    \* what it has written to the terminal

tabVars  == <<opened, tabs, current, closes>>
sesVars  == <<net, subs, received>>
termVars == <<term, font, runner, written>>
vars == <<conn, tabVars, sesVars, termVars>>

Texts == {"", "font", "terminated"}
NewTab(s) == [id |-> s, closing |-> FALSE, message |-> "", level |-> "", updated |-> FALSE]

TypeOK ==
  /\ conn \in BOOLEAN /\ opened \in 0 .. MaxSessions /\ current \in Nat
  /\ tabs \in Seq([id : Sessions, closing : BOOLEAN, message : Texts,
                   level : {"", "warning", "error"}, updated : BOOLEAN])
  /\ closes \in Seq([id : Sessions, at : Nat])
  /\ net \in [Sessions -> {"none", "live", "leaving", "left", "over"}]
  /\ subs \in [Sessions -> Seq(0 .. MaxData)] /\ received \in [Sessions -> 0 .. MaxData]
  /\ term \in [Sessions -> {"none", "loading", "open", "gone"}]
  /\ font \in [Sessions -> {"asked", "fallback", "loaded"}]
  /\ runner \in [Sessions -> {"none", "waiting", "ended"}]
  /\ written \in [Sessions -> Seq(1 .. MaxData)]

Init ==
  /\ conn = TRUE /\ opened = 0 /\ tabs = <<>> /\ current = 0 /\ closes = <<>>
  /\ net = [s \in Sessions |-> "none"] /\ subs = [s \in Sessions |-> <<>>]
  /\ received = [s \in Sessions |-> 0]
  /\ term = [s \in Sessions |-> "none"] /\ font = [s \in Sessions |-> "asked"]
  /\ runner = [s \in Sessions |-> "none"] /\ written = [s \in Sessions |-> <<>>]

Positions == DOMAIN tabs
Listed == {tabs[i].id : i \in Positions}
\* The position Vue passes with the events of a console.
At(s) == CHOOSE i \in Positions : tabs[i].id = s

----------------------------------------------------------------------------
(* The tabs.                                                                *)

\* switchTab: it needs the current tab to exist, and clears the mark of the
\* next one.
CanSwitch == current \in Positions \cup {0}
Switched(ts, to) == [ts EXCEPT ![to].updated = FALSE]

\* connectionSucceed and addToTab: a tab for the new session, which becomes the
\* current one when switchTab can leave the last.
Connected ==
  /\ conn /\ opened < MaxSessions
  /\ LET s == opened + 1  ts == Append(tabs, NewTab(s)) IN
     /\ opened' = s /\ tabs' = ts
     /\ current' = IF current \in DOMAIN ts \cup {0} THEN Len(ts) ELSE current
     /\ net' = [net EXCEPT ![s] = "live"] /\ term' = [term EXCEPT ![s] = "loading"]
  /\ UNCHANGED <<conn, closes, subs, received, font, runner, written>>

\* A click on a tab that is not the current one.
SwitchTab(i) ==
  /\ i # current /\ CanSwitch
  /\ current' = i /\ tabs' = Switched(tabs, i)
  /\ UNCHANGED <<conn, opened, closes, sesVars, termVars>>

\* removeFromTab: splice takes nothing at a position beyond the end. Vue
\* unmounts the console of the tab that goes.
NextCurrent_Stays(i) == current
NextCurrent(i) == IF i = Len(tabs) THEN Len(tabs) - 1 ELSE i
RemoveFromTab(i) ==
  /\ tabs' = IF i \in Positions THEN RemoveAt(tabs, i) ELSE tabs
  /\ term' = IF i \in Positions THEN [term EXCEPT ![tabs[i].id] = "gone"] ELSE term
  /\ current' = NextCurrent(i)

\* closeTab and Control.close. Closing a stream whose sender is closed resolves
\* at once; an open one signals CLOSE, and the promise waits for the flush.
Closing(i) == [tabs EXCEPT ![i].closing = TRUE]
AfterClose_Unclosed(s) == net[s]
AfterClose(s) == "leaving"
CloseTab(i) ==
  /\ ~tabs[i].closing /\ Len(closes) < MaxClosing
  /\ LET s == tabs[i].id IN
     IF net[s] = "live"
     THEN /\ tabs' = Closing(i) /\ closes' = Append(closes, [id |-> s, at |-> i])
          /\ net' = [net EXCEPT ![s] = AfterClose(s)]
          /\ UNCHANGED <<current, term>>
     ELSE RemoveFromTab(i) /\ UNCHANGED <<closes, net>>
  /\ UNCHANGED <<conn, opened, subs, received, font, runner, written>>

\* The await of closeTab returns or throws, in the order of the flushes: the
\* tab at the position of the click is removed either way.
Settle_OnSuccess(i) == IF conn THEN RemoveFromTab(i) ELSE UNCHANGED <<tabs, term, current>>
Settle(i) == RemoveFromTab(i)
CloseSent ==
  /\ closes # <<>>
  /\ closes' = Tail(closes)
  /\ Settle(Head(closes).at)
  /\ UNCHANGED <<conn, opened, sesVars, font, runner, written>>

----------------------------------------------------------------------------
(* The indicators of a tab.                                                 *)

\* tabMessage: a message replaces the last, a dismissal only its own.
Noted(s, text, level) == [tabs EXCEPT ![At(s)].message = text, ![At(s)].level = level]
Dismissed(s, text, level) ==
  IF tabs[At(s)].message = text /\ tabs[At(s)].level = level THEN Noted(s, "", "") ELSE tabs

\* tabStopped with the reason, tabUpdated.
Stopped(s) == Noted(s, "terminated", "error")
Updated(s) == [tabs EXCEPT ![At(s)].updated = (At(s) # current)]

----------------------------------------------------------------------------
(* The console of a session.                                                *)

\* init: the terminal opens in the remote font or, with a warning, in the
\* fallback; then runRunner starts the receive loop.
Opened(s, f) ==
  /\ term[s] = "loading"
  /\ term' = [term EXCEPT ![s] = "open"] /\ font' = [font EXCEPT ![s] = f]
  /\ runner' = [runner EXCEPT ![s] = "waiting"]
  /\ UNCHANGED <<conn, opened, current, closes, sesVars, written>>
FontLoaded(s)  == Opened(s, "loaded") /\ UNCHANGED tabs
FontMissing(s) == Opened(s, "fallback") /\ tabs' = Noted(s, "font", "warning")

\* retryLoadRemoteFont succeeds: the warning goes. A destroyed terminal is left
\* alone.
FontRetried(s) ==
  /\ font[s] = "fallback"
  /\ font' = [font EXCEPT ![s] = "loaded"]
  /\ tabs' = IF term[s] = "open" THEN Dismissed(s, "font", "warning") ELSE tabs
  /\ UNCHANGED <<conn, opened, current, closes, sesVars, term, runner, written>>

\* One turn of the receive loop: it writes what the Control has for it, or
\* stops with the reason. Once the terminal is destroyed it only ends.
Ends(s) == term[s] = "gone" \/ Head(subs[s]) = End
Shown(s) ==
  IF term[s] = "gone" THEN tabs
  ELSE IF Head(subs[s]) = End THEN Stopped(s) ELSE Updated(s)
Receive(s) ==
  /\ runner[s] = "waiting" /\ subs[s] # <<>>
  /\ subs' = [subs EXCEPT ![s] = Tail(@)]
  /\ runner' = [runner EXCEPT ![s] = IF Ends(s) THEN "ended" ELSE "waiting"]
  /\ written' = [written EXCEPT ![s] = IF Ends(s) THEN @ ELSE Append(@, Head(subs[s]))]
  /\ tabs' = Shown(s)
  /\ UNCHANGED <<conn, opened, current, closes, net, received, term, font>>

----------------------------------------------------------------------------
(* The streams.                                                             *)

\* "stdout", "stderr" and "inband": decoded and resolved. Output still comes
\* while a CLOSE is under way.
Data(s) ==
  /\ conn /\ net[s] \in {"live", "leaving"} /\ received[s] < MaxData
  /\ received' = [received EXCEPT ![s] = @ + 1]
  /\ subs' = [subs EXCEPT ![s] = Append(@, received[s] + 1)]
  /\ UNCHANGED <<conn, tabVars, net, termVars>>

\* The far end closes: the command closes its sender.
PeerClose(s) ==
  /\ conn /\ net[s] = "live"
  /\ net' = [net EXCEPT ![s] = "left"]
  /\ UNCHANGED <<conn, tabVars, subs, received, termVars>>

\* "completed": the Control is closed and its receiver rejected, behind the
\* output that came before.
Rejected_Drops(q) == <<End>>
Rejected(q) == Append(q, End)
Flushed(s) == \A j \in DOMAIN closes : closes[j].id # s
Completed(s) ==
  /\ conn /\ (net[s] = "left" \/ (net[s] = "leaving" /\ Flushed(s)))
  /\ net' = [net EXCEPT ![s] = "over"] /\ subs' = [subs EXCEPT ![s] = Rejected(@)]
  /\ UNCHANGED <<conn, tabVars, received, termVars>>

\* Streams.clear: every running stream is closed and completed.
Running == {s \in Sessions : net[s] \in {"live", "leaving", "left"}}
ConnectionLost ==
  /\ conn /\ conn' = FALSE
  /\ net' = [s \in Sessions |-> IF s \in Running THEN "over" ELSE net[s]]
  /\ subs' = [s \in Sessions |-> IF s \in Running THEN Rejected(subs[s]) ELSE subs[s]]
  /\ UNCHANGED <<tabVars, received, termVars>>

Next ==
  \/ Connected \/ CloseSent \/ ConnectionLost
  \/ \E i \in Positions : SwitchTab(i) \/ CloseTab(i)
  \/ \E s \in Sessions :
       FontLoaded(s) \/ FontMissing(s) \/ FontRetried(s) \/ Receive(s)
       \/ Data(s) \/ PeerClose(s) \/ Completed(s)

\* A flush comes to its end, fonts load or time out, the receive loop runs when
\* it can, and the backend confirms a CLOSE (StreamMux). Nothing is assumed of
\* the user and of the output.
Fairness ==
  /\ WF_vars(CloseSent)
  /\ \A s \in Sessions :
       WF_vars(FontLoaded(s) \/ FontMissing(s)) /\ WF_vars(Receive(s)) /\ WF_vars(Completed(s))

Spec == Init /\ [][Next]_vars /\ Fairness

----------------------------------------------------------------------------
(* Properties.                                                              *)

\* There is a current tab exactly when there are tabs, through every order of
\* opening, switching and closing, one close under way at a time (MaxClosing = 1):
\* without one, neither a click nor a new session can switch any more. Two closes
\* at once may leave current at no tab.
CurrentExists == IF tabs = <<>> THEN current = 0 ELSE current \in Positions

\* A session that goes on is in the tabs: closing one takes no other out of the
\* list, where nobody can end it, as long as one close is under way at a time.
NoSessionLost == \A s \in Sessions : net[s] = "live" => s \in Listed

\* A session is reported as terminated only after all it said before is on the
\* screen, in order, even when it ended while the console was still loading.
NothingCutOff ==
  \A s \in Sessions :
    /\ written[s] = [j \in 1 .. Len(written[s]) |-> j]
    /\ (s \in Listed /\ runner[s] = "ended") => Len(written[s]) = received[s]

\* The notice that a session has ended stays in its tab; the late arrival of a
\* font does not wipe it.
NoticeStays ==
  \A i \in Positions : runner[tabs[i].id] = "ended" =>
    tabs[i].message = "terminated" /\ tabs[i].level = "error"

\* A tab that is being closed goes.
ClosingTabGoes ==
  \A s \in Sessions :
    (\E i \in Positions : tabs[i].id = s /\ tabs[i].closing) ~> s \notin Listed

\* The receive loop of a tab that is gone comes to an end, though it waits for
\* output when the terminal is destroyed.
LoopEnds == \A s \in Sessions : (term[s] = "gone" /\ runner[s] = "waiting") ~> runner[s] = "ended"
==============================================================================
