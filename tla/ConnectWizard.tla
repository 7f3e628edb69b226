---------------------------- MODULE ConnectWizard ----------------------------
(***************************************************************************)
(* Establishing a session from the browser: the Connect window and its     *)
(* lock (ui/home.vue), the socket that is dialed on demand                 *)
(* (ui/socket.js), the wizard of a command (ui/commands/commands.js and    *)
(* the three protocol modules), the connector component that shows its     *)
(* steps (ui/widgets/connector.vue) and the stream slot the command runs   *)
(* on (ui/stream/).  The backend is reduced to the order of its frames;    *)
(* SshSession, MoshSession and StreamMux model it in full.                 *)
(*                                                                         *)
(* JavaScript runs every promise continuation before the next event: the   *)
(* actions of users, timers and the network are guarded by Quiet, the      *)
(* continuations (Continuation) are not and interleave with one another.   *)
(***************************************************************************)
EXTENDS Naturals, Sequences, FiniteSets

CONSTANTS
  NumSlots,     \* stream slots of a connection (64 in the code)
  MaxSessions,  \* bound: wizards built
  MaxDials,     \* bound: sockets dialed
  Writable,     \* whether the preset configuration can be written
  Keys          \* host keys a server may present

ASSUME WizardAssumption ==
  /\ NumSlots \in Nat \ {0} /\ MaxSessions \in Nat /\ MaxDials \in Nat /\ "none" \notin Keys
  /\ Writable \subseteq BOOLEAN

Ssh    == INSTANCE SshWizard
Mosh   == INSTANCE MoshWizard
Telnet == INSTANCE TelnetWizard

Slots    == 0 .. NumSlots - 1
Sessions == 1 .. MaxSessions
Prompts  == Ssh!Prompts
Outcomes == {"ok", "error"}
Steps    == Ssh!Steps

VARIABLES
  setup,      \* what the user picks; never changes
  conn,       \* the cached streams handler: "none", "up", "dying" (stopped, not yet cleared)
  dials,      \* sockets being dialed
  spent,      \* dials so far
  got,        \* Socket.get calls whose continuation is due
  lock,       \* connector.acquired and connector.busy
  inputting,  \* connector.inputting: the connector is in the window
  built,      \* wizards built; the newest is connector.connector
  ses,        \* every wizard with its command and stream sender
  ui,         \* the connector component
  slots,      \* the Stream objects
  up, down,   \* frames under way to and from each slot's backend command
  back,       \* the backend command of every slot
  store,      \* the fingerprint recorded with the preset
  tabs,       \* sessions shown in a tab
  stray       \* history: a frame reached a backend that has no use for it

homeVars == <<lock, inputting, built, tabs>>
sockVars == <<conn, dials, spent, got>>
wireVars == <<slots, up, down, back>>
vars == <<setup, sockVars, homeVars, ses, ui, wireVars, store, stray>>

\* The ways to a wizard: the form of a new session, a preset that lacks
\* something, a complete preset, a launcher in the URL. Only presets come with
\* a fingerprint and, when the configuration is writable, with a saver.
Setups ==
  [command : {"SSH", "Mosh", "Telnet"}, how : {"new"},
   saver : {FALSE}, parts : {0}, valid : {TRUE}] \cup
  [command : {"SSH", "Mosh"}, how : {"prompted", "preset"},
   saver : Writable, parts : {0}, valid : {TRUE}] \cup
  [command : {"Telnet"}, how : {"preset"}, saver : {FALSE}, parts : {0}, valid : {TRUE}] \cup
  [command : {"SSH", "Mosh", "Telnet"}, how : {"launch"},
   saver : {FALSE}, parts : {1, 3, 5}, valid : {TRUE}] \cup
  [command : {"SSH"}, how : {"launch"}, saver : {FALSE}, parts : {3}, valid : {FALSE}]

\* A launcher is followed once, when the home screen is mounted.
How(w) == IF setup.how = "launch" /\ w > 1 THEN "new" ELSE setup.how

\* The protocol of the picked command.
IsTelnet == setup.command = "Telnet"
By(ssh, mosh, telnet) ==
  CASE setup.command = "SSH" -> ssh [] setup.command = "Mosh" -> mosh [] IsTelnet -> telnet

Recognised(w, key) == By(Ssh!Recognised(ses[w].known, key), Mosh!Recognised(ses[w].known, key), FALSE)

\* A wizard that does not exist, and the component when it is not mounted.
NoSession == [at |-> "none", subs |-> <<>>, started |-> FALSE, closed |-> FALSE,
              slot |-> NumSlots, sender |-> "none", known |-> "none", key |-> "none",
              cached |-> FALSE, clicked |-> "none", saving |-> "no", accepted |-> FALSE]
NoUi == [w |-> 0, mounted |-> FALSE, cur |-> "empty", submitting |-> FALSE, working |-> FALSE,
         disabled |-> FALSE, cancelled |-> FALSE, loop |-> "off", closeWait |-> FALSE,
         leaving |-> FALSE]

FreeStream == [owner |-> 0, initing |-> FALSE, shut |-> FALSE, connected |-> FALSE]
FreeBack   == [at |-> "free", hooked |-> FALSE, fp |-> "unasked", cred |-> "unasked"]

Frames(b) == [body : {b}, key : Keys \cup {"none"}]
Frame(b)  == [body |-> b, key |-> "none"]

TypeOK ==
  /\ setup \in Setups
  /\ conn \in {"none", "up", "dying"} /\ dials \in Nat /\ spent \in Nat /\ got \in Nat
  /\ lock \in BOOLEAN /\ inputting \in BOOLEAN /\ built \in 0 .. MaxSessions
  /\ ses \in [Sessions -> [at : {"none", "live", "over"}, subs : Seq(Steps),
       started : BOOLEAN, closed : BOOLEAN, slot : 0 .. NumSlots,
       sender : {"none", "open", "closed"}, known : Keys \cup {"none"},
       key : Keys \cup {"none"}, cached : BOOLEAN,
       clicked : {"none", "continue", "save", "cancel"}, saving : {"no", "pending", "saved"},
       accepted : BOOLEAN]]
  /\ ui \in [w : 0 .. MaxSessions, mounted : BOOLEAN, cur : Steps \cup {"empty"},
       submitting : BOOLEAN, working : BOOLEAN, disabled : BOOLEAN, cancelled : BOOLEAN,
       loop : {"off", "waiting", "ended"}, closeWait : BOOLEAN, leaving : BOOLEAN]
  /\ slots \in [Slots -> [owner : 0 .. MaxSessions, initing : BOOLEAN, shut : BOOLEAN,
       connected : BOOLEAN]]
  /\ back \in [Slots -> [at : {"free", "dialing", "connected", "ended", "closed"},
       hooked : BOOLEAN, fp : {"unasked", "asked", "yes", "no"},
       cred : {"unasked", "asked", "yes"}]]
  /\ store \in Keys \cup {"none"} /\ tabs \subseteq Sessions /\ stray \in BOOLEAN

\* The keys are interchangeable: a preset starts with this one or with none.
SomeKey == CHOOSE k \in Keys : TRUE

Init ==
  /\ setup \in Setups
  /\ conn = "none" /\ dials = 0 /\ spent = 0 /\ got = 0
  /\ lock = FALSE /\ inputting = FALSE /\ built = 0
  /\ ses = [w \in Sessions |-> NoSession] /\ ui = NoUi
  /\ slots = [i \in Slots |-> FreeStream] /\ back = [i \in Slots |-> FreeBack]
  /\ up = [i \in Slots |-> <<>>] /\ down = [i \in Slots |-> <<>>]
  /\ store \in (IF setup.how \in {"prompted", "preset"} /\ ~IsTelnet THEN {SomeKey} ELSE {}) \cup {"none"}
  /\ tabs = {} /\ stray = FALSE

----------------------------------------------------------------------------
(* Promise continuations that are due.                                      *)

LoopDue    == ui.loop = "waiting" /\ ses[ui.w].subs # <<>>
LeaveDue   == ui.mounted /\ ui.leaving /\ ui.loop = "ended"
UnmountDue == ui.mounted /\ ~inputting
MountDue   == ui.w = 0 /\ inputting
ForgetDue  == ui.w # 0 /\ ~ui.mounted /\ ui.loop = "ended"
Quiet == got = 0 /\ ~LoopDue /\ ~LeaveDue /\ ~UnmountDue /\ ~MountDue /\ ~ForgetDue

\* Subscribe.resolve. Nothing reads the steps that follow an outcome.
Pushed(s, step) ==
  IF step = "none" \/ s.at # "live" THEN s ELSE [s EXCEPT !.subs = Append(@, step)]
Resolve(w, step) == ses' = [ses EXCEPT ![w] = Pushed(@, step)]

----------------------------------------------------------------------------
(* home.vue and the socket.                                                 *)

\* connect.vue offers nothing while a connector is shown; runConnect returns at
\* once while a connection is being acquired.
MayConnect == ~inputting /\ ~lock

\* connectNew, connectPreset, connectLaunch up to the await of Socket.get,
\* which hands out the cached handler or dials.
RunConnect ==
  /\ Quiet /\ MayConnect /\ built + dials < MaxSessions
  /\ lock' = TRUE
  /\ IF conn # "none"
     THEN got' = got + 1 /\ UNCHANGED <<dials, spent>>
     ELSE /\ spent < MaxDials
          /\ dials' = dials + 1 /\ spent' = spent + 1 /\ UNCHANGED got
  /\ UNCHANGED <<setup, conn, inputting, built, tabs, ses, ui, wireVars, store, stray>>

\* Socket.get once the dial succeeds: a handler of idle streams is served.
DialDone ==
  /\ Quiet /\ dials > 0
  /\ dials' = dials - 1 /\ conn' = "up" /\ got' = got + 1
  /\ UNCHANGED <<setup, spent, homeVars, ses, ui, wireVars, store, stray>>

\* end() of runConnect runs in every exit path.
LockAfterFailure == FALSE

\* Socket.get when it fails: callbacks.failed and, after the alert, end().
DialFailed ==
  /\ Quiet /\ dials > 0
  /\ dials' = dials - 1 /\ lock' = LockAfterFailure /\ inputting' = FALSE
  /\ UNCHANGED <<setup, conn, spent, got, built, tabs, ses, ui, wireVars, store, stray>>

\* buildPresetExecution: a preset that has everything is executed at once, as
\* is a launcher; the others fill in the form.
Executes(w) == How(w) \in {"preset", "launch"}
LaunchAccepts == By(Ssh!LaunchAccepts(setup.parts, setup.valid),
                    Mosh!LaunchAccepts(setup.parts, setup.valid),
                    Telnet!LaunchAccepts(setup.parts, setup.valid))
First(w) == IF Executes(w)
            THEN By(Ssh!ExecuterFirst, Mosh!ExecuterFirst, Telnet!ExecutorFirst)
            ELSE By(Ssh!WizardFirst, Mosh!WizardFirst, Telnet!WizardFirst)
NewWizard(w) == By(Ssh!New(How(w)), Mosh!New(How(w)), Telnet!New(How(w)))

\* Streams.request: the first stream that is not running. The sender of a
\* stopped handler drops the request without a word.
CanRequest == \E i \in Slots : slots[i].owner = 0
FreeSlot   == CHOOSE i \in Slots : slots[i].owner = 0 /\ \A j \in Slots : slots[j].owner = 0 => i <= j
Opens == By(Ssh!Opens, Mosh!Opens, Telnet!Opens)
Request(w) ==
  /\ slots' = [slots EXCEPT ![FreeSlot] =
       [FreeStream EXCEPT !.owner = w, !.initing = TRUE, !.connected = Opens.connected]]
  /\ up' = IF conn = "up" THEN [up EXCEPT ![FreeSlot] = Append(@, Opens.frame)] ELSE up
WithStream(s) == [s EXCEPT !.slot = FreeSlot, !.sender = "open", !.started = TRUE]

\* Builder.wizard, Builder.execute or Builder.launch: the wizard runs its first
\* step in its constructor.
Build(w) == [NoSession EXCEPT
  !.at = "live", !.subs = <<First(w).step>>, !.started = First(w).started,
  !.cached = NewWizard(w).cached /\ ~IsTelnet,
  !.known = IF How(w) \in {"prompted", "preset"} THEN store ELSE "none"]

\* getStreamThenRun after the await: run builds the wizard, end() unlocks. A
\* launcher that is malformed and a request without a free stream throw.
RunCallback ==
  /\ got > 0
  /\ got' = got - 1 /\ lock' = FALSE
  /\ LET w == built + 1 IN
     /\ built' = w
     /\ IF (How(w) = "launch" /\ ~LaunchAccepts) \/ (Executes(w) /\ ~CanRequest)
        THEN ses' = [ses EXCEPT ![w].at = "over"] /\ UNCHANGED <<inputting, slots, up>>
        ELSE /\ inputting' = TRUE
             /\ IF First(w).requests
                THEN ses' = [ses EXCEPT ![w] = WithStream(Build(w))] /\ Request(w)
                ELSE ses' = [ses EXCEPT ![w] = Build(w)] /\ UNCHANGED <<slots, up>>
  /\ UNCHANGED <<setup, conn, dials, spent, tabs, ui, down, back, store, stray>>

----------------------------------------------------------------------------
(* The connector component.                                                 *)

\* The slot of connect.vue renders the connector: mounted() starts runWizard.
Mount ==
  /\ MountDue
  /\ ui' = [NoUi EXCEPT !.w = built, !.mounted = TRUE, !.loop = "waiting", !.closeWait = TRUE]
  /\ UNCHANGED <<setup, sockVars, homeVars, ses, wireVars, store, stray>>

\* buildCurrent: what the component shows for a step.
Current(s, step) == [ui EXCEPT
  !.cur = step, !.submitting = FALSE,
  !.working = step \notin Outcomes /\ s.started,
  !.disabled = @ \/ step \in Outcomes]
Submittable == ui.cur \in Prompts
Cancellable == ui.cur \in Prompts /\ ui.working

\* The component's events reach connect.vue while it is mounted; a success
\* becomes a tab and the window closes.
Delivers_WhenIdle == ui.mounted /\ ~ui.working
Delivers == ui.mounted

\* A wizard after its outcome: only its stream sender, and a fingerprint that is
\* still being saved, matter from here on.
Over(s) ==
  IF s.saving = "pending" THEN [s EXCEPT !.subs = <<>>, !.closed = TRUE, !.at = "over"]
  ELSE [NoSession EXCEPT !.at = "over", !.closed = TRUE, !.slot = s.slot, !.sender = s.sender]

Settled(s) == IF s.at = "over" THEN Over(s) ELSE s

\* One turn of the runWizard loop: Wizard.next, which closes the wizard and
\* calls done() on an outcome, and buildCurrent.
LoopTurn ==
  /\ LoopDue
  /\ LET w == ui.w  step == Head(ses[w].subs) IN
     /\ ui' = [Current(ses[w], step) EXCEPT !.loop = IF step \in Outcomes THEN "ended" ELSE "waiting"]
     /\ ses' = [ses EXCEPT ![w] =
          IF step \in Outcomes THEN Over(@) ELSE [ses[w] EXCEPT !.subs = Tail(@)]]
     /\ IF step = "ok" /\ Delivers
        THEN inputting' = FALSE /\ lock' = FALSE /\ tabs' = tabs \cup {w}
        ELSE UNCHANGED <<inputting, lock, tabs>>
  /\ UNCHANGED <<setup, sockVars, built, wireVars, store, stray>>

\* closeWizard: the wizard is closed once and resolves a failed outcome.
CloseWizard(w) ==
  IF ui.closeWait /\ ~ses[w].closed
  THEN ses' = [ses EXCEPT ![w] = [Pushed(@, By(Ssh!Closing, Mosh!Closing, Telnet!Closing)) EXCEPT !.closed = TRUE]]
  ELSE UNCHANGED ses

\* sendCancel after the await of closeWizard: home.cancelConnection.
Leave ==
  /\ LeaveDue
  /\ inputting' = FALSE /\ lock' = FALSE
  /\ ui' = [ui EXCEPT !.leaving = FALSE]
  /\ UNCHANGED <<setup, sockVars, built, tabs, ses, wireVars, store, stray>>

\* beforeUnmount closes the wizard; the loop of the gone component ends on it.
Unmount ==
  /\ UnmountDue
  /\ CloseWizard(ui.w)
  /\ ui' = [ui EXCEPT !.mounted = FALSE, !.closeWait = FALSE]
  /\ UNCHANGED <<setup, sockVars, homeVars, wireVars, store, stray>>

Forget ==
  /\ ForgetDue /\ ui' = NoUi
  /\ UNCHANGED <<setup, sockVars, homeVars, ses, wireVars, store, stray>>

Continuation == RunCallback \/ Mount \/ LoopTurn \/ Leave \/ Unmount \/ Forget

----------------------------------------------------------------------------
(* The buttons.                                                             *)

\* The guards of submitAndGetNext and of runAction.
MaySubmit == ~ui.submitting /\ ~ui.disabled /\ Submittable
Clickable == Quiet /\ ui.mounted

\* Sender.send and Sender.close of a stream: nothing leaves a closed sender.
SendAllowed_Always(s) == s.sender # "none"
SendAllowed(s) == s.sender = "open"
Put(s, body) == up' = IF conn = "up" THEN [up EXCEPT ![s.slot] = Append(@, body)] ELSE up

\* "Connect" on the form. Without a free stream submit() throws and the form
\* stays, with hasStarted set.
SubmitInitial ==
  /\ Clickable /\ MaySubmit /\ ui.cur = "initial"
  /\ IF CanRequest
     THEN /\ Request(ui.w)
          /\ ses' = [ses EXCEPT ![ui.w] = Pushed(WithStream(@), By(Ssh!Connect, Mosh!Connect, Telnet!Connect).step)]
          /\ ui' = [ui EXCEPT !.submitting = TRUE]
     ELSE /\ ses' = [ses EXCEPT ![ui.w].started = TRUE]
          /\ UNCHANGED <<ui, slots, up>>
  /\ UNCHANGED <<setup, sockVars, homeVars, down, back, store, stray>>

\* An answer that is sent and followed by a wait screen. When the sender has
\* been closed in the meantime the answer throws: submitAndGetNext reports it,
\* cancelAndGetNext leaves "submitting" set.
Reply(w, body, mark, onThrow) ==
  IF SendAllowed(ses[w])
  THEN /\ Put(ses[w], body)
       /\ ses' = [ses EXCEPT ![w] = Pushed([mark EXCEPT !.accepted = @ \/ body = "accept",
                    !.sender = IF body = "close" THEN "closed" ELSE @], "wait")]
       /\ ui' = [ui EXCEPT !.submitting = TRUE]
  ELSE /\ ui' = [ui EXCEPT !.submitting = onThrow]
       /\ ses' = [ses EXCEPT ![w] = mark] /\ UNCHANGED up

\* "Continue", "Login" (submitAndGetNext) and "Cancel" (cancelAndGetNext) of a
\* prompt of the handshake.
AnswerFingerprint(go) == By(Ssh!FingerprintAnswer(go), Mosh!FingerprintAnswer(go), "none")
AnswerCredential(go)  == By(Ssh!CredentialAnswer(go), Mosh!CredentialAnswer(go), "none")
Answer(go) ==
  /\ Clickable /\ MaySubmit /\ (go \/ Cancellable)
  /\ \/ /\ ui.cur = "fingerprint"
        /\ Reply(ui.w, AnswerFingerprint(go),
                 [ses[ui.w] EXCEPT !.clicked = IF go THEN "continue" ELSE "cancel"], ~go)
     \/ /\ ui.cur = "credential"
        /\ Reply(ui.w, AnswerCredential(go), ses[ui.w], ~go)
  /\ UNCHANGED <<setup, sockVars, homeVars, slots, down, back, store, stray>>

\* "Save" (runAction): the fingerprint is saved with the preset first.
Save ==
  /\ Clickable /\ MaySubmit /\ ui.cur = "fingerprint" /\ setup.saver
  /\ ui' = [ui EXCEPT !.submitting = TRUE]
  /\ ses' = [ses EXCEPT ![ui.w].saving = "pending", ![ui.w].clicked = "save"]
  /\ UNCHANGED <<setup, sockVars, homeVars, wireVars, store, stray>>

\* runAction's finally: only the prompt the click was made on is released.
Released_Never(w) == ui
Released(w) == IF ui.w = w /\ ui.cur = "fingerprint" /\ ~ui.disabled
               THEN [ui EXCEPT !.submitting = FALSE] ELSE ui

\* The configuration service has saved the fingerprint: acceptFingerprint, even
\* when the connection has failed since.
SaveDone(w) ==
  /\ Quiet /\ ses[w].saving = "pending"
  /\ store' = ses[w].key
  /\ IF SendAllowed(ses[w])
     THEN /\ Put(ses[w], AnswerFingerprint(TRUE))
          /\ ses' = [ses EXCEPT ![w] = Pushed([@ EXCEPT !.saving = "saved", !.accepted = TRUE], "wait")]
     ELSE ses' = [ses EXCEPT ![w] = Settled([@ EXCEPT !.saving = "saved"])] /\ UNCHANGED up
  /\ ui' = Released(w)
  /\ UNCHANGED <<setup, sockVars, homeVars, slots, down, back, stray>>

\* It could not be saved: the action throws before acceptFingerprint.
AfterFailedSave(w) == [ses[w] EXCEPT !.saving = "no"]
SaveFailed(w) ==
  /\ Quiet /\ ses[w].saving = "pending"
  /\ ses' = [ses EXCEPT ![w] = Settled(AfterFailedSave(w))] /\ ui' = Released(w)
  /\ UNCHANGED <<setup, sockVars, homeVars, wireVars, store, stray>>

\* The Cancel button is shown with a prompt and with an outcome, and enabled
\* while nothing is being submitted.
ShowCancelButton == ui.cur # "empty" /\ (Submittable \/ (~ui.working /\ ui.disabled))
CancelEnabled == ShowCancelButton /\ ~ui.submitting /\ ~ui.cancelled

\* cancelFromButton on a form or an outcome: cancel() and sendCancel.
Cancel ==
  /\ Clickable /\ CancelEnabled /\ ~Cancellable /\ ~ui.working
  /\ CloseWizard(ui.w)
  /\ ui' = [ui EXCEPT !.cancelled = TRUE, !.leaving = TRUE, !.closeWait = FALSE]
  /\ UNCHANGED <<setup, sockVars, homeVars, wireVars, store, stray>>

\* closeTab of an established session: Control.close, SSH.sendClose.
CloseTab(w) ==
  /\ Quiet /\ w \in tabs
  /\ tabs' = tabs \ {w}
  /\ IF ses[w].sender = "open"
     THEN Put(ses[w], "close") /\ ses' = [ses EXCEPT ![w].sender = "closed"]
     ELSE UNCHANGED <<up, ses>>
  /\ UNCHANGED <<setup, sockVars, lock, inputting, built, ui, slots, down, back, store, stray>>

User == RunConnect \/ SubmitInitial \/ (\E go \in BOOLEAN : Answer(go)) \/ Save \/ Cancel
        \/ \E w \in Sessions : CloseTab(w)

----------------------------------------------------------------------------
(* The stream of a session.                                                 *)

Accepts(i, body) ==
  By(Ssh!Accepts(slots[i].connected, body), Mosh!Accepts(slots[i].connected, body),
     Telnet!Accepts(slots[i].connected, body))
Shows(w, f) == By(Ssh!Shows(f.body, ses[w].known, f.key, ses[w].cached),
                  Mosh!Shows(f.body, ses[w].known, f.key, ses[w].cached), Telnet!Shows(f.body))
AutoAnswer(w, f) == By(Ssh!AutoAnswer(f.body, ses[w].known, f.key, ses[w].cached),
                       Mosh!AutoAnswer(f.body, ses[w].known, f.key, ses[w].cached), "none")
OnInitial(success) == By(Ssh!OnInitial(success), Mosh!OnInitial(success), Telnet!OnInitial(success))
OnCompleted(c) == By(Ssh!OnCompleted(c), Mosh!OnCompleted(c), Telnet!OnCompleted)

Arrives(i, bodies) ==
  /\ Quiet /\ conn = "up" /\ down[i] # <<>> /\ Head(down[i]).body \in bodies
  /\ slots[i].owner # 0
  /\ down' = [down EXCEPT ![i] = Tail(@)]

\* Stream.initialize: a refused request frees the stream.
ReceiveInitial(i) ==
  /\ Arrives(i, {"started", "refused"}) /\ slots[i].initing
  /\ LET success == Head(down[i]).body = "started" IN
     /\ slots' = [slots EXCEPT ![i] = IF success THEN [@ EXCEPT !.initing = FALSE] ELSE FreeStream]
     /\ Resolve(slots[i].owner, OnInitial(success))
  /\ UNCHANGED <<setup, sockVars, homeVars, ui, up, back, store, stray>>

\* Stream.tick: the command resolves the next step, and answers at once what it
\* can answer.
ReceiveTick(i) ==
  /\ Arrives(i, {"hook", "fingerprint", "credential", "connected", "failed"})
  /\ ~slots[i].initing /\ ~slots[i].shut /\ Accepts(i, Head(down[i]).body)
  /\ LET f == Head(down[i])  w == slots[i].owner  answer == AutoAnswer(w, f) IN
     /\ answer # "none" => SendAllowed(ses[w])
     /\ ses' = [ses EXCEPT ![w] = Pushed([ses[w] EXCEPT
          !.key = IF f.body = "fingerprint" THEN f.key ELSE @,
          !.accepted = @ \/ answer = "accept"], Shows(w, f))]
     /\ IF answer = "none" THEN UNCHANGED up ELSE Put(ses[w], answer)
     /\ slots' = [slots EXCEPT ![i].connected = @ \/ f.body = "connected"]
  /\ UNCHANGED <<setup, sockVars, homeVars, ui, back, store, stray>>

\* Streams.handleClose: the command closes its sender, which signals CLOSE
\* unless it has already, and COMPLETED follows.
ReceiveClose(i) ==
  /\ Arrives(i, {"close"}) /\ ~slots[i].shut
  /\ LET w == slots[i].owner
         reply == IF ses[w].sender = "open" THEN <<"close", "completed">> ELSE <<"completed">>
     IN
     /\ up' = [up EXCEPT ![i] = @ \o reply]
     /\ ses' = [ses EXCEPT ![w].sender = "closed"]
  /\ slots' = [slots EXCEPT ![i].shut = TRUE]
  /\ UNCHANGED <<setup, sockVars, homeVars, ui, back, store, stray>>

\* Streams.handleCompleted frees the stream.
ReceiveCompleted(i) ==
  /\ Arrives(i, {"completed"}) /\ slots[i].shut
  /\ Resolve(slots[i].owner, OnCompleted(slots[i].connected))
  /\ slots' = [slots EXCEPT ![i] = FreeStream]
  /\ UNCHANGED <<setup, sockVars, homeVars, ui, up, back, store, stray>>

Receive(i) == ReceiveInitial(i) \/ ReceiveTick(i) \/ ReceiveClose(i) \/ ReceiveCompleted(i)

\* The socket breaks: Streams.clear closes and completes every running stream,
\* then awaits the sender.
Clear ==
  /\ Quiet /\ conn = "up"
  /\ conn' = "dying"
  /\ ses' = [w \in Sessions |->
       IF \E i \in Slots : slots[i].owner = w
       THEN Pushed([ses[w] EXCEPT !.sender = "closed"], OnCompleted(slots[ses[w].slot].connected))
       ELSE ses[w]]
  /\ slots' = [i \in Slots |-> FreeStream] /\ back' = [i \in Slots |-> FreeBack]
  /\ up' = [i \in Slots |-> <<>>] /\ down' = [i \in Slots |-> <<>>]
  /\ UNCHANGED <<setup, dials, spent, got, homeVars, ui, store, stray>>

\* cleared: the handler is forgotten, and the status callback takes the
\* connector out of the window.
Inputting_Kept == inputting
AfterCleared == FALSE
Cleared ==
  /\ Quiet /\ conn = "dying"
  /\ conn' = "none" /\ inputting' = AfterCleared
  /\ slots' = [i \in Slots |-> FreeStream]
  /\ UNCHANGED <<setup, dials, spent, got, lock, built, tabs, ses, ui, up, down, back, store, stray>>

----------------------------------------------------------------------------
(* The backend command of a slot.                                           *)

Sends(i, fs) == down' = [down EXCEPT ![i] = @ \o fs]
unchangedButBackend == <<setup, sockVars, homeVars, ses, ui, slots, store>>

\* handleStream on a free slot boots the command or refuses the request.
BackBoot(i) ==
  /\ Quiet /\ up[i] # <<>> /\ Head(up[i]) = "initial"
  /\ up' = [up EXCEPT ![i] = Tail(@)]
  /\ IF back[i].at # "free" THEN stray' = TRUE /\ UNCHANGED <<back, down>>
     ELSE /\ UNCHANGED stray
          /\ \/ /\ Sends(i, <<Frame("started")>>)
                /\ back' = [back EXCEPT ![i] = [FreeBack EXCEPT !.at = "dialing"]]
             \/ Sends(i, <<Frame("refused")>>) /\ UNCHANGED back
  /\ UNCHANGED unchangedButBackend

\* The remote goroutine before "connected": hook output, then its two
\* questions, each once, then the outcome.
Waiting(i) == back[i].fp = "asked" \/ back[i].cred = "asked"
Dialing(i) == Quiet /\ back[i].at = "dialing" /\ ~Waiting(i)
BackHook(i) ==
  /\ Dialing(i) /\ ~back[i].hooked /\ back[i].fp = "unasked"
  /\ back' = [back EXCEPT ![i].hooked = TRUE] /\ Sends(i, <<Frame("hook")>>)
  /\ UNCHANGED <<unchangedButBackend, up, stray>>
BackAsk(i) ==
  /\ Dialing(i) /\ ~IsTelnet
  /\ \/ /\ back[i].fp = "unasked"
        /\ \E k \in Keys : Sends(i, <<[body |-> "fingerprint", key |-> k]>>)
        /\ back' = [back EXCEPT ![i].fp = "asked"]
     \/ /\ back[i].fp = "yes" /\ back[i].cred = "unasked"
        /\ Sends(i, <<Frame("credential")>>) /\ back' = [back EXCEPT ![i].cred = "asked"]
  /\ UNCHANGED <<unchangedButBackend, up, stray>>
BackConnected(i) ==
  /\ Dialing(i) /\ (IsTelnet \/ back[i].fp = "yes")
  /\ back' = [back EXCEPT ![i].at = "connected"] /\ Sends(i, <<Frame("connected")>>)
  /\ UNCHANGED <<unchangedButBackend, up, stray>>
\* The dial or the login fails; a prompt nobody answers times out.
BackFailed(i) ==
  /\ Quiet /\ back[i].at = "dialing"
  /\ back' = [back EXCEPT ![i].at = "ended"] /\ Sends(i, <<Frame("failed"), Frame("close")>>)
  /\ UNCHANGED <<unchangedButBackend, up, stray>>
BackEnded(i) ==
  /\ Quiet /\ back[i].at = "connected"
  /\ back' = [back EXCEPT ![i].at = "ended"] /\ Sends(i, <<Frame("close")>>)
  /\ UNCHANGED <<unchangedButBackend, up, stray>>

\* local(): an answer, which may come after the remote goroutine has ended. A
\* second one, or one to a question that was not asked, is an error.
BackAnswered(i) ==
  /\ Quiet /\ up[i] # <<>> /\ Head(up[i]) \in {"accept", "reject", "login"}
  /\ up' = [up EXCEPT ![i] = Tail(@)]
  /\ LET asked == IF Head(up[i]) = "login" THEN back[i].cred ELSE back[i].fp
         fails == Head(up[i]) = "reject" /\ back[i].at = "dialing"
         known == [back[i] EXCEPT !.at = IF fails THEN "ended" ELSE @]
     IN
     /\ stray' = (stray \/ asked # "asked" \/ back[i].at \notin {"dialing", "ended"})
     /\ back' = [back EXCEPT ![i] =
          IF Head(up[i]) = "login" THEN [known EXCEPT !.cred = "yes"]
          ELSE [known EXCEPT !.fp = IF Head(up[i]) = "accept" THEN "yes" ELSE "no"]]
     /\ IF fails THEN Sends(i, <<Frame("failed"), Frame("close")>>) ELSE UNCHANGED down
  /\ UNCHANGED unchangedButBackend

\* handleClose ends the command, which signals CLOSE, and confirms.
BackClose(i) ==
  /\ Quiet /\ up[i] # <<>> /\ Head(up[i]) = "close"
  /\ up' = [up EXCEPT ![i] = Tail(@)]
  /\ stray' = (stray \/ back[i].at \in {"free", "closed"})
  /\ back' = [back EXCEPT ![i].at = "closed"]
  /\ Sends(i, IF back[i].at = "ended" THEN <<Frame("completed")>>
              ELSE <<Frame("close"), Frame("completed")>>)
  /\ UNCHANGED unchangedButBackend

\* handleCompleted releases the slot.
BackCompleted(i) ==
  /\ Quiet /\ up[i] # <<>> /\ Head(up[i]) = "completed"
  /\ up' = [up EXCEPT ![i] = Tail(@)]
  /\ stray' = (stray \/ back[i].at # "closed")
  /\ back' = [back EXCEPT ![i] = FreeBack]
  /\ UNCHANGED <<unchangedButBackend, down>>

BackReads(i) == BackBoot(i) \/ BackAnswered(i) \/ BackClose(i) \/ BackCompleted(i)
BackDials(i) == BackAsk(i) \/ BackConnected(i) \/ (BackFailed(i) /\ ~Waiting(i))
Backend(i) == BackReads(i) \/ BackHook(i) \/ BackAsk(i) \/ BackConnected(i) \/ BackFailed(i) \/ BackEnded(i)

Next ==
  \/ Continuation \/ User
  \/ DialDone \/ DialFailed \/ Clear \/ Cleared
  \/ \E w \in Sessions : SaveDone(w) \/ SaveFailed(w)
  \/ \E i \in Slots : Receive(i) \/ Backend(i)

\* Continuations run as soon as they are due; the network and the backend make
\* progress; nothing is assumed of the user, of the far end of a connected
\* session or of the prompt timeouts.
Fairness ==
  /\ WF_vars(Continuation)
  /\ WF_vars(DialDone \/ DialFailed) /\ WF_vars(Cleared)
  /\ \A w \in Sessions : WF_vars(SaveDone(w) \/ SaveFailed(w))
  /\ \A i \in Slots : WF_vars(Receive(i)) /\ WF_vars(BackReads(i)) /\ WF_vars(BackDials(i))

Spec == Init /\ [][Next]_vars /\ Fairness

----------------------------------------------------------------------------
(* Properties.                                                              *)

\* Every frame the browser sends finds a backend that is waiting for it: a
\* prompt is answered once however its buttons race, and an answer that is
\* late (a fingerprint saved after the connection failed) does not reach the
\* command that runs on the slot by then.
NoStrayFrame == ~stray

\* A host key is accepted because the preset records that very key, because
\* the user chose "Continue" for it, or because "Save" has recorded it.
AcceptIsJustified ==
  \A w \in Sessions : ses[w].accepted =>
    \/ ses[w].known = ses[w].key
    \/ ses[w].clicked = "continue"
    \/ ses[w].clicked = "save" /\ ses[w].saving = "saved"

\* A connector that is idle always offers a button, except on a wait screen
\* whose stream is alive (or about to be cleared) and while a fingerprint is
\* being saved: no combination of failures leaves the user locked in.
EveryScreenHasAWayOut ==
  (Quiet /\ ui.mounted) =>
    \/ MaySubmit \/ (CancelEnabled /\ (Cancellable \/ ~ui.working))
    \/ ses[ui.w].saving = "pending"
    \/ ui.cur = "wait" /\ (conn = "dying" \/ \E i \in Slots : slots[i].owner = ui.w)

\* An established session is in a tab, is being closed, or its success is about
\* to be shown: none goes on behind the user's back.
NoOrphan ==
  \A i \in Slots : slots[i].connected =>
    LET w == slots[i].owner IN
    w \in tabs \/ ses[w].sender = "closed" \/ (w = ui.w /\ "ok" \in {ses[w].subs[j] : j \in DOMAIN ses[w].subs})

\* One wizard at a time: a wizard that has no outcome yet is the one in the
\* window, whatever was clicked while the socket was being dialed.
OneWizard ==
  \A w \in Sessions : ses[w].at = "live" => w = built /\ (ui.w = w \/ (ui.w = 0 /\ inputting))

\* A wait screen, which has no buttons, comes to an end.
WaitEnds == (ui.mounted /\ ui.cur = "wait") ~> ~(ui.mounted /\ ui.cur = "wait")

\* The lock of the Connect window is released, whether the dial succeeds or not.
LockReleased == lock ~> ~lock
==============================================================================
