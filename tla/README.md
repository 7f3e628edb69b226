# ShellPort: specifications and proofs

ShellPort (repository `sshwifty`) is a browser terminal: a Go backend (`application/`) dials
Telnet, SSH and Mosh hosts and carries the sessions, multiplexed over one encrypted WebSocket,
to a Vue front end (`ui/`). This directory holds TLA+ modules of its concurrent and stateful
parts, the TLC configurations that check them on small instances, and TLAPS proofs of what
matters most for every size. Paths below are relative to the repository's `src/`.

1. [The system](#1-the-system)
2. [Plan](#2-plan)
3. [Modules](#3-modules)
4. [Runs and bounds](#4-runs-and-bounds)
5. [Fairness](#5-fairness)
6. [Proofs](#6-proofs)
7. [What the code gets wrong](#7-what-the-code-gets-wrong)
8. [Not modelled](#8-not-modelled)

To reproduce: `tlc -config X.cfg M` for a run, `tlapm M.tla` for a proof module.

## 1. The system

```
 browser                                        backend
 -------                                        -------
 Connect window: Wizard | tabs: Control, console
   |                                            telnet | ssh | mosh command (FSMMachine)
   |  sendData, close      events                 ^ tick, Close        | Write, Signal
 stream.Stream x 64                             stream x 64            v
 stream.Streams  <---- frames ---- FIFO ----    Handler (one goroutine), handlerSender (lock)
 sender.Sender (buffer, timer)                  rw.FetchReader
 socket.Socket (byte counters)                  socket packager
 AES-GCM  <------------- WebSocket ---------->  AES-GCM
                                                preset repository + file <--- PUT /presets
                                                Application.run: servers, signals, restart
```

| Component | Sources | State | Operations | What is hard |
|---|---|---|---|---|
| Multiplexer | `application/command/{handler,streams,fsm,header}.go`, `ui/stream/{streams,stream}.js` | per slot: FSM and command on one end, active/closed/initializing flags on the other; the sender's pause | request, data, CLOSE, COMPLETED, pause, resume, shutdown | both ends close at once; slot reuse; two goroutines per slot share one sender that a third can pause; the socket breaks anywhere |
| Telnet, SSH, Mosh commands | `application/commands/*.go`, `ui/commands/*.js`, `ui/control/*.js` | dial and session of a remote goroutine, answer channels, cached connection | Bootup, tick (`local`), `Close`, `Release`, the remote goroutine | the Handler goroutine waits for goroutines that write through the sender it controls; prompts cross closes; three parties may end a Mosh session |
| SSH read deadline | `application/commands/ssh.go` 433-545 | two flags and a deadline | prompts, retries, clearing | a timer races what clears it |
| Buffered sender | `ui/stream/sender.js`, `subscribe.js` | buffer, timer, queue, promises | send, flush, close, loop | awaits between read and write of shared state, failures in mid-send |
| Back-pressure | `ui/socket.js` 300-429, `handler.go` 184-253 | bytes received and not unpacked, paused | message, unpack, pause and resume requests | a pause no callback is left to end |
| Server life cycle | `application/application.go`, `application/server/server.go` | signal channel, `closeNotify`, servers | run, signal, failure, shutdown, restart | main, listeners and signals race for one channel |
| Preset store | `application/controller/preset_config.go`, `application/configuration/preset*.go`, `string.go` | live list, file, lock | PUT (save, replace), start, crash, hand edit | crash between file and list; merge of three views; hidden and encrypted passwords |
| Secure channel | `application/controller/socket*.go`, `ui/socket.js` 120-300, `ui/crypto.js` | nonce counters, key | dial, seal, open | counters advance across awaits; clock buckets |
| Connect window, wizards | `ui/home.vue` 340-765, `ui/home_preset_execution.js`, `ui/widgets/connect{,or}.vue`, `ui/commands/{commands,events,ssh,mosh,telnet}.js`, `ui/socket.js` `get` | lock of the window, dials, the wizard's queue of steps, the connector's flags, fingerprint of the preset | connect, launch, answer, save, cancel, outcome, socket cleared | clicks, awaited saves, dials and frames race; a wait screen has no button |
| Tabs and console | `ui/home.vue` 296-307, 743-926, `ui/widgets/{screens,screen_console,tab_list}.vue`, `ui/control/{ssh,mosh}.js` | tabs, current position, output queues, terminals, fonts | open, switch, close, receive, retry of a font | positions captured across an await; a session may end before its console is there |
| Telnet control and readers | `ui/control/telnet.js`, `ui/stream/reader.js` | parser position, options, local echo, size | inband, negotiate, escape, resize | frames cut anywhere; negotiations must neither loop nor starve |
| Echo, send delay | `streams.js` 237-312, `socket.js` 380-398, `handler.go` 209-229 | one echo under way | echo, timeout | late answers |
| Readers, codecs | `application/rw`, `header`, `address`, `integer`, `string` | buffer offsets | fetch, export, parse | boundaries; feeding and reading concurrently |
| Hooks, network, configuration, controllers, logging, user interface | rest of `application/` and `ui/` | little or none | | |

Interactions: a command's remote goroutine writes through `StreamResponder` to the one
`handlerSender`, whose lock and condition variable the Handler uses to obey the client's pause; the
Handler calls a command's state and `Close` in its own goroutine, so whatever they wait for stops
every stream of the connection. A wizard that succeeds hands its session, with the
stream and the events of its command, to a Control in a tab. The browser is one event loop: a tick,
a user action or a timer callback is atomic up to its next await. Presets are read by the SSH and Mosh commands through the
repository; a restart (SIGHUP) loads them from the file again.

**What makes the parts correct**

- Multiplexer: the browser never gets a frame that makes it reset the connection; the Handler never
  ends over the order of frames; every close handshake ends with the slot free on both sides and
  nothing of the old command under way; an emptied slot has no goroutine; a paused client gets
  silence; a broken socket leaves nothing.
- Commands: prompts are honoured (no authentication without the fingerprint's confirmation), frames
  arrive in the order the browser accepts, the Handler always comes back, a released slot keeps no
  connection, goroutine or watcher; an exit of the remote end is noticed.
- Sender: bytes leave once, in order; a promise is resolved if and only if its bytes went; nothing
  waits for ever. Back-pressure: whoever pauses resumes.
- Life cycle: a run ends for the reason it reports, after everything it started. Preset store: the
  list clients see is what a restart loads; passwords are neither lost nor shown; a save is narrow.
- Connect window and wizards: every answer finds the question it was given to; a host key is accepted
  for a reason; the user is never locked in a window; no session runs unseen.
- Tabs: a live session stays in reach and the current tab exists; output is complete and in order
  before the notice of the end; a tab being closed goes.
- Telnet: text and keys survive negotiation byte for byte, exactly one side echoes, the
  negotiations end.
- Channel: both ends count nonces in step and never use one twice.

The hazards behind these, each at its line, are the `hazards` of `PROJECT.json`.

## 2. Plan

Done, in this order (most important behaviour first):

1. `StreamMux` with Telnet as its command, `StreamContract` (what `header.go` promises) refined by it;
   proofs of typing, of goroutine ownership, of the pause, of the close handshake and of the refinement.
2. `SshSession`, `SshReadDeadline`, both with their proofs.
3. `BufferedSender`, `Backpressure`, both with their proofs: the transport assumptions of 1 and 2.
4. `AppLifecycle` with its proofs.
5. `PresetStore` with its proofs.
6. `MoshSession`, with its proofs.
7. `ConnectWizard` with one module per protocol (`SshWizard`, `MoshWizard`, `TelnetWizard`): how a session
   comes to be; with its proofs.
8. `SessionTabs` with its proofs: what becomes of it.
9. `TelnetControl` with its proofs: what a Telnet session does on the byte readers in between.

To come:

10. `SecureChannel`: nonce exchange, both counters, the key bucket, lost and failed frames; composed
    with `BufferedSender`, whose serial sends are what the counters rely on. Properties: a nonce is
    never used twice under a key, what one end opens is what the other sealed in that order, the
    same bucket means the same key. `increaseNonce` as a function against addition mod 2^(8n).
11. `EchoDelay`: one echo at a time, the late answer, the timeout value, the derived send delay.
12. `Readers`: `rw.FetchReader` and `LimitedReader` against a plain byte sequence.
13. `Codecs`: address, integer and string encodings against their values over bounded inputs.
14. The authentication page (`ui/app.js`) and the fields of the connector's form.

Further theorems: nonce agreement of `SecureChannel`.

The modules keep to what this needs: sizes are CONSTANTS with named assumptions, one action per
operation, helpers without RECURSIVE.

## 3. Modules

### StreamMux (and StreamContract)

Both ends of one connection with `NumSlots` slots. `cl[s]` is the browser's Stream and Sender (`active`,
`initing`, `sclosed`, `shut`), `srv[s]` the FSM of the slot, `rem[s]` the program counter of its remote
goroutine, `h` that of the Handler goroutine with the slot it serves, `c2s` and `s2c` the frames under
way. `senderPaused` and `needWait` are the fields of `handlerSender`: a goroutine may write only while
`~needWait`, and every temporary resume of a handler (`handleStream`, `handleClose`) is its own step, so
that all interleavings with the goroutines occur. `Handle*` actions are the handlers of one frame type,
`ClientTick` is `Streams.tick`, the `Remote*` actions are `telnetClient.remote`. `sendData` is cut into
segments with the transport's await between them (`SendData`, `NextSegment`), and only the first looks at
`closed`. A later segment may thus find its slot released, and `HandleBoot` does what `stream.reinit` does with
any frame there: it reads it as a request (`ReadAsRequest`) and refuses it with a frame of that slot, or boots a
command. The header it reads holds a shorter length than the one that was written, so a long segment is read in
part; the Handler has then lost the frame boundaries and may take what is left for any frame, or fail
(`Misframe`). `misread` records either case, `Framed` is the connection on which neither this nor an overtaken
response has happened, and `StuckOnSender` is a Handler that waits for ever over a late segment (section 7).

`StreamContract` is what the comments of `header.go` promise: per slot, each direction opens with a
request, carries data, and ends with one CLOSE answered by one COMPLETED. `StreamMux` implements it by the
mapping at the end of the module, up to the end of the connection (or the first of three defects, below).

### SshSession and SshReadDeadline

One SSH stream in full: hooks, dial, host key prompt, authentication with or without a prompt, session
set-up, delivery of the connection, stdout and stderr goroutines, the peer's channel windows, and the
two ends' close paths. `UserInput` starts a `sendData`, `NextSegment` sends what follows an await without looking
at `closed`; a late segment meets a closed machine, which ends `Handle`, or a released slot, where it is taken for a request:
the slot is then `reused`, and the module follows it no further (`StreamMux` does). Frames carry no slot: `StreamMux` shows that slots do not disturb each other.
`SshReadDeadline` isolates the deadline of the handshake with its two flags and the retry in
`sshRemoteConnWrapper.Read`; time is an expiry that may happen whenever a deadline is armed.

### MoshSession

One Mosh stream, its input in segments as for SSH. After the SSH bootstrap the remote goroutine (`rem`) builds the UDP session (`udp`),
caches it, starts the monitor on a second SSH session (`mon`) with its watcher (`watch`), waits until the
server answers and receives. The session can be ended by `Close` of the Handler (`CutAnswers`,
`MachineClose`, `CloseWait`), by the watcher when the server exits (`Watch`, `WatchCloses`), and by the
goroutine's deferred calls (`Leave`, `SignalClose`, `RemoteDone`), in any order.

### BufferedSender

`Sender` of the browser with `Subscribe` as its queue: `send` (several segments, flush at the segment size
or the request count), the timer, `close`, and the loop whose transport takes time and may fail.
Bytes are numbered by send, so order and ownership of every byte can be told.

### Backpressure

The counters of `Socket.get` in the browser and the two control requests, up to the Handler's
`senderPaused`. Sizes are bytes; the threshold and the factor are parameters.

### AppLifecycle

`Application.run` and `Run` as the program counter `main`, a goroutine per server (`serving`), the signal
channel with its registration and one-element buffer, `closeNotify` with its lock, `Shutdown` and `Wait`.

### PresetStore (MCPresetStore)

The live list (`runtime`), the file (entries with metadata as the file spells it), the server's key, and
one `put` record per HTTP handler: lock and checks (`Merge`, `Save`), reading and merging the file (`ReadFile`), replacing it
(`Write`), publishing the list (`Publish`). Crashes, starts (with the migration of passwords) and edits of the file by hand
happen in between; an edit that falls between the reading and the replacing is undone by the update, as in
the code, and `seen` tells which edits the update knew of. String values are
model values; `Resolve`, `Unknown` and `Cipher` tell how `String.Parse` reads them and what encryption
makes of them. `MCPresetStore` gives the files, requests and edits. `PresetAssumption` says what these
constants stand for: entries have known keys, ports are added once, every password in use can be
encrypted and decrypted.

### ConnectWizard (SshWizard, MoshWizard, TelnetWizard)

From a click to an established session, in the browser. `ConnectWizard` has what the protocols share:
`lock` and `inputting` are `connector.acquired`/`busy` and `connector.inputting` of `home.vue`, `conn` and
`dials` the cached handler and the dials of `Socket.get`, `ses[w]` a wizard with its queue of steps
(`subs`, the `Subscribe` of `commands.js`) and its stream's sender, `ui` the connector component with the
flags its template and methods look at, `slots` the Stream objects. The instances `Ssh`, `Mosh` and
`Telnet` say what differs: the first step, what a frame turns into, which prompt is answered without
the user, what closing does, which launchers are well formed.

The continuations of promises (`RunCallback`, `Mount`, `LoopTurn`, `Leave`, `Unmount`, `Forget`) interleave
with one another and go before every event: user, timer and network actions have the guard `Quiet`, as
an event loop runs all microtasks first. `Save` and `SaveDone`/`SaveFailed` are two events, because the
service that records a fingerprint answers later. The backend is a record per slot (`back`) that
sends frames in the orders `SshSession`, `MoshSession` and `StreamMux` allow and notes in `stray` when a
frame reaches it in a state that has no use for it. `Clear` and `Cleared` are the two halves of a broken
socket, with the await of `Streams.clear` between them.

### SessionTabs

The sessions once they are established. `tabs` and `current` are those of `home.vue` (positions from 1,
0 for the code's -1), `closes` the calls of `closeTab` that await the flush of their CLOSE, each with the
position it captured; `subs[s]` is the queue of a Control, ended by the rejection `End`; `term`, `font` and
`runner` are the console: loading a font, open, gone, and its receive loop. An action is an event with
the continuations and the rendering that follow at once. A lost connection (`ConnectionLost`) closes and
completes every running stream.

### TelnetControl

The `Parser` and `Control` of an established Telnet session, against a server that negotiates by RFC 854
and RFC 1143 (the Q method without its queues). A byte is the name of its meaning, and `Inband`
gives the parser one byte: `readUntil`, `readOne` and `Multiple.export` wait at the end of a frame exactly as
they go on inside one, so frames of one byte stand for every cut. `ctl.at` is the place of `run()` at which
it waits: text, command, option, subnegotiation, or dead, when the reader is closed or an unknown
command has thrown. `pending` is the promise `Streams.serve` awaits for a frame nobody reads. A window
size is one token for its four bytes unless one of them is 255, which the code writes as it is: `Wide` and `Tall`
are the sizes whose columns or rows end in such a byte, and a terminal nobody has sized sends four of them.
The server reads a command of several bytes at once, as far as it has arrived, and nobody acts on a closed session
(`Quiet`).

### How they compose

- `StreamMux` treats a command as the Telnet one; `SshSession` and `MoshSession` each put another command
  in one slot and repeat only the part of the Handler the command sees.
- The queues `c2s` and `s2c` are FIFO and lossless until the link breaks. TCP and the WebSocket give this
  for `s2c`; for `c2s` it rests on `BufferedSender`'s `NothingLostOrReordered`.
- Resume in the sessions is fair because of `Backpressure`'s `SilenceEnds`.
- `PresetStore` has no update that spans two runs except by a crash: `AppLifecycle`'s `NothingOutlivesRun`.
- `ConnectWizard` ends where `SessionTabs` begins: its `tabs` are the sessions `Connected` adds. Its backend
  is the other modules' order of frames; that COMPLETED follows CLOSE is `StreamMux`'s `ClosedStreamIsFreed`.
- `SessionTabs` relies on the same property for `Completed`, and on `BufferedSender`'s `EverySendSettles` for
  `CloseSent`.
- `TelnetControl` takes both byte streams as FIFO and lossless (`NothingLostOrReordered`); `ServeGoesOn` is
  what `StreamMux` assumes of a command when it handles the next frame.
- Prompts are answered in time for the connection: `SshReadDeadline`'s `PromptsAreForgiven`.

One simplification is shared by the session modules: they start after the initial response, whose race
with the first frame belongs to `StreamMux`. They also ask for the host key once; the SSH library may call
the callback again when keys are renegotiated, which is outside them.

## 4. Runs and bounds

Passing runs (distinct states in brackets):

| Run | Instance | Shows |
|---|---|---|
| `mux_one_slot` (471,401) | 1 slot, 2 runs, 2-segment paste, 1 output, 1 pause, 1 frame read out of lost boundaries | the close handshake in every crossing, slot reuse, pause, teardown, refinement of `StreamContract` |
| `ssh_prompts` (244,010) | hooks, both prompts, 1 output per stream, 1 input of up to 2 segments, 1 pause, window 1 | frames accepted, the Handler comes back (two named exceptions), nothing left, a closed session is freed |
| `ssh_deadline_prompts` (259) | 2 prompts, 4 expiries | prompts cost no connection time |
| `mosh_session` (300,345) | 1 hook output, 1 output, 1 input of up to 2 segments, 1 pause | every order of three closers: frames accepted, nobody watches a dead session, the Handler comes back, exit noticed |
| `sender_flushes` (45,620) | 3 sends of up to 5 bytes, segments of 3, 2 buffered requests, failures | order, truthfulness and settling of promises |
| `backpressure` (13,300) | messages up to 3, threshold 3, factor 2, 14 bytes | pauses end and alternate |
| `lifecycle` (5,878) | 2 servers, 1 request each, SIGHUP and interrupt | a run cleans up, ends for its reason, shutdown ends |
| `presets` (469,221) | 3 identifiers, 2 concurrent handlers, 2 updates, crash, edit, key or none | restart, passwords, narrow saves |
| `connect_wizard` (249,545) | 2 wizards one after another on 1 slot, 2 dials, 2 host keys, every protocol and every way to start one | answers find their question, host keys, ways out of every screen, no unseen session, wait screens end |
| `session_tabs` (37,700) | 2 sessions of 2 outputs, one close under way at a time | current tab, live sessions listed, output complete before the notice, a closing tab goes |
| `telnet_control` (567,088) | 2 negotiations begun, over any of 5 options, 1 text byte (a 255), 1 key (a 255), 1 resize, a Go-Ahead, no 255 in a size | bytes intact both ways, one side echoes, negotiations end |

Why the bounds are enough: 2 runs of a slot reach every reuse after every kind of close, 1 output
and 1 pause already give a goroutine that is writing, waiting or about to write at every step of the
handshake, and more of them only repeat these positions (`senderPaused` is a Boolean). Two segments
are the least that have an await between them. One frame read out of lost boundaries (`MaxJunk`) may
already swallow any part of the queue and be any frame. A window of 1 makes a full window
reachable with one frame. Three sends of two segments fill, overflow and leave the buffer; 14 bytes
pause and resume the backend at least twice. Two servers are the least with a failure beside an
`ErrServerClosed`. Two handlers and two updates are the least for a lost update.

Two wizards on one slot are the least with a late answer of the first that could reach the command of
the second; two dials give one that fails or breaks and one that follows; two keys are the one on record
and another. Two sessions have a current and a background tab in both positions; two outputs can be
swapped or cut off. Three tabs with two closes under way are the least for the finding below, two tabs with two
closes for its second symptom (`SessionTabs_current.cfg`), so the passing run keeps one close at a time
(`MaxClosing = 1`), and `CurrentExists` and `NoSessionLost` are claimed under that condition only. One text byte and one key are both 255, the byte
that has to be escaped, and two negotiations are the least that cross or undo each other.

Each property of these runs has a mutant in `PROJECT.json`: a plausible bug of the mapped code under
which TLC finds that property violated in the same run.

One violation is listed, `session_tabs_close` (section 7). Further configurations are kept beside these,
each with one question:

| Configuration | Result |
|---|---|
| `StreamMux_two.cfg` | passes (755,833 states): two slots do not disturb each other; `TypeOK`; every error of the Handler has its cause (`HandlerErrorsExplained`) |
| `MoshSession_types.cfg` | passes, with 2 inputs: `TypeOK`, `OnlyConfirmedHosts`, `HandlerErrorsExplained`, `ReleasedLeavesNothing` |
| `Backpressure_ends.cfg` | passes: `SilenceEnds` |
| `PresetStore_types.cfg` | passes: `TypeOK`; presets a request does not name survive it, unless edited between its reading and its replacing of the file (`StrangersSurvive`) |
| `ConnectWizard_types.cfg` | passes: `TypeOK`, one wizard at a time, the lock is released |
| `SessionTabs_types.cfg` | passes: `TypeOK`, `NoticeStays`, `LoopEnds` |
| `StreamMux_initial.cfg` | `InitialResponseFirst` violated |
| `StreamMux_paste.cfg` | `NoSegmentAfterClose`, `NoSegmentMisread` violated (both with `-continue`) |
| `SshSession_refusal.cfg`, `_paste.cfg` | `RefusalReturns`, `InputReturns` violated |
| `SshReadDeadline_established.cfg` | `EstablishedNeverTimesOut` violated |
| `AppLifecycle_failure.cfg`, `_term.cfg`, `_interrupt.cfg` | `FailureEndsRun`, `CleanShutdown`, `InterruptObeyed` violated |
| `PresetStore_cipher.cfg`, `_exact.cfg`, `_reference.cfg` | `StartsAgain`, `RestartExact`, `RestartKeeps` violated |
| `MoshSession_input.cfg` | `InputNeverEndsHandler` violated |
| `SessionTabs_current.cfg` | `CurrentExists` violated by two closes under way |
| `TelnetControl_nop.cfg`, `_size.cfg`, `_tall.cfg` | `ServeGoesOn`, `SizeKnown`, `BytesIntact` violated |

`CHECK_DEADLOCK FALSE` stands where a behaviour may really end: a connection that is closed, a process
that has exited, a bound that is spent.

## 5. Fairness

Weak fairness only, of steps the Go scheduler or the event loop takes by itself: goroutine steps, the
Handler, ticks of the browser, the sender's loop. It covers what a deadline bounds (hooks, dial,
authentication, `Recv`, `AwaitReady`) since each of them returns at its timeout, and reads on a closed
connection, which fail. In `StreamMux` a read error is fair only once the backend has closed the
connection. Not fair: the user, the peer, the link, signals, failures, Mosh's `NewSession` of the monitor
(it has no deadline) and the remote mosh-server's exit. `Resume` is fair in the sessions, as `SilenceEnds`
of `Backpressure` justifies; `StreamMux` needs no such assumption. `EchoSpec` adds a peer that
reads and echoes whenever it can. In `MoshSession` the command that watches the server reports its end
while the SSH connection is open, and fails once it is closed.

In `ConnectWizard` the continuations, the end of a dial, the clearing of a broken socket, the answer of
the configuration service, the arrival of frames and the backend up to its outcome are fair; the dial
has a timeout and the backend fails a connection that takes too long. What a user does is not fair, nor is
the time limit of a prompt. Its backend has no refusal deadlock (section 7), so `WaitEnds` is about
the browser. In `SessionTabs` fonts load or time out, a flush ends, the receive loop runs and a CLOSE is
confirmed; output, clicks and the far end are not fair. In `TelnetControl` only the arrival and
reading of what is under way is fair; what the server or the user begins is not.

## 6. Proofs

All 47 theorems hold for every value of the constants, under the bounds' assumptions only (naturals,
where needed positive, and what `PresetAssumption` says of the values of `PresetStore`), and use no
fairness. Those of `SessionTabsProofs` assume `MaxClosing = 1` in their statements, two of
those about `PresetStore` assume `PlainValues` or `NoBlanks`, and those of `TelnetControlProofs` assume `Plain` and `Fits`, one
of them also that the server never asks the client to echo.

| Module | Theorem | Invariant and argument |
|---|---|---|
| `StreamMuxProofs` | `TypeCorrect` | `TypeOK` is inductive because it ties the Handler's state to the slot state it may be in; one lemma per group of actions, with lemmas for typed updates of records and queues |
| | `NoOrphanGoroutine` | `ClosedAreStopped`: an emptied slot, and a Handler past `closeWait`, have a goroutine that is done; needed since releasing follows waiting by several steps on three paths |
| | `PauseIsObeyed` | `PausedWaits`: between requests a paused sender makes writers wait; `needWait` is what writers look at, so `senderPaused` alone is not inductive |
| | `FramesAreAccepted`, `SlotsAreReusable` | `InStep`, below |
| | `ContractImplemented` | `InStep` and `InOrder`, below |
| `SshSessionProofs` | `TypeCorrect` | type groups, one per process |
| | `ReleasedIsClean` | `Ended`: a closed slot nobody waits for has a goroutine that is done; the stderr goroutine lives inside the session; the connection is closed before the goroutine tells so |
| | `HostsAreConfirmed` | `Confirmed`: the question is asked once and is at one place; a "yes" under way or passed on is the user's |
| | `FramesAreAccepted` | `Wired`, below |
| | `ErrorsAreExplained` | `Harmless`, below |
| | `PromptsForgiven` (of `SshReadDeadline`) | during a prompt the retry flag is set, after it the forced retry is, until an expiry consumes it |
| `MoshSessionProofs` | `TypeCorrect`, `ReleasedIsClean`, `HostsAreConfirmed`, `FramesAreAccepted` | as for SSH: types, `Ended`, `HostChecked`, `Wired` |
| | `ErrorsAreExplained` | `Explained`, below |
| `FlowProofs` (of `Backpressure`) | `NeverPausedForGood` | `Accounted`: the counters differ by the backlog; `PausesAttached`, `PausedMeansBacklog` |
| | `PausesAlternate` | requests under way alternate and the last is the client's state |
| `FlowProofs` (of `BufferedSender`) | `SenderTypes`, `NothingIsLost`, `ResolvedWasSent`, `NothingIsForgotten`, `CloseHasSettled` | `SenderInv`, below |
| `ServerProofs` (of `AppLifecycle`) | `LifeTypes`, `RunLeavesNothing`, `OutcomeExplained` | one invariant: types, what an undisturbed server may have reported, which errors only a shutdown causes, who is registered, how far joined servers have come |
| `ServerProofs` (of `PresetStore`) | `StoreTypes`, `RestartsKeep`, `PasswordsHidden`, `SavesAreNarrow`, `PasswordsKept`, `StrangersKept` | `StoreState`, below |
| `ConnectWizardProofs` | `TypeCorrect`, `AnswersFindTheirQuestion`, `AcceptedForAReason`, `NobodyIsLockedIn`, `NoSessionUnseen`, `OneWizardAtATime` | `IInv`, below |
| `SessionTabsProofs` | `TypeCorrect`, `LiveSessionsListed`, `CurrentTabExists`, `OutputComplete` | `IInv`, below |
| `TelnetControlProofs` | `TypeCorrect`, `WrittenIsRead`, `OneOfThemEchoes`, `ServeNeverStuck` | `IInv`, below |

Their statements name definitions of the modules: properties of the listed runs, the `TypeOK` of each module,
`StrangersSurvive` of `PresetStore`, `OneWizard` of `ConnectWizard`, `ServeGoesOn` of `TelnetControl`, and `NothingForgotten` and `CloseSettles` of `BufferedSender`, which imply the safety part of what
`EverySendSettles` asks. The strengthened invariants were checked by TLC too before they were proved.

`StreamMuxProofs`: `AcceptableToClient` and `FreeSlotIsReusable` compare what the browser believes of a slot with
frames under way in either direction, so neither is inductive. `InStep` says of every slot where its
handshake is and holds all of it together: which frames of the slot `s2c` may hold, each one accepted after
those before it (`Lane`); that `c2s` has one request, one CLOSE and one COMPLETED at most, the CLOSE first and a
new request last (`UpOrder`, `UpLane`); and what the browser's flags (`ClientPhase`), the Handler
(`HandlerPhase`) and the remote goroutine (`RemotePhase`) imply for each other and for both queues. It holds
while the connection serves and is `Framed`: a frame that overtakes its initial response meets a browser that
is not ready, and a late segment read as a request brings forth frames nobody asked for. The proof goes by action and slot, with lemmas for what a frame taken from a queue or
appended to it means for the slot it belongs to and for the others.

`ContractImplemented` adds `InOrder`: a sender has no segment left that it may not send, a closed slot asks for no
second close, and streams are shut down only after `Handle` has failed (`Settled`). Every action then maps to
the contract's step of one slot or leaves `UpMap`, `AckedMap`, `DownMap` and `OwesMap` alone. The contract ends
with `Broken`: after `herr` the connection is gone, and `overtaken`, `lateSeg` and `misread` are the defects of section 7
in which the code itself breaks the promise of `header.go`.

`FlowProofs`: the promise of a send is settled by the segment that holds its last byte, so
`ResolvedMeansSent` needs to know where every byte is. `SenderInv` has, beside `TypeOK` and
`NothingLostOrReordered`: what the loop holds in each of its states (`LoopState`), how far `close` has come and
that nothing follows its flush (`ClosePhase`), that gathered data has a timer or a flush to come (`FlushDue`),
that a queued item holds the bytes of one send, still pending, and no two items those of the same one
(`QueueItems`), that the bytes the loop holds are of the sends among the callbacks, none of them resolved,
and that a send which lost a segment is rejected (`CallbackState`), and that every pending send is in the
queue or among the callbacks (`Promised`).
`Waiting` concatenates the queue with `FlattenSeq`, which the library defines by a recursive function: that it
exists, is unique and distributes over `Append` and `Tail` is proved by induction over the length, from
`WFMin` of `WellFoundedInduction` applied to the set of counterexamples. Only the assumption on the bounds is used.

`ServerProofs`, `PresetStore`: what a restart loads is computed from the file, what the clients see is the live list, and
a step changes one of the two at a time. `StoreInv` relates them entry by entry: outside
hand edits the file *backs* the live list, or, between write and publish, the list about to be published
(`Backed`). An entry backs a preset (`Backs`) if it has its type, its host before ports are added, all its keys
and possibly more, but no password in the clear next to a key and no password of a preset that does not use
one: keys an update removed stay in the file, so equality would be false. Presets are as `ApplySecrets` leaves
them (`Normal`), so that doing it again changes nothing, and a request's `current` is the live list as long
as it holds the lock (`PutOK`). What it is about to write was merged from a file `g` that differs from the present
one in entries edited since at most (`Source`, `Draft`), so the lemma about merging (`Merges`) is about `g`, and
`StrangersKept` excepts those entries (`Endangered`). `Keeps` and `Narrow` say of the list in the making what `PasswordKept` and
`SaveIsNarrow` say once it is written and published. The lemmas go from one value (`CipherInverse`, `PortsOnce`)
over one preset (`SealedIs`, `MadeNormal`), one merged entry (`MergeKeys`, `MergeBacks`, `MergeReads`, `SavedEntry`)
and the merged file (`MergedBacks`) to the actions.
That entries also *read* as what they back (`Readback`) needs `PlainValues`: no value a client sends, a
reference stands for or encryption yields is itself spelled like a reference. `PresetStore_reference.cfg`
shows that `RestartKeeps` is false otherwise; `PasswordsHidden` and `PasswordsKept` hold without it. The other hypothesis, `NoBlanks`, is the case
described in section 7 under "Met while modelling". Both hold in the run `presets`, whose invariants `StoreInv`, `Readback` and
`Narrow` TLC confirmed first.

`SshSessionProofs`: `NoFrameIsRefused` speaks of the head of the queue, so `Wired` says of the whole queue
that the browser accepts it frame after frame (`Orderly`: nothing of the handshake after "succeed",
output only after it, only COMPLETED after CLOSE, nothing after that) and ties it to how far the goroutine
and the Handler are (`Phased`). Two lemmas carry the argument: the tail of an orderly queue is orderly for
the state its head leads to, and a frame in its phase may be appended. The stderr goroutine needs
`Ended`. `HandlerErrorsExplained` allows one error, a segment behind its CLOSE, and needs the other queue:
`Answerable` says that a question is at one place at a time (under way, in the prompt, answered), that the
goroutine waits for it and the browser has not closed, and that input finds a connection; `Early` that until a
segment is late there is no input behind a CLOSE or for a closed slot. It rests on `Wired`: a frame the browser refused would leave its input behind.

`MoshSessionProofs` goes the same way, with one more closer. `HandlerErrorsExplained` allows one error more, input
to a session closed because its mosh-server is gone, and so needs to know why a session may be closed while the
slot is open: `Accounted` says that then a cancelled context, a closed session and a goroutine that is leaving
all go back to an exit the monitor has reported, or the session was never announced and no console exists to send
input. `Watched` says that such a report is true and never revised, `ErrorStays` that a Handler with an error only
shuts down, `Answerable` what it says for SSH. TLC checked `IInv` and `Explained` on the bounds of
`MoshSession_types.cfg` before they were proved. The runs check `NoFrameIsRefused` of these; the other
four are the invariants of `MoshSession_types.cfg`.

`ConnectWizardProofs`: `NoStrayFrame` says that no frame of the browser has reached a backend that does not wait
for it, and nothing in it speaks of the user who clicked. `IInv` goes from the button to the wire. Of the window:
one connection at a time is being acquired, which the lock tells (`LockState`), and the component shows the newest wizard
and waits as long as that has no outcome (`ComponentState`). Of a wizard: at most one step is due, to the newest one
(`WizardState`), a prompt on which nothing is due can be answered or is being saved (`PromptState`), and a
Sender that can still send belongs to a stream, or to a wizard with nothing to say (`SenderState`). Of a slot: what its owner,
its flags and its queues say of each other (`SlotState`), that the frames to the browser are in the order of the
handshake, none twice (`Sorted`), and which of five phases it is in: `Idle`, `Requested`, `Refused`, `Running` or
`Closed`. In `Running` the backend has sent what is under way (`Told`), a question is at one place, on its way, with
the user or answered (`Asked`), and a backend that may still succeed has a wizard that waits for it (`Expected`); a request has
a wizard, a key under way is not accepted yet (`Fresh`), and a wizard whose user has closed the stream gets no question
(`Cancelled`). The phases hold while the connection is up: once it breaks the queues are empty. An answer needs
a question that is asked, and sending it ends that; a save that is answered after its slot has gone to
another session meets a closed Sender or one that owns no slot any more. `Justified`
is `AcceptIsJustified`; `NoOrphan` and `OneWizard` are spelled out in `SlotState` and `WizardState`, since neither is inductive
by itself; `EveryScreenHasAWayOut` follows from the wizard and its screen. TLC checked the parts with two slots, and with
the bounds of `ConnectWizard_types.cfg`, before they were proved.

`SessionTabsProofs`: `NoSessionLost` and `CurrentExists` are about positions, which every removal shifts, and
neither is inductive. `IInv` adds to the types that a session has one tab (`OneTab`), that a live session
or a mounted console has one and a console that is gone has none (`Mounted`), that a session not yet
opened has nothing (`Unopened`), that the current position is one of a tab (`CurrentPoints`), and that the
close under way still points at the tab it was asked for (`Pointed`). The last is where `MaxClosing = 1`
is needed: only another close shifts the tab, and `session_tabs_close` shows what happens with two. Lemmas
say what `Append`, a change of one tab and `RemoveAt` do to these parts. `OutputComplete` adds that the
written pieces followed by the queue are 1, 2, ... up to what was received, with the rejection only at the
end (`Queues`, `InOrder`), so a loop that ends on it has written everything.

`TelnetControlProofs`: `BytesIntact` compares what was read with what was written and says nothing of the bytes
under way, where text, commands and answers are mixed and any cut may leave a reader in the middle of one.
`IInv` reads the queues as an automaton does. A label is a place of the reader and the number of text bytes it
has read; `DownMoves` and `UpMoves` say which byte leads from a label to which, for the browser and for the server;
`UnderWay` says that each queue leads (`Runs`) from where its reader stands to where its writer is, with all it
has said. Reading takes the first move of a run, writing adds moves at its end, and both are lemmas (`RunTail`,
`RunConcat`), so that an action is proved by the run of what it writes. `ReadSoFar` says that what was read is a
prefix of what was written. An empty queue makes both labels equal, which is all of `BytesIntact`. `EchoAgrees` is about
rest too, and who echoes changes with a command that arrives: `EchoState` says for each state of the
server's option what is under way about it, and with which verb: nothing (`Calm`), its question (`Told`) or the
browser's answer (`Answered`). `Plain` says that the server sends no command the parser does not know; otherwise
`TelnetControl_nop.cfg` violates `ServeGoesOn`, and a parser that has ended reads nothing more. `Fits` says that no
size has a byte 255 (`Wide = {}`, `Tall = {}`); `TelnetControl_tall.cfg` shows what 255 rows do to `BytesIntact`. A server that asks
the client to echo (`DO ECHO`) and then withdraws (`DONT ECHO`) leaves neither of them echoing, since `setEcho` takes
`DONT` for `WILL` (`telnet.js:289-291`), hence the condition of `OneOfThemEchoes`. TLC checked `IInv` for three choices of
the bounds, and `TypeOK` and `ServeGoesOn` with servers that keep to `Plain`, before they were proved.

Only model-checked: liveness and everything under fairness, which is outside the prover's reach. The library's induction
theorems take an operator as parameter, which the installed provers cannot instantiate; where induction
over data is needed it goes through the least element of a set, as in `FlowProofs` and `ConnectWizardProofs`.

## 7. What the code gets wrong

Listed, the counterexample of `session_tabs_close`:

- **Closing two tabs can lose a third**. `closeTab` (`home.vue:855`) awaits the flush of the CLOSE and then
  removes the tab at the position it was called with. A tab closed meanwhile has shifted the others:
  a live session leaves the tabs and goes on where nobody can end it, or the closed tab stays with its
  "closing" mark. With two tabs the second removal finds nothing at its position and still makes it
  the current one (`home.vue:792-797`): no tab is current, and `switchTab` throws (`SessionTabs_current.cfg`). `home.vue:835-836` calls the parameter "Zero-based index of the tab to close."

Shown by further configurations of section 4:

- **A refused fingerprint can block the connection** (`SshSession_refusal.cfg`). `local` passes the
  refusal on and waits in `getRemote` for the remote goroutine, which must write through the sender the
  paused Handler holds. `handler.go:269` forbids exactly this.
- **A server that fails early leaves `run` waiting** (`AppLifecycle_failure.cfg`): `application.go:142` reads
  `closeNotify` without its lock and may get nil.
- **An encrypted password can make the file unreadable** (`PresetStore_cipher.cfg`): base64 that starts with
  `//` after the `:` of the format reads as a scheme.
- **Input to an exiting Mosh shell closes every stream** (`MoshSession_input.cfg`): `mosh.go:868` returns the
  error of a closed session out of `Handle`; SSH and Telnet drop it.
- **A Telnet NOP freezes every session** (`TelnetControl_nop.cfg`): an unknown command throws out of
  `run()` (`telnet.js:374`), which ends in silence; the promise of the next frame is never resolved, and
  `Streams.serve` awaits it. The comment at `telnet.js:357` says errors are swallowed "to avoid crashing the
  session when the remote sends malformed sequences."
- **A Telnet server does not learn a new window size** (`TelnetControl_size.cfg`): a resize sends only
  `IAC WILL NAWS`, which a server that performs the option already does not answer; the size before the
  first resize is four bytes of 255 that are not doubled.
- **A window with 255 rows or columns spoils the Telnet stream** (`TelnetControl_tall.cfg`): the sizes are written
  as they are (`telnet.js:131-152`, `313-326`), not with 255 doubled. 255 rows are followed by the `IAC SE` that should end the
  subnegotiation, so the server reads an escaped 255, never sees the end and swallows later keys and answers. With 255
  columns the size read is wrong, or the subnegotiation ends early, as the server makes of an `IAC` before another byte. Answers
  swallowed this way are outside `NegotiationEnds` too, whose run has no such size.
- **A paste can outlive its stream** (`StreamMux_paste.cfg`): `sendData` (`stream.js:80-105`) looks at `closed` before the
  first of several awaits, so later segments may follow CLOSE. One that meets the closed machine ends `Handle`, and every
  session with it. One that finds the slot released is read as a request (`streams.go:396-437`): the browser gets a
  refusal on an idle slot or one it has given to another session, or a command boots that nobody asked for; and a long
  segment is read in part, after which the Handler reads frames out of the rest. One that finds the next command still
  dialing under a paused sender makes the Handler wait for it in `getRemote` (`telnet.go:228`) while it waits for
  the sender: nothing more is handled (`StuckOnSender`).
- The first frame of a command may overtake its initial response; input to an echoing SSH peer under a paused client blocks the Handler; a timeout that
  races the clearing of the SSH deadline re-arms it; SIGTERM is handled in `run` but not registered; an
  interrupt during a restart's shutdown is dropped; a metadata key removed over the API is back after
  a restart; a password set over the API and spelled like a reference is resolved as one after a
  restart.

Met while modelling, without a configuration:

- `sendDeny` never answers a DONT, and neither DONT nor WONT resets `nawsAccpeted`: a server that withdraws
  NAWS, TTYPE or an unknown option waits for its WONT for ever. `Withdraws` is therefore ECHO and SGA in
  the run.
- A hand edit of the preset file that falls between an update's reading and its replacing of the file
  (`preset_file.go:76-94`, `443-474`) is lost: the lock is the process's own. `StrangersSurvive` excepts it.
- One flag per option serves both directions of ECHO and of SGA, so a server that negotiates
  both directions at once gets answers that depend on the other one.
- Closing a background tab in front of the current one moves `current` to another session, and
  `removeFromTab` does not tell that console that it is shown.
- A fingerprint save is compared with the live list by value (`preset_config.go:332`): sent with
  `"Fingerprint": ""` for a preset other than its target, where the live list has none, it passes. If an
  earlier replacement had removed that preset's fingerprint, which the merge leaves in the file, the save now
  overwrites it there with the empty one. `NoBlanks` excludes this; the proof of `SavesAreNarrow` found it.
- The `tabs` watchers of `tab_list.vue` and `tab_window.vue` do not fire when the list is changed in place.
- Two concurrent calls of `reader.Multiple.feed` could lose a callback; its callers take turns.

Where one of these would break another property of the same module, that property names it as its
exception (`overtaken`, `lateSeg`, `misread`, `StuckOnPeer`, `StuckOnSender`, `Endangered`, `srv = "reused"`,
`rem = "monitor"`), or a constant
leaves it out (`Withdraws`, `Commands`, `Wide`, `Tall`, `MaxClosing`), so that the rest of it stays checked.

## 8. Not modelled

| Part | Why |
|---|---|
| Secure channel, echo, backend readers, codecs, authentication page | planned, section 2 |
| AES-GCM, HMAC, UDP and SSH protocols | libraries; what the code makes of their results is modelled |
| Hooks as processes | the sessions have their outcomes only: output, success, failure in time |
| Preset credential lookup | either result is possible at authentication |
| Hand edits in the middle of a start | a start reads, migrates and loads the file in one step; an edit falls before or after it |
| Hijacked WebSocket connections across a restart | nothing in the code claims anything of them |
| Configuration loaders, controllers, static files, logging | sequential or stateless; a load succeeds or fails in `AppLifecycle` |
| Fields and suggestions of the connector's form, history of known remotes | `ConnectWizard` takes a form that can be submitted; a launcher is well formed or not |
| The watch on the connector property (`connector.vue`) | the component is built anew for every wizard, so it never fires |
| Toolbar, text size, resizing and key handling of the console, tab windows | no state the properties of `SessionTabs` could tell apart |
| Character sets | a library with one decoder and encoder per session; a launcher's charset that Mosh ignores is therefore not visible |
| Rendering | left to the browser; the order of mounting and unmounting is in `ConnectWizard` and `SessionTabs` |
| Sizes of real frames, buffers and timeouts | parameters or nondeterministic choice; a user's key fits one segment in `TelnetControl` |

`ConnectWizard` follows the launcher of a URL once, when the home screen is mounted. Its user closes
a tab but neither types nor reads there; that is `SessionTabs`.

Besides the hazards of `PROJECT.json` there are others of the same kinds, which the properties of the same
modules reach or which belong to the parts above:

- frames of the Telnet goroutine after its CLOSE (`telnet.go:151`); the SSH connection handed over only
  after ConnectSucceed (`ssh.go:664`); answers to prompts that cross a close (`ssh.go:791`); input written
  to a peer that does not read (`ssh.go:753`); input to a Mosh session being closed (`mosh.go:863`);
- a segment that fails in the middle of a send (`sender.js:165`);
- a request that lists an identifier twice (`preset.go:65`); a ciphertext that collides with the file's syntax
  (`preset_secret.go:134`);
- clicks and failures while a socket is being dialed (`home.vue:461`); the receive loop of a removed tab
  (`screen_console.vue:794`);
- WebSocket sessions that outlive a shutdown (`server.go:196`); nonce counters that advance after an await
  (`socket.js:242`); keys computed from either end's clock (`socket.go:327`);
- a link that breaks in an SSH session's hooks, dial or prompts (`ssh.go:549`); a later segment of a paste in an SSH session
  (`stream.js:103`); a read timeout that races the clearing of the deadline (`ssh.go:511`).
