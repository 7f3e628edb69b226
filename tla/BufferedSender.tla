--------------------------- MODULE BufferedSender ---------------------------
(***************************************************************************)
(* The browser's buffered sender (ui/stream/sender.js) over the Subscribe  *)
(* queue (ui/stream/subscribe.js): callers send data and hold a promise,   *)
(* one loop gathers the data in segments and hands them to the transport,  *)
(* which takes its time and may fail; a timer and a request counter flush  *)
(* what does not fill a segment. A byte is the number of the send it is of.*)
(***************************************************************************)
EXTENDS Naturals, Sequences, SequencesExt

CONSTANTS
  MaxSends,            \* bound: calls of send
  MaxLength,           \* bound: bytes of a send
  MaxSegSize,          \* maxSegSize
  MaxBufferedRequests, \* maxBufferedRequests
  MayFail              \* whether the transport may fail

ASSUME SenderAssumption ==
  /\ MaxSends \in Nat /\ MaxLength \in Nat /\ MaxSegSize \in Nat \ {0}
  /\ MaxBufferedRequests \in Nat \ {0} /\ MayFail \in BOOLEAN

VARIABLES
  promise,   \* the promise of every send
  accepted,  \* every byte accepted, in order
  queue,     \* what the Subscribe holds for the loop
  buffer,    \* the bytes gathered
  requests,  \* bufferedRequests
  timer,     \* sendDelay is armed
  closed,
  closing,   \* where close() is: "no", "flushing", "flushed", "done"
  loop,      \* sending(): "waiting", "sending", "ended"
  segment,   \* the bytes the transport has been handed and is busy with
  callbacks, \* the sends to settle when it is done
  rest,      \* bytes of the fetched send that are still to be gathered
  flusher,   \* what made the loop send: "none", "flush", "close"
  handed,    \* every byte the transport is done with
  lost       \* the sends of which a segment failed

loopVars == <<loop, segment, callbacks, rest, flusher>>
vars == <<promise, accepted, queue, buffer, requests, timer, closed, closing, loopVars, handed, lost>>

Sends == 1 .. MaxSends
Bytes == Seq(Sends)
Item(kind, data) == [kind |-> kind, data |-> data]
Flush == Item("flush", <<>>)

TypeOK ==
  /\ promise \in [Sends -> {"none", "pending", "resolved", "rejected"}]
  /\ accepted \in Bytes /\ buffer \in Bytes /\ segment \in Bytes /\ rest \in Bytes /\ handed \in Bytes
  /\ queue \in Seq([kind : {"data", "flush", "close"}, data : Bytes])
  /\ requests \in 0 .. MaxBufferedRequests /\ timer \in BOOLEAN
  /\ closed \in BOOLEAN /\ closing \in {"no", "flushing", "flushed", "done"}
  /\ loop \in {"waiting", "sending", "ended"} /\ flusher \in {"none", "flush", "close"}
  /\ callbacks \subseteq Sends /\ lost \subseteq Sends
  /\ Len(buffer) < MaxSegSize /\ Len(segment) <= MaxSegSize
  /\ loop = "sending" <=> segment # <<>>

Init ==
  /\ promise = [i \in Sends |-> "none"]
  /\ accepted = <<>> /\ queue = <<>> /\ buffer = <<>> /\ requests = 0
  /\ timer = FALSE /\ closed = FALSE /\ closing = "no"
  /\ loop = "waiting" /\ segment = <<>> /\ callbacks = {} /\ rest = <<>> /\ flusher = "none"
  /\ handed = <<>> /\ lost = {}

----------------------------------------------------------------------------
(* The callers.                                                             *)

NextSend == CHOOSE i \in Sends : promise[i] = "none" /\ \A j \in 1 .. i - 1 : promise[j] # "none"
MoreSends == \E i \in Sends : promise[i] = "none"

\* send() re-arms the timer, or flushes at once after enough requests.
SendFlushes == requests + 1 >= MaxBufferedRequests

ArmTimer_Cleared == FALSE
ArmTimer == ~SendFlushes

Send ==
  /\ MoreSends /\ ~closed
  /\ \E n \in 1 .. MaxLength :
       LET data == [j \in 1 .. n |-> NextSend]
       IN  /\ accepted' = accepted \o data
           /\ queue' = Append(queue, Item("data", data)) \o IF SendFlushes THEN <<Flush>> ELSE <<>>
  /\ promise' = [promise EXCEPT ![NextSend] = "pending"]
  /\ requests' = IF SendFlushes THEN 0 ELSE requests + 1
  /\ timer' = ArmTimer
  /\ UNCHANGED <<buffer, closed, closing, loopVars, handed, lost>>

SendRefused ==
  /\ MoreSends /\ closed
  /\ promise' = [promise EXCEPT ![NextSend] = "rejected"]
  /\ UNCHANGED <<accepted, queue, buffer, requests, timer, closed, closing, loopVars, handed, lost>>

TimerFires ==
  /\ timer /\ timer' = FALSE /\ requests' = 0
  /\ queue' = Append(queue, Flush)
  /\ UNCHANGED <<promise, accepted, buffer, closed, closing, loopVars, handed, lost>>

\* close() flushes first; once that is done it resets the buffer and ends the loop.
CloseFlush == <<Item("close", <<>>)>>

Close ==
  /\ ~closed /\ closed' = TRUE /\ timer' = FALSE
  /\ queue' = queue \o CloseFlush
  /\ closing' = IF CloseFlush = <<>> THEN "flushed" ELSE "flushing"
  /\ UNCHANGED <<promise, accepted, buffer, requests, loopVars, handed, lost>>

CloseEnds ==
  /\ closing = "flushed" /\ closing' = "done"
  /\ buffer' = <<>> /\ requests' = 0
  /\ loop' = IF queue = <<>> /\ loop = "waiting" THEN "ended" ELSE loop
  /\ UNCHANGED <<promise, accepted, queue, timer, closed, segment, callbacks, rest, flusher,
                 handed, lost>>

----------------------------------------------------------------------------
(* The loop (sending).                                                      *)

\* Hand the buffer to the transport and start a new one (exportBuffer, sendData).
Export(bytes, by) ==
  /\ loop' = "sending" /\ segment' = bytes /\ flusher' = by
  /\ buffer' = <<>> /\ requests' = 0

\* appendBuffer: the bytes of data the buffer takes, and those left over.
Fits(gathered, data) == Min({MaxSegSize - Len(gathered), Len(data)})

Leftover_Ignored(gathered, data) == <<>>
Leftover(gathered, data) == SubSeq(data, Fits(gathered, data) + 1, Len(data))

\* Gather data: the buffer takes what fits and is exported when it is full.
Gather(gathered, data) ==
  LET whole == gathered \o SubSeq(data, 1, Fits(gathered, data))
  IN  /\ rest' = Leftover(gathered, data)
      /\ IF Len(whole) = MaxSegSize
         THEN Export(whole, "none")
         ELSE /\ buffer' = whole /\ loop' = "waiting" /\ segment' = <<>> /\ flusher' = "none"
              /\ UNCHANGED requests

\* A flush of an empty buffer has nothing to do.
FetchFlush ==
  /\ Head(queue).kind \in {"flush", "close"}
  /\ IF buffer = <<>>
     THEN /\ closing' = IF Head(queue).kind = "close" THEN "flushed" ELSE closing
          /\ UNCHANGED <<buffer, requests, loop, segment, flusher>>
     ELSE Export(buffer, Head(queue).kind) /\ UNCHANGED closing
  /\ UNCHANGED <<callbacks, rest>>

FetchData ==
  /\ Head(queue).kind = "data"
  /\ callbacks' = callbacks \union {Head(queue).data[1]}
  /\ Gather(buffer, Head(queue).data)
  /\ UNCHANGED closing

Fetch ==
  /\ loop = "waiting" /\ queue # <<>> /\ queue' = Tail(queue)
  /\ FetchFlush \/ FetchData
  /\ UNCHANGED <<promise, accepted, timer, closed, handed, lost>>

\* The sends of which the segment holds the last byte: resolveOnSuccess.
Completed_All == callbacks
Completed == {i \in callbacks : rest = <<>> \/ i # Head(rest)}

\* The transport is done: the promises of the completed sends are resolved, or all
\* are rejected; then the loop goes on with the rest of the data.
TransportDone ==
  /\ loop = "sending"
  /\ handed' = handed \o segment
  /\ \/ /\ promise' = [i \in Sends |-> IF i \in Completed /\ promise[i] = "pending"
                                       THEN "resolved" ELSE promise[i]]
        /\ UNCHANGED lost
     \/ /\ MayFail
        /\ promise' = [i \in Sends |-> IF i \in callbacks /\ promise[i] = "pending"
                                       THEN "rejected" ELSE promise[i]]
        /\ lost' = lost \union ToSet(segment)
  /\ callbacks' = callbacks \ Completed
  /\ closing' = IF flusher = "close" THEN "flushed" ELSE closing
  /\ IF rest = <<>>
     THEN /\ loop' = "waiting" /\ segment' = <<>> /\ flusher' = "none"
          /\ UNCHANGED <<buffer, requests, rest>>
     ELSE Gather(<<>>, rest)
  /\ UNCHANGED <<accepted, queue, timer, closed>>

Next ==
  \/ Send \/ SendRefused \/ TimerFires \/ Close \/ CloseEnds
  \/ Fetch \/ TransportDone

Spec == Init /\ [][Next]_vars

\* Timers fire, microtasks run, and the transport settles (encryption and
\* WebSocket.send, ui/socket.js, do).
FairSpec == Spec /\ WF_vars(TimerFires) /\ WF_vars(CloseEnds) /\ WF_vars(Fetch) /\ WF_vars(TransportDone)

----------------------------------------------------------------------------
(* Properties.                                                              *)

Waiting(q) == FlattenSeq([i \in 1 .. Len(q) |-> q[i].data])

\* Whatever the lengths, the flushes and the failures: the transport is given every
\* accepted byte once and in order, so what it was given, holds, what is gathered
\* and what is queued are together what was accepted.
NothingLostOrReordered ==
  accepted = handed \o segment \o buffer \o rest \o Waiting(queue)

\* A promise is resolved only when every segment of the send went out.
ResolvedMeansSent ==
  \A i \in Sends : promise[i] = "resolved" =>
    /\ i \notin lost
    /\ i \notin ToSet(segment \o buffer \o rest \o Waiting(queue))

\* Nothing gathered or promised is left to the next send: with the loop idle and the
\* queue empty either no promise is pending or the timer is armed.
NothingForgotten ==
  loop = "waiting" /\ queue = <<>> /\ closing = "no" =>
    timer \/ (buffer = <<>> /\ \A i \in Sends : promise[i] # "pending")

\* close() discards nothing and leaves no promise pending; the loop ends with it.
CloseSettles ==
  closing = "done" => loop = "ended" /\ \A i \in Sends : promise[i] # "pending"

\* Every promise is settled.
EverySendSettles == \A i \in Sends : promise[i] = "pending" ~> promise[i] # "pending"

============================================================================
