----------------------------- MODULE TelnetControl -----------------------------
(***************************************************************************)
(* An established Telnet session in the browser: the Parser and the        *)
(* Control of ui/control/telnet.js on the byte readers of                  *)
(* ui/stream/reader.js, against a server that negotiates by the rules of   *)
(* RFC 854 and 1143.  The server's bytes arrive in frames cut anywhere;    *)
(* Streams.serve (ui/stream/streams.js) awaits the parser's use of a frame *)
(* before it reads the next one, whichever session that belongs to.        *)
(*                                                                         *)
(* A byte is the name of its meaning.  A window size is one token for its  *)
(* four bytes, or for those of them that are not 255: a size is written    *)
(* without doubling a 255.                                                 *)
(***************************************************************************)
EXTENDS Naturals, Sequences, SequencesExt

CONSTANTS
  Offers,      \* options the server may perform
  Asks,        \* options the server may want the client to perform
  Withdraws,   \* options the server may give up again
  Commands,    \* commands without an option the server may send
  Sizes,       \* sizes the terminal may take
  Wide,        \* those with 255 columns (or 511, ...: their low byte is 255)
  Tall,        \* those with 255 rows
  MaxTurns,    \* bound: negotiations the server begins
  MaxText,     \* bound: text bytes the server sends
  MaxKeys,     \* bound: bytes the user types
  MaxResizes   \* bound: changes of the terminal's size

ASSUME TelnetAssumption ==
  /\ Offers \subseteq {"ECHO", "SGA", "OTHER"}
  /\ Asks \subseteq {"ECHO", "SGA", "NAWS", "TTYPE", "OTHER"}
  /\ Withdraws \subseteq Offers \cup Asks
  /\ Commands \subseteq {"GA", "NOP"} /\ Sizes \cap {"unset", "IAC", "ECHO"} = {}
  /\ Wide \subseteq Sizes /\ Tall \subseteq Sizes
  /\ {MaxTurns, MaxResizes} \subseteq Nat /\ MaxKeys \in 0 .. 3 /\ MaxText \in 0 .. 3

Options == {"ECHO", "SGA", "NAWS", "TTYPE", "OTHER"}
\* What the server says and what the user types, in this order; 255 is a
\* letter of many charsets.
Says  == <<"IAC", "a", "b">>
Types == <<"IAC", "x", "IAC">>

VARIABLES
  ctl,      \* the Control with its Parser
  pending,  \* Streams.serve awaits the parser for a frame it will not use up
  up,       \* bytes under way to the server
  down,     \* bytes under way to the browser
  srv,      \* the server
  said,     \* text bytes it has sent
  typed,    \* bytes the user has typed
  turns, resizes, sent   \* negotiations begun, sizes taken, commands sent

vars == <<ctl, pending, up, down, srv, said, typed, turns, resizes, sent>>

QStates == {"no", "wantyes", "yes", "wantno"}
Verbs == {"WILL", "WONT", "DO", "DONT"}
Bytes == {"IAC", "SB", "SE", "GA", "NOP", "SEND", "IS", "XTERM", "NUL", "a", "b", "x"} \cup Verbs \cup Options \cup Sizes

TypeOK ==
  /\ ctl \in [at : {"text", "cmd", "opt", "sub", "type", "subcmd", "dead"}, cmd : Verbs \cup {""},
       exec : BOOLEAN, echoEnabled : BOOLEAN, suppressGoAhead : BOOLEAN, nawsAccepted : BOOLEAN,
       localEcho : BOOLEAN, dim : Sizes \cup {"unset"}, closed : BOOLEAN, shown : Seq(Bytes)]
  /\ srv.us \in [Options -> QStates] /\ srv.him \in [Options -> QStates]
  /\ srv.at \in {"text", "cmd", "opt", "sub", "subcmd"} /\ srv.cmd \in Verbs \cup {""}
  /\ srv.buf \in Seq(Bytes) /\ srv.got \in Seq(Bytes)
  /\ srv.size \in Sizes \cup {"unset"} /\ srv.type \in BOOLEAN
  /\ up \in Seq(Bytes) /\ down \in Seq(Bytes)
  /\ pending \in BOOLEAN /\ said \in 0 .. MaxText /\ typed \in 0 .. MaxKeys
  /\ turns \in 0 .. MaxTurns /\ resizes \in 0 .. MaxResizes /\ sent \in Nat

Init ==
  /\ ctl = [at |-> "text", cmd |-> "", exec |-> FALSE, echoEnabled |-> FALSE,
            suppressGoAhead |-> FALSE, nawsAccepted |-> FALSE, localEcho |-> TRUE,
            dim |-> "unset", closed |-> FALSE, shown |-> <<>>]
  /\ srv = [us |-> [o \in Options |-> "no"], him |-> [o \in Options |-> "no"], at |-> "text",
            cmd |-> "", buf |-> <<>>, got |-> <<>>, size |-> "unset", type |-> FALSE]
  /\ pending = FALSE /\ up = <<>> /\ down = <<>> /\ said = 0 /\ typed = 0
  /\ turns = 0 /\ resizes = 0 /\ sent = 0

----------------------------------------------------------------------------
(* The Parser, byte by byte. A turn is the Control's state and the          *)
(* bytes it has handed to the sender.                                       *)

Nego(cmd, o) == <<"IAC", cmd, o>>
SubNego(o, data) == <<"IAC", "SB", o>> \o data \o <<"IAC", "SE">>

\* Columns and rows, high byte first; 65535 by 65535 as long as nobody has sized the
\* terminal. The low byte of the columns stands before the rest of a wide size, that of
\* the rows after the rest of a tall one.
SizeBytes(d) ==
  IF d = "unset" THEN <<"IAC", "IAC", "IAC", "IAC">>
  ELSE (IF d \in Wide THEN <<"NUL", "IAC">> ELSE <<>>) \o <<d>> \o (IF d \in Tall THEN <<"IAC">> ELSE <<>>)

Sent(t, m)      == [t EXCEPT !.out = @ \o m]
Becomes(t, s)   == [t EXCEPT !.c.at = s]
Flush(t, bytes) == [Becomes(t, "text") EXCEPT !.c.shown = @ \o bytes]

\* sendDeny: a DONT is not answered.
Deny(t, cmd, o) ==
  CASE cmd = "DO" -> Sent(t, Nego("WONT", o))
    [] cmd \in {"WILL", "WONT"} -> Sent(t, Nego("DONT", o))
    [] cmd = "DONT" -> t

\* handleOption answers a command that changes the option.
Answers(old) == IF old THEN [WONT |-> "DONT", DONT |-> "WONT"] ELSE [WILL |-> "DO", DO |-> "WILL"]
Acknowledged_WillOnly(t, cmd, o, old) == IF cmd = "WILL" /\ ~old THEN Sent(t, Nego("DO", o)) ELSE t
Acknowledged(t, cmd, o, old) ==
  IF cmd \in DOMAIN Answers(old) THEN Sent(t, Nego(Answers(old)[cmd], o)) ELSE t

\* The echo is local when the server stops to echo, and when it wants the
\* client to.
LocalEcho_Swapped(cmd) == cmd \in {"WILL", "DONT"}
LocalEcho(cmd) == cmd \in {"WONT", "DO"}

HandleNaws(t, cmd) ==
  IF cmd # "DO" THEN Deny(t, cmd, "NAWS")
  ELSE LET size == SubNego("NAWS", SizeBytes(t.c.dim)) IN
       IF t.c.nawsAccepted THEN Sent(t, size)
       ELSE [Sent(t, Nego("WILL", "NAWS") \o size) EXCEPT !.c.nawsAccepted = TRUE]

\* handleCmd with the option of a WILL, WONT, DO or DONT.
HandleOption(t, o) ==
  LET cmd == t.c.cmd  on == cmd \in {"WILL", "DO"} IN
  CASE o = "ECHO" ->
         [Acknowledged(t, cmd, o, t.c.echoEnabled) EXCEPT
           !.c.echoEnabled = on, !.c.localEcho = LocalEcho(cmd)]
    [] o = "SGA" ->
         [Acknowledged(t, cmd, o, t.c.suppressGoAhead) EXCEPT !.c.suppressGoAhead = on]
    [] o = "NAWS" -> HandleNaws(t, cmd)
    [] o = "TTYPE" -> IF cmd = "DO" THEN Sent(t, Nego("WILL", o)) ELSE Deny(t, cmd, o)
    [] OTHER -> Deny(t, cmd, o)

\* Commands without an option that handleCmd knows.
Known == {"GA"}

\* handleCmd: an unknown command throws, which ends run() for good.
HandleCmd(t, b) ==
  CASE b \in Verbs -> [Becomes(t, "opt") EXCEPT !.c.cmd = b]
    [] b = "IAC" -> Flush(t, <<"IAC">>)
    [] b \in Known -> Becomes(t, "text")
    [] b = "SB"  -> [Becomes(t, "sub") EXCEPT !.c.exec = FALSE]
    [] OTHER     -> Becomes(t, "dead")

\* handleSubNego and handleTermTypeSubNego: the reply waits for the IAC SE.
HandleSubNego(t, b) ==
  CASE b = "TTYPE" -> Becomes(t, "type")
    [] b = "IAC" -> Becomes(t, "subcmd")
    [] OTHER -> t
HandleTermType(t, b) == [Becomes(t, "sub") EXCEPT !.c.exec = (b = "SEND")]
EndSubNego(t, b) ==
  IF b # "SE" THEN Becomes(t, "sub")
  ELSE IF t.c.exec THEN Sent(Becomes(t, "text"), SubNego("TTYPE", <<"IS", "XTERM">>))
  ELSE Becomes(t, "text")

\* The IAC that ends readUntil is cut off what is flushed.
Introduced_Shown(t) == [Becomes(t, "cmd") EXCEPT !.c.shown = Append(@, "IAC")]
Introduced(t) == Becomes(t, "cmd")

\* One byte of run(): readUntil flushes what comes before an IAC, each readOne
\* waits for the next frame where a frame ends.
Parse(t, b) ==
  CASE t.c.at = "text" -> IF b = "IAC" THEN Introduced(t) ELSE Flush(t, <<b>>)
    [] t.c.at = "cmd"  -> HandleCmd(t, b)
    [] t.c.at = "opt"  -> HandleOption(Becomes(t, "text"), b)
    [] t.c.at = "sub"  -> HandleSubNego(t, b)
    [] t.c.at = "type" -> HandleTermType(t, b)
    [] t.c.at = "subcmd" -> EndSubNego(t, b)
    [] t.c.at = "dead" -> t

----------------------------------------------------------------------------
\* The session goes on; the server reads a command of several bytes at once, as far
\* as it has arrived.
Quiet == ~ctl.closed /\ (srv.at = "text" \/ up = <<>>)

----------------------------------------------------------------------------
(* The browser.                                                             *)

\* "inband": serve reads a frame and awaits its use. A frame of several bytes
\* is as many frames of one byte: Multiple.export waits for the next byte alike
\* inside a frame and after it. Once run() has ended nobody reads the frame.
Inband ==
  /\ Quiet /\ ~pending /\ down # <<>>
  /\ LET t == Parse([c |-> ctl, out |-> <<>>], Head(down)) IN ctl' = t.c /\ up' = up \o t.out
  /\ pending' = (ctl.at = "dead")
  /\ down' = Tail(down)
  /\ UNCHANGED <<srv, said, typed, turns, resizes, sent>>

\* "completed": the parser's reader is closed, run() ends.
Completed ==
  /\ Quiet /\ ~pending
  /\ ctl' = [ctl EXCEPT !.closed = TRUE, !.at = "dead"]
  /\ up' = <<>> /\ down' = <<>>
  /\ UNCHANGED <<pending, srv, said, typed, turns, resizes, sent>>

\* send and sendBinary: sendSeg doubles every 255.
Escaped(b) == IF b = "IAC" THEN <<b, b>> ELSE <<b>>
Type ==
  /\ Quiet /\ typed < MaxKeys
  /\ typed' = typed + 1 /\ up' = up \o Escaped(Types[typed + 1])
  /\ UNCHANGED <<ctl, pending, down, srv, said, turns, resizes, sent>>

\* resize and requestWindowResize.
Resize(d) ==
  /\ Quiet /\ resizes < MaxResizes /\ d # ctl.dim
  /\ resizes' = resizes + 1
  /\ ctl' = [ctl EXCEPT !.dim = d, !.nawsAccepted = TRUE]
  /\ up' = up \o Nego("WILL", "NAWS")
  /\ UNCHANGED <<pending, down, srv, said, typed, turns, sent>>

----------------------------------------------------------------------------
(* The server: the Q method of RFC 1143 without its queues.                 *)

unchangedButServer == <<ctl, pending, typed, resizes>>

SendText ==
  /\ Quiet /\ said < MaxText
  /\ said' = said + 1
  /\ down' = down \o (IF Says[said + 1] = "IAC" THEN <<"IAC", "IAC">> ELSE <<Says[said + 1]>>)
  /\ UNCHANGED <<unchangedButServer, up, srv, turns, sent>>

SendCommand(c) ==
  /\ Quiet /\ sent = 0
  /\ sent' = sent + 1 /\ down' = down \o <<"IAC", c>>
  /\ UNCHANGED <<unchangedButServer, up, srv, said, turns>>

\* The server begins to negotiate: for an option of its own, or of the client.
Begin ==
  /\ Quiet /\ turns < MaxTurns /\ turns' = turns + 1
  /\ \/ \E o \in Offers :
          /\ srv.us[o] = "no" \/ (srv.us[o] = "yes" /\ o \in Withdraws)
          /\ srv' = [srv EXCEPT !.us[o] = IF @ = "no" THEN "wantyes" ELSE "wantno"]
          /\ down' = down \o Nego(IF srv.us[o] = "no" THEN "WILL" ELSE "WONT", o)
     \/ \E o \in Asks :
          /\ srv.him[o] = "no" \/ (srv.him[o] = "yes" /\ o \in Withdraws)
          /\ srv' = [srv EXCEPT !.him[o] = IF @ = "no" THEN "wantyes" ELSE "wantno"]
          /\ down' = down \o Nego(IF srv.him[o] = "no" THEN "DO" ELSE "DONT", o)
  /\ UNCHANGED <<unchangedButServer, up, said, sent>>

\* It reads bytes; a state that a command changes unasked is answered.
QNext(q, on) ==
  CASE q = "no" -> IF on THEN "yes" ELSE "no"
    [] q = "yes" -> IF on THEN "yes" ELSE "no"
    [] q = "wantyes" -> IF on THEN "yes" ELSE "no"
    [] q = "wantno" -> "no"
QReply(q, on) == (q = "no" /\ on) \/ (q = "yes" /\ ~on)

ReadOption(t, o) ==
  LET cmd == t.s.cmd
      on  == cmd \in {"WILL", "DO"}
      ask == IF o = "TTYPE" /\ cmd = "WILL" /\ t.s.him[o] \in {"no", "wantyes"}
             THEN SubNego("TTYPE", <<"SEND">>) ELSE <<>>
  IN IF cmd \in {"WILL", "WONT"}
     THEN LET q == t.s.him[o]
              reply == IF QReply(q, on) THEN Nego(IF on THEN "DO" ELSE "DONT", o) ELSE <<>>
          IN [t EXCEPT !.s.him[o] = QNext(q, on), !.s.at = "text", !.out = @ \o reply \o ask]
     ELSE LET q == t.s.us[o]
              \* the server performs only what it offers
              on2 == on /\ (q # "no" \/ o \in Offers)
              reply == CASE QReply(q, on2) -> Nego(IF on2 THEN "WILL" ELSE "WONT", o)
                         [] on /\ ~on2 -> Nego("WONT", o)
                         [] OTHER -> <<>>
          IN [t EXCEPT !.s.us[o] = QNext(q, on2), !.s.at = "text", !.out = @ \o reply]

ReadSubNego(s) ==
  [s EXCEPT !.at = "text", !.buf = <<>>,
    !.size = IF Len(s.buf) = 2 /\ s.buf[1] = "NAWS" /\ s.buf[2] \in Sizes THEN s.buf[2] ELSE @,
    !.type = @ \/ s.buf = <<"TTYPE", "IS", "XTERM">>]

ReadByte(t, b) ==
  CASE t.s.at = "text" -> IF b = "IAC" THEN [t EXCEPT !.s.at = "cmd"] ELSE [t EXCEPT !.s.got = Append(@, b)]
    [] t.s.at = "cmd" ->
         CASE b = "IAC" -> [t EXCEPT !.s.at = "text", !.s.got = Append(@, b)]
           [] b = "SB" -> [t EXCEPT !.s.at = "sub"]
           [] b \in Verbs -> [t EXCEPT !.s.at = "opt", !.s.cmd = b]
           [] OTHER -> [t EXCEPT !.s.at = "text"]
    [] t.s.at = "opt" -> ReadOption(t, b)
    [] t.s.at = "sub" -> IF b = "IAC" THEN [t EXCEPT !.s.at = "subcmd"] ELSE [t EXCEPT !.s.buf = Append(@, b)]
    [] t.s.at = "subcmd" ->
         IF b = "SE" THEN [t EXCEPT !.s = ReadSubNego(@)]
         ELSE [t EXCEPT !.s.at = "sub", !.s.buf = Append(@, b)]

ServerReads ==
  /\ up # <<>>
  /\ up' = Tail(up)
  /\ LET t == ReadByte([s |-> srv, out |-> <<>>], Head(up)) IN srv' = t.s /\ down' = down \o t.out
  /\ UNCHANGED <<unchangedButServer, said, turns, sent>>

Next ==
  \/ Inband \/ Completed \/ Type \/ (\E d \in Sizes : Resize(d))
  \/ SendText \/ (\E c \in Commands : SendCommand(c)) \/ Begin \/ ServerReads

\* What is under way arrives.
Fairness ==
  /\ WF_vars(Inband) /\ WF_vars(ServerReads)

Spec == Init /\ [][Next]_vars /\ Fairness

----------------------------------------------------------------------------
(* Properties.                                                              *)

Settled == \A o \in Options : srv.us[o] \in {"no", "yes"} /\ srv.him[o] \in {"no", "yes"}
Rest == up = <<>> /\ down = <<>> /\ Settled /\ ~ctl.closed

\* Each side reads exactly the bytes the other wrote, each 255 once, no byte of a
\* command, and no byte of a command is made of them, however negotiations and
\* text mix and the frames cut the stream, if no size of the terminal has a byte 255
\* (Wide and Tall are empty): sizes are not escaped.
BytesIntact ==
  /\ IsPrefix(ctl.shown, SubSeq(Says, 1, said))
  /\ IsPrefix(srv.got, SubSeq(Types, 1, typed))
  /\ Rest => Len(ctl.shown) = said /\ Len(srv.got) = typed

\* When nothing is under way, the browser echoes keys exactly while the server
\* does not: no key shows twice, none is invisible by accident.
EchoAgrees == Rest => (ctl.localEcho <=> srv.us["ECHO"] # "yes")

\* The negotiations of the server come to an end, and the terminal type it
\* asks for is told: the client owes no answer and none is taken for a new one.
NegotiationEnds ==
  /\ ~Settled ~> Settled \/ ctl.closed
  /\ srv.him["TTYPE"] = "yes" ~> srv.type \/ ctl.closed

\* serve, which reads the frames of every session of the connection, gets every
\* frame of this one used up.
ServeGoesOn == ~pending

\* When nothing is under way, a server that performs NAWS knows the size of the
\* terminal.
SizeKnown == (Rest /\ srv.him["NAWS"] = "yes") => srv.size = ctl.dim
==============================================================================
