------------------------- MODULE TelnetControlProofs -------------------------
(***************************************************************************)
(* Proofs about TelnetControl, for any options and bounds: both directions *)
(* carry their bytes intact, the two ends agree about who echoes, and no   *)
(* frame is left unread, as long as the server sends no command the parser *)
(* does not know and no size of the terminal has a byte 255.               *)
(***************************************************************************)
EXTENDS TelnetControl, SequenceTheorems, TLAPS

----------------------------------------------------------------------------
(* The invariant.  What is under way is read by an automaton: a label       *)
(* is where its reader stands and how many text bytes it has read.          *)

Places == {"text", "cmd", "sub", "type", "subcmd"} \cup Verbs
At(p, n) == [at |-> p, n |-> n]
Label == [at : Places, n : 0 .. 3]
UpTo(k) == [at : Places, n : 0 .. k]

\* The n-th text byte of what one side writes.
Text(says, x, b, y) == b = says[x.n + 1] /\ y = At("text", x.n + 1)

\* What both readers have in common.
Moves(says, x, b, y) ==
  \/ x.at = "text" /\ b = "IAC" /\ y = At("cmd", x.n)
  \/ x.at = "text" /\ b # "IAC" /\ Text(says, x, b, y)
  \/ x.at = "cmd" /\ b = "IAC" /\ Text(says, x, b, y)
  \/ x.at = "cmd" /\ b \in Verbs /\ y = At(b, x.n)
  \/ x.at = "cmd" /\ b = "SB" /\ y = At("sub", x.n)
  \/ x.at \in Verbs /\ b \in Options /\ y = At("text", x.n)
  \/ x.at = "sub" /\ b = "IAC" /\ y = At("subcmd", x.n)
  \/ x.at = "subcmd" /\ b = "SE" /\ y = At("text", x.n)

\* The browser knows the question for the terminal type, the server everything
\* between SB and SE.
DownMoves(x, b, y) ==
  \/ Moves(Says, x, b, y)
  \/ x.at = "cmd" /\ b = "GA" /\ y = At("text", x.n)
  \/ x.at = "sub" /\ b = "TTYPE" /\ y = At("type", x.n)
  \/ x.at = "type" /\ b = "SEND" /\ y = At("sub", x.n)
UpMoves(x, b, y) ==
  \/ Moves(Types, x, b, y)
  \/ x.at = "sub" /\ b \notin {"IAC", "ECHO"} /\ y = At("sub", x.n)
  \/ x.at = "subcmd" /\ b = "IAC" /\ y = At("sub", x.n)

DownRel == {m \in Label \X Bytes \X Label : DownMoves(m[1], m[2], m[3])}
UpRel == {m \in Label \X Bytes \X Label : UpMoves(m[1], m[2], m[3])}

\* s leads from label x to label y by the moves in R, over labels of X.
Runs(R, X, s, x, y) ==
  \E f \in [0 .. Len(s) -> X] :
    f[0] = x /\ f[Len(s)] = y /\ \A j \in 1 .. Len(s) : <<f[j - 1], s[j], f[j]>> \in R

\* Where the readers stand.
Stands(r) == IF r.at = "opt" THEN r.cmd ELSE r.at
BrowserAt == At(Stands(ctl), Len(ctl.shown))
ServerAt == At(Stands(srv), Len(srv.got))

CtlRec ==
  [at : {"text", "cmd", "opt", "sub", "type", "subcmd", "dead"}, cmd : Verbs \cup {""}, exec : BOOLEAN,
   echoEnabled : BOOLEAN, suppressGoAhead : BOOLEAN, nawsAccepted : BOOLEAN, localEcho : BOOLEAN,
   dim : Sizes \cup {"unset"}, closed : BOOLEAN, shown : Seq(Bytes)]
SrvRec ==
  [us : [Options -> QStates], him : [Options -> QStates],
   at : {"text", "cmd", "opt", "sub", "subcmd"}, cmd : Verbs \cup {""}, buf : Seq(Bytes), got : Seq(Bytes),
   size : Sizes \cup {"unset"}, type : BOOLEAN]

Typed ==
  /\ ctl \in CtlRec /\ srv \in SrvRec /\ up \in Seq(Bytes) /\ down \in Seq(Bytes)
  /\ pending = FALSE /\ said \in 0 .. MaxText /\ typed \in 0 .. MaxKeys
  /\ turns \in 0 .. MaxTurns /\ resizes \in 0 .. MaxResizes /\ sent \in Nat
  /\ ctl.at = "opt" => ctl.cmd \in Verbs
  /\ srv.at = "opt" => srv.cmd \in Verbs

\* What was read is what was written, up to where the reader stands.
ReadSoFar ==
  /\ ctl.shown = SubSeq(Says, 1, Len(ctl.shown)) /\ Len(ctl.shown) <= said
  /\ srv.got = SubSeq(Types, 1, Len(srv.got)) /\ Len(srv.got) <= typed

\* The rest is under way, and ends where its writer is.
UnderWay ==
  /\ Runs(DownRel, UpTo(said), down, BrowserAt, At("text", said))
  /\ Runs(UpRel, UpTo(typed), up, ServerAt, At("text", typed))

\* A command about echo is under way: not at all, or once, with its verb before it.
Silent(s) == \A j \in 1 .. Len(s) : s[j] # "ECHO"
Once(s, verb, held) ==
  \E k \in 1 .. Len(s) :
    /\ s[k] = "ECHO" /\ verb = (IF k = 1 THEN held ELSE s[k - 1])
    /\ \A j \in 1 .. Len(s) : s[j] = "ECHO" => j = k
Calm == Silent(down) /\ Silent(up)
Told(verb) == Once(down, verb, Stands(ctl)) /\ Silent(up)
Answered(verb) == Silent(down) /\ Once(up, verb, Stands(srv))

\* The server's state of the option tells what the browser knows, and what is on
\* its way, if the server does not want the client to echo.
EchoState ==
  LET q == srv.us["ECHO"]  e == ctl.echoEnabled IN
  /\ ctl.localEcho <=> ~e
  /\ q = "no" => Calm /\ ~e
  /\ q = "wantyes" => (Told("WILL") /\ ~e) \/ (Answered("DO") /\ e)
  /\ q = "yes" => Calm /\ e
  /\ q = "wantno" => (Told("WONT") /\ e) \/ (Answered("DONT") /\ ~e)

\* Once the browser has closed the session nothing moves.
Open == ctl.at # "dead" /\ UnderWay /\ ("ECHO" \notin Asks => EchoState)
Gone == up = <<>> /\ down = <<>> /\ srv.at = "text"

IInv == Typed /\ ReadSoFar /\ (IF ctl.closed THEN Gone ELSE Open)

\* A server that sends no command the parser does not know.
Plain == Commands \subseteq Known

\* A terminal whose size is written without a byte 255.
Fits == Wide = {} /\ Tall = {}

----------------------------------------------------------------------------
(* Runs.                                                                    *)

LEMMA RunEmpty ==
  ASSUME NEW R, NEW X, NEW x \in X
  PROVE  Runs(R, X, <<>>, x, x)
<1> DEFINE f == [j \in 0 .. Len(<<>>) |-> x]
<1>1. f \in [0 .. Len(<<>>) -> X] /\ f[0] = x /\ f[Len(<<>>)] = x
  OBVIOUS
<1>2. \A j \in 1 .. Len(<<>>) : <<f[j - 1], <<>>[j], f[j]>> \in R
  OBVIOUS
<1> HIDE DEF f
<1> QED BY <1>1, <1>2 DEF Runs

LEMMA RunOfEmpty ==
  ASSUME NEW R, NEW X, NEW x, NEW y, Runs(R, X, <<>>, x, y)
  PROVE  x = y
BY DEF Runs

LEMMA RunWider ==
  ASSUME NEW R, NEW X, NEW Y, X \subseteq Y, NEW s, NEW x, NEW y, Runs(R, X, s, x, y)
  PROVE  Runs(R, Y, s, x, y)
<1>1. PICK f \in [0 .. Len(s) -> X] :
        f[0] = x /\ f[Len(s)] = y /\ \A j \in 1 .. Len(s) : <<f[j - 1], s[j], f[j]>> \in R
  BY DEF Runs
<1>2. f \in [0 .. Len(s) -> Y]
  OBVIOUS
<1> QED BY <1>1, <1>2 DEF Runs

\* Reading the first element.
LEMMA RunTail ==
  ASSUME NEW R, NEW X, NEW S, NEW s \in Seq(S), s # <<>>, NEW x, NEW y, Runs(R, X, s, x, y)
  PROVE  \E z \in X : <<x, Head(s), z>> \in R /\ Runs(R, X, Tail(s), z, y)
<1>1. PICK f \in [0 .. Len(s) -> X] :
        f[0] = x /\ f[Len(s)] = y /\ \A j \in 1 .. Len(s) : <<f[j - 1], s[j], f[j]>> \in R
  BY DEF Runs
<1> DEFINE t == Tail(s)
           g == [j \in 0 .. Len(t) |-> f[j + 1]]
<1>2. /\ t \in Seq(S) /\ Len(t) = Len(s) - 1 /\ Len(s) \in Nat /\ Len(s) >= 1 /\ Head(s) = s[1]
      /\ \A j \in 1 .. Len(t) : t[j] = s[j + 1]
  OBVIOUS
<1> HIDE DEF t
<1>3. \A j \in 0 .. Len(t) : j + 1 \in 0 .. Len(s) /\ g[j] = f[j + 1]
  BY <1>2
<1>4. g \in [0 .. Len(t) -> X]
  BY <1>3
<1>5. g[0] = f[1] /\ g[Len(t)] = y
  <2>1. 0 \in 0 .. Len(t) /\ Len(t) \in 0 .. Len(t) /\ Len(t) + 1 = Len(s) /\ 0 + 1 = 1
    BY <1>2
  <2> HIDE DEF g
  <2> QED BY <1>1, <1>3, <2>1
<1>6. ASSUME NEW j \in 1 .. Len(t) PROVE <<g[j - 1], t[j], g[j]>> \in R
  <2>1. /\ j + 1 \in 1 .. Len(s) /\ j - 1 \in 0 .. Len(t) /\ j \in 0 .. Len(t)
        /\ (j - 1) + 1 = j /\ (j + 1) - 1 = j
    BY <1>2
  <2>2. <<f[(j + 1) - 1], s[j + 1], f[j + 1]>> \in R
    BY <1>1, <2>1
  <2>3. g[j - 1] = f[j] /\ g[j] = f[j + 1] /\ t[j] = s[j + 1]
    BY <1>2, <1>3, <2>1
  <2> QED BY <2>1, <2>2, <2>3
<1>7. f[1] \in X /\ <<x, s[1], f[1]>> \in R
  <2>1. 1 \in 1 .. Len(s) /\ 1 \in 0 .. Len(s) /\ 1 - 1 = 0
    BY <1>2
  <2> QED BY <1>1, <2>1
<1> HIDE DEF g
<1>8. Runs(R, X, t, f[1], y)
  BY <1>4, <1>5, <1>6 DEF Runs
<1> QED BY <1>2, <1>7, <1>8 DEF t

LEMMA RunConcat ==
  ASSUME NEW R, NEW X, NEW S, NEW s \in Seq(S), NEW t \in Seq(S), NEW x, NEW y, NEW z,
         Runs(R, X, s, x, y), Runs(R, X, t, y, z)
  PROVE  Runs(R, X, s \o t, x, z)
<1>1. PICK f \in [0 .. Len(s) -> X] :
        f[0] = x /\ f[Len(s)] = y /\ \A j \in 1 .. Len(s) : <<f[j - 1], s[j], f[j]>> \in R
  BY DEF Runs
<1>2. PICK h \in [0 .. Len(t) -> X] :
        h[0] = y /\ h[Len(t)] = z /\ \A j \in 1 .. Len(t) : <<h[j - 1], t[j], h[j]>> \in R
  BY DEF Runs
<1> DEFINE r == s \o t
           g == [j \in 0 .. Len(r) |-> IF j <= Len(s) THEN f[j] ELSE h[j - Len(s)]]
<1>3. /\ Len(r) = Len(s) + Len(t) /\ Len(s) \in Nat /\ Len(t) \in Nat
      /\ \A j \in 1 .. Len(s) : r[j] = s[j]
      /\ \A j \in 1 .. Len(t) : r[j + Len(s)] = t[j]
  OBVIOUS
<1> HIDE DEF r
<1>4. \A j \in 0 .. Len(s) : j \in 0 .. Len(r) /\ g[j] = f[j]
  BY <1>3
<1>5. \A j \in 0 .. Len(t) : j + Len(s) \in 0 .. Len(r) /\ g[j + Len(s)] = h[j]
  <2> TAKE j \in 0 .. Len(t)
  <2>1. j + Len(s) \in 0 .. Len(r) /\ (j + Len(s)) - Len(s) = j
    BY <1>3
  <2>2. CASE j = 0
    BY <1>1, <1>2, <1>3, <2>1, <2>2
  <2>3. CASE j # 0
    <3>1. ~(j + Len(s) <= Len(s))
      BY <1>3, <2>3
    <3> QED BY <2>1, <3>1
  <2> QED BY <2>2, <2>3
<1>6. ASSUME NEW i \in 0 .. Len(r)
      PROVE  i \in 0 .. Len(s) \/ (i - Len(s) \in 1 .. Len(t) /\ i = (i - Len(s)) + Len(s))
  BY <1>3
<1>7. g \in [0 .. Len(r) -> X]
  <2>1. ASSUME NEW i \in 0 .. Len(r) PROVE g[i] \in X
    <3> HIDE DEF g
    <3>1. CASE i \in 0 .. Len(s)
      BY <1>4, <3>1
    <3>2. CASE i - Len(s) \in 1 .. Len(t) /\ i = (i - Len(s)) + Len(s)
      <4>1. i - Len(s) \in 0 .. Len(t)
        BY <3>2, <1>3
      <4> QED BY <1>5, <3>2, <4>1
    <3> QED BY <1>6, <3>1, <3>2
  <2> QED BY <2>1
<1> HIDE DEF g
<1>8. g[0] = x /\ g[Len(r)] = z
  <2>1. 0 \in 0 .. Len(s) /\ Len(t) \in 0 .. Len(t) /\ Len(r) = Len(t) + Len(s)
    BY <1>3
  <2> QED BY <1>1, <1>2, <1>4, <1>5, <2>1
<1>9. ASSUME NEW i \in 1 .. Len(r) PROVE <<g[i - 1], r[i], g[i]>> \in R
  <2>1. CASE i \in 1 .. Len(s)
    <3>1. i \in 0 .. Len(s) /\ i - 1 \in 0 .. Len(s)
      BY <1>3, <2>1
    <3> QED BY <1>1, <1>3, <1>4, <2>1, <3>1
  <2>2. CASE i \notin 1 .. Len(s)
    <3> DEFINE j == i - Len(s)
    <3>1. /\ j \in 1 .. Len(t) /\ j \in 0 .. Len(t) /\ j - 1 \in 0 .. Len(t)
          /\ i = j + Len(s) /\ i - 1 = (j - 1) + Len(s)
      BY <1>3, <2>2
    <3> HIDE DEF j
    <3>2. <<h[j - 1], t[j], h[j]>> \in R
      BY <1>2, <3>1
    <3>3. g[i - 1] = h[j - 1] /\ g[i] = h[j] /\ r[i] = t[j]
      BY <1>3, <1>5, <3>1
    <3> QED BY <3>2, <3>3
  <2> QED BY <2>1, <2>2
<1> QED BY <1>7, <1>8, <1>9 DEF Runs, r

\* Short sequences, joined.
LEMMA Pair ==
  ASSUME NEW x, NEW y
  PROVE  <<x>> \o <<y>> = <<x, y>>
<1> DEFINE S == {x, y}
           r == <<x>> \o <<y>>
<1>1. <<x>> \in Seq(S) /\ <<y>> \in Seq(S) /\ <<x, y>> \in Seq(S)
  OBVIOUS
<1>2. r \in Seq(S) /\ Len(r) = 2 /\ r[1] = x /\ r[2] = y
  BY <1>1, ConcatProperties
<1> HIDE DEF r
<1>3. r = <<x, y>>
  BY <1>1, <1>2, SeqEqual
<1> QED BY <1>3 DEF r

LEMMA Triple ==
  ASSUME NEW x, NEW y, NEW z
  PROVE  <<x>> \o <<y, z>> = <<x, y, z>>
<1> DEFINE S == {x, y, z}
           r == <<x>> \o <<y, z>>
<1>1. <<x>> \in Seq(S) /\ <<y, z>> \in Seq(S) /\ <<x, y, z>> \in Seq(S)
  OBVIOUS
<1>2. r \in Seq(S) /\ Len(r) = 3 /\ r[1] = x /\ r[2] = y /\ r[3] = z
  BY <1>1, ConcatProperties
<1> HIDE DEF r
<1>3. r = <<x, y, z>>
  BY <1>1, <1>2, SeqEqual
<1> QED BY <1>3 DEF r

LEMMA Quad ==
  ASSUME NEW x, NEW y, NEW z, NEW w
  PROVE  <<x, y>> \o <<z, w>> = <<x, y, z, w>>
<1> DEFINE S == {x, y, z, w}
           r == <<x, y>> \o <<z, w>>
<1>1. <<x, y>> \in Seq(S) /\ <<z, w>> \in Seq(S) /\ <<x, y, z, w>> \in Seq(S)
  OBVIOUS
<1>2. r \in Seq(S) /\ Len(r) = 4 /\ r[1] = x /\ r[2] = y /\ r[3] = z /\ r[4] = w
  BY <1>1, ConcatProperties
<1> HIDE DEF r
<1>3. r = <<x, y, z, w>>
  BY <1>1, <1>2, SeqEqual
<1> QED BY <1>3 DEF r

\* Runs of one, two, three and four elements.
LEMMA RunOne ==
  ASSUME NEW R, NEW X, NEW b, NEW x \in X, NEW y \in X, <<x, b, y>> \in R
  PROVE  Runs(R, X, <<b>>, x, y)
<1> DEFINE s == <<b>>
           f == [j \in 0 .. Len(s) |-> IF j = 0 THEN x ELSE y]
<1>1. Len(s) = 1 /\ s[1] = b
  OBVIOUS
<1> HIDE DEF s
<1>2. f \in [0 .. Len(s) -> X] /\ f[0] = x /\ f[1] = y
  BY <1>1
<1> HIDE DEF f
<1>3. ASSUME NEW j \in 1 .. Len(s) PROVE <<f[j - 1], s[j], f[j]>> \in R
  <2>1. j = 1 /\ j - 1 = 0
    BY <1>1
  <2> QED BY <1>1, <1>2, <2>1
<1>4. f[Len(s)] = y
  BY <1>1, <1>2
<1> QED BY <1>2, <1>3, <1>4 DEF Runs, s

LEMMA RunTwo ==
  ASSUME NEW R, NEW X, NEW b, NEW c, NEW x \in X, NEW y \in X, NEW z \in X,
         <<x, b, y>> \in R, <<y, c, z>> \in R
  PROVE  Runs(R, X, <<b, c>>, x, z)
<1>1. Runs(R, X, <<b>>, x, y) /\ Runs(R, X, <<c>>, y, z)
  BY RunOne
<1>2. <<b>> \in Seq({b, c}) /\ <<c>> \in Seq({b, c})
  OBVIOUS
<1>3. Runs(R, X, <<b>> \o <<c>>, x, z)
  BY <1>1, <1>2, RunConcat
<1> QED BY <1>3, Pair

LEMMA RunThree ==
  ASSUME NEW R, NEW X, NEW b, NEW c, NEW d,
         NEW x \in X, NEW y \in X, NEW z \in X, NEW w \in X,
         <<x, b, y>> \in R, <<y, c, z>> \in R, <<z, d, w>> \in R
  PROVE  Runs(R, X, <<b, c, d>>, x, w)
<1>1. Runs(R, X, <<b>>, x, y)
  BY RunOne
<1>2. Runs(R, X, <<c, d>>, y, w)
  BY RunTwo
<1>3. <<b>> \in Seq({b, c, d}) /\ <<c, d>> \in Seq({b, c, d})
  OBVIOUS
<1>4. Runs(R, X, <<b>> \o <<c, d>>, x, w)
  BY <1>1, <1>2, <1>3, RunConcat
<1> QED BY <1>4, Triple

----------------------------------------------------------------------------
(* A command about echo among others.                                       *)

LEMMA SilentConcat ==
  ASSUME NEW S, NEW s \in Seq(S), NEW t \in Seq(S)
  PROVE  Silent(s \o t) <=> Silent(s) /\ Silent(t)
<1> DEFINE r == s \o t
<1>1. /\ Len(r) = Len(s) + Len(t) /\ Len(s) \in Nat /\ Len(t) \in Nat
      /\ \A j \in 1 .. Len(s) : r[j] = s[j]
      /\ \A j \in 1 .. Len(t) : r[j + Len(s)] = t[j]
  OBVIOUS
<1> HIDE DEF r
<1>2. ASSUME Silent(r) PROVE Silent(s) /\ Silent(t)
  <2>1. ASSUME NEW j \in 1 .. Len(s) PROVE s[j] # "ECHO"
    BY <1>1, <1>2 DEF Silent
  <2>2. ASSUME NEW j \in 1 .. Len(t) PROVE t[j] # "ECHO"
    <3>1. j + Len(s) \in 1 .. Len(r)
      BY <1>1
    <3> QED BY <1>1, <1>2, <3>1 DEF Silent
  <2> QED BY <2>1, <2>2 DEF Silent
<1>3. ASSUME Silent(s), Silent(t) PROVE Silent(r)
  <2>1. ASSUME NEW i \in 1 .. Len(r) PROVE r[i] # "ECHO"
    <3>1. CASE i \in 1 .. Len(s)
      BY <1>1, <1>3, <3>1 DEF Silent
    <3>2. CASE i \notin 1 .. Len(s)
      <4>1. i - Len(s) \in 1 .. Len(t) /\ (i - Len(s)) + Len(s) = i
        BY <1>1, <3>2
      <4>2. r[(i - Len(s)) + Len(s)] = t[i - Len(s)]
        BY <1>1, <4>1
      <4> QED BY <1>3, <4>1, <4>2 DEF Silent
    <3> QED BY <3>1, <3>2
  <2> QED BY <2>1 DEF Silent
<1> QED BY <1>2, <1>3 DEF r

LEMMA SilentTail ==
  ASSUME NEW S, NEW s \in Seq(S), s # <<>>
  PROVE  Silent(s) <=> Head(s) # "ECHO" /\ Silent(Tail(s))
<1> DEFINE t == Tail(s)
<1>1. /\ t \in Seq(S) /\ Len(t) = Len(s) - 1 /\ Len(s) \in Nat /\ Len(s) >= 1 /\ Head(s) = s[1]
      /\ \A j \in 1 .. Len(t) : t[j] = s[j + 1]
  OBVIOUS
<1> HIDE DEF t
<1>2. ASSUME Silent(s) PROVE Head(s) # "ECHO" /\ Silent(t)
  <2>1. 1 \in 1 .. Len(s) /\ \A j \in 1 .. Len(t) : j + 1 \in 1 .. Len(s)
    BY <1>1
  <2> QED BY <1>1, <1>2, <2>1 DEF Silent
<1>3. ASSUME Head(s) # "ECHO", Silent(t) PROVE Silent(s)
  <2>1. ASSUME NEW i \in 1 .. Len(s), i # 1 PROVE s[i] # "ECHO"
    <3>1. i - 1 \in 1 .. Len(t) /\ (i - 1) + 1 = i
      BY <1>1, <2>1
    <3> QED BY <1>1, <1>3, <3>1 DEF Silent
  <2> QED BY <1>1, <1>3, <2>1 DEF Silent
<1> QED BY <1>2, <1>3 DEF t

LEMMA OnceThenSilent ==
  ASSUME NEW S, NEW s \in Seq(S), NEW t \in Seq(S), NEW verb, NEW held,
         Once(s, verb, held), Silent(t)
  PROVE  Once(s \o t, verb, held)
<1> DEFINE r == s \o t
<1>1. /\ Len(r) = Len(s) + Len(t) /\ Len(s) \in Nat /\ Len(t) \in Nat
      /\ \A j \in 1 .. Len(s) : r[j] = s[j]
      /\ \A j \in 1 .. Len(t) : r[j + Len(s)] = t[j]
  OBVIOUS
<1> HIDE DEF r
<1>2. PICK k \in 1 .. Len(s) :
        /\ s[k] = "ECHO" /\ verb = (IF k = 1 THEN held ELSE s[k - 1])
        /\ \A j \in 1 .. Len(s) : s[j] = "ECHO" => j = k
  BY DEF Once
<1>3. k \in 1 .. Len(r) /\ r[k] = "ECHO"
  BY <1>1, <1>2
<1>4. verb = (IF k = 1 THEN held ELSE r[k - 1])
  <2>1. CASE k = 1
    BY <1>2, <2>1
  <2>2. CASE k # 1
    <3>1. k - 1 \in 1 .. Len(s)
      BY <1>1, <2>2
    <3> QED BY <1>1, <1>2, <2>2, <3>1
  <2> QED BY <2>1, <2>2
<1>5. ASSUME NEW i \in 1 .. Len(r), r[i] = "ECHO" PROVE i = k
  <2>1. CASE i \in 1 .. Len(s)
    BY <1>1, <1>2, <1>5, <2>1
  <2>2. CASE i \notin 1 .. Len(s)
    <3>1. i - Len(s) \in 1 .. Len(t) /\ (i - Len(s)) + Len(s) = i
      BY <1>1, <2>2
    <3>2. r[(i - Len(s)) + Len(s)] = t[i - Len(s)]
      BY <1>1, <3>1
    <3> QED BY <1>5, <3>1, <3>2 DEF Silent
  <2> QED BY <2>1, <2>2
<1> QED BY <1>3, <1>4, <1>5 DEF Once, r

LEMMA SilentThenOnce ==
  ASSUME NEW S, NEW s \in Seq(S), Silent(s), NEW verb \in S, verb # "ECHO", NEW held,
         "IAC" \in S, "ECHO" \in S
  PROVE  Once(s \o Nego(verb, "ECHO"), verb, held)
<1> DEFINE t == <<"IAC", verb, "ECHO">>
           r == s \o t
<1>1. t \in Seq(S) /\ Len(t) = 3 /\ t[1] = "IAC" /\ t[2] = verb /\ t[3] = "ECHO"
  OBVIOUS
<1> HIDE DEF t
<1>2. /\ Len(r) = Len(s) + 3 /\ Len(s) \in Nat
      /\ \A j \in 1 .. Len(s) : r[j] = s[j]
      /\ \A j \in 1 .. 3 : r[j + Len(s)] = t[j]
  <2>1. /\ Len(r) = Len(s) + Len(t) /\ Len(s) \in Nat
        /\ \A j \in 1 .. Len(s) : r[j] = s[j]
        /\ \A j \in 1 .. Len(t) : r[j + Len(s)] = t[j]
    <3>1. t \in Seq(S)
      BY <1>1
    <3> QED BY <3>1, ConcatProperties
  <2> HIDE DEF r
  <2> QED BY <1>1, <2>1
<1> HIDE DEF r
<1> DEFINE k == Len(s) + 3
<1>3. k \in 1 .. Len(r) /\ k # 1 /\ k - 1 = 2 + Len(s) /\ k = 3 + Len(s)
  BY <1>2
<1>4. r[k] = "ECHO" /\ r[k - 1] = verb
  BY <1>1, <1>2, <1>3
<1>5. ASSUME NEW i \in 1 .. Len(r), r[i] = "ECHO" PROVE i = k
  <2>1. CASE i \in 1 .. Len(s)
    BY <1>2, <1>5, <2>1 DEF Silent
  <2>2. CASE i = 1 + Len(s)
    BY <1>1, <1>2, <1>5, <2>2
  <2>3. CASE i = 2 + Len(s)
    BY <1>1, <1>2, <1>5, <2>3
  <2>4. i \in 1 .. Len(s) \/ i = 1 + Len(s) \/ i = 2 + Len(s) \/ i = k
    BY <1>2
  <2> QED BY <2>1, <2>2, <2>3, <2>4
<1> HIDE DEF k
<1> QED BY <1>3, <1>4, <1>5 DEF Once, r, t, Nego

\* Reading the first element of a run: the command about echo, or what comes before.
LEMMA OnceRead ==
  ASSUME NEW R, NEW X, NEW S, NEW s \in Seq(S), s # <<>>, NEW x, NEW y, NEW z, NEW verb,
         <<x, Head(s), z>> \in R, Runs(R, X, Tail(s), z, y), Once(s, verb, x.at),
         \A l, m : <<l, "ECHO", m>> \in R => l.at \in Verbs,
         \A l, b, m : <<l, b, m>> \in R /\ m.at \in Verbs => m.at = b
  PROVE  /\ Head(s) = "ECHO" => x.at = verb /\ Silent(Tail(s))
         /\ Head(s) # "ECHO" => Once(Tail(s), verb, z.at)
<1> DEFINE t == Tail(s)
<1>1. /\ t \in Seq(S) /\ Len(t) = Len(s) - 1 /\ Len(s) \in Nat /\ Len(s) >= 1 /\ Head(s) = s[1]
      /\ \A j \in 1 .. Len(t) : t[j] = s[j + 1]
  OBVIOUS
<1>2. PICK k \in 1 .. Len(s) :
        /\ s[k] = "ECHO" /\ verb = (IF k = 1 THEN x.at ELSE s[k - 1])
        /\ \A j \in 1 .. Len(s) : s[j] = "ECHO" => j = k
  BY DEF Once
<1>3. t # <<>> => Len(t) >= 1 /\ Head(t) = t[1]
  BY <1>1
<1>4. Runs(R, X, t, z, y)
  OBVIOUS
<1> HIDE DEF t
<1>5. ASSUME Head(s) = "ECHO" PROVE x.at = verb /\ Silent(t)
  <2>1. k = 1
    BY <1>1, <1>2, <1>5
  <2>2. ASSUME NEW j \in 1 .. Len(t) PROVE t[j] # "ECHO"
    <3>1. j + 1 \in 1 .. Len(s) /\ j + 1 # 1
      BY <1>1
    <3> QED BY <1>1, <1>2, <2>1, <3>1
  <2> QED BY <1>2, <2>1, <2>2 DEF Silent
<1>6. ASSUME Head(s) # "ECHO" PROVE Once(t, verb, z.at)
  <2> DEFINE m == k - 1
  <2>1. k # 1 /\ m \in 1 .. Len(t) /\ m + 1 = k
    BY <1>1, <1>2, <1>6
  <2>2. t[m] = "ECHO" /\ verb = s[m]
    BY <1>1, <1>2, <2>1
  <2>3. ASSUME NEW j \in 1 .. Len(t), t[j] = "ECHO" PROVE j = m
    <3>1. j + 1 \in 1 .. Len(s) /\ s[j + 1] = "ECHO"
      BY <1>1, <2>3
    <3> QED BY <1>2, <3>1
  <2> HIDE DEF m
  <2>4. verb = (IF m = 1 THEN z.at ELSE t[m - 1])
    <3>1. CASE m = 1
      <4>1. t # <<>> /\ Head(t) = "ECHO"
        <5>1. Len(t) >= 1
          BY <2>1, <3>1
        <5>2. t # <<>>
          BY <5>1
        <5> QED BY <5>2, <1>3, <2>2, <3>1
      <4>2. PICK l \in X : <<z, Head(t), l>> \in R
        BY <1>1, <1>4, <4>1, RunTail
      <4>3. z.at \in Verbs
        BY <4>1, <4>2
      <4>4. z.at = Head(s)
        BY <4>3
      <4> QED BY <1>1, <2>2, <3>1, <4>4
    <3>2. CASE m # 1
      <4>1. m - 1 \in 1 .. Len(t) /\ (m - 1) + 1 = m
        BY <1>1, <2>1, <3>2
      <4>2. t[m - 1] = s[m]
        BY <1>1, <4>1
      <4> QED BY <2>2, <3>2, <4>2
    <3> QED BY <3>1, <3>2
  <2> QED BY <2>1, <2>2, <2>3, <2>4 DEF Once
<1> QED BY <1>5, <1>6 DEF t

----------------------------------------------------------------------------
(* The two automata.                                                        *)

LEMMA Labels ==
  /\ \A p \in Places, n \in Nat : At(p, n).at = p /\ At(p, n).n = n
  /\ \A p \in Places : \A k \in 0 .. 3 : \A n \in 0 .. k : At(p, n) \in UpTo(k) /\ At(p, n) \in Label
  /\ \A k \in 0 .. 3 : \A x \in UpTo(k) : x \in Label /\ x.n \in 0 .. k /\ x = At(x.at, x.n)
BY DEF At, Label, UpTo

LEMMA DownRelIs ==
  ASSUME NEW x \in Label, NEW b \in Bytes, NEW y \in Label
  PROVE  <<x, b, y>> \in DownRel <=> DownMoves(x, b, y)
<1>1. <<x, b, y>> \in Label \X Bytes \X Label /\ <<x, b, y>>[1] = x /\ <<x, b, y>>[2] = b /\ <<x, b, y>>[3] = y
  OBVIOUS
<1> QED BY <1>1 DEF DownRel

LEMMA UpRelIs ==
  ASSUME NEW x \in Label, NEW b \in Bytes, NEW y \in Label
  PROVE  <<x, b, y>> \in UpRel <=> UpMoves(x, b, y)
<1>1. <<x, b, y>> \in Label \X Bytes \X Label /\ <<x, b, y>>[1] = x /\ <<x, b, y>>[2] = b /\ <<x, b, y>>[3] = y
  OBVIOUS
<1> QED BY <1>1 DEF UpRel

LEMMA DownRelOf ==
  ASSUME NEW x, NEW b, NEW y, <<x, b, y>> \in DownRel
  PROVE  x \in Label /\ b \in Bytes /\ y \in Label /\ DownMoves(x, b, y)
<1>1. <<x, b, y>> \in Label \X Bytes \X Label
  BY DEF DownRel
<1>2. x \in Label /\ b \in Bytes /\ y \in Label
  BY <1>1
<1> QED BY <1>2, DownRelIs

LEMMA UpRelOf ==
  ASSUME NEW x, NEW b, NEW y, <<x, b, y>> \in UpRel
  PROVE  x \in Label /\ b \in Bytes /\ y \in Label /\ UpMoves(x, b, y)
<1>1. <<x, b, y>> \in Label \X Bytes \X Label
  BY DEF UpRel
<1>2. x \in Label /\ b \in Bytes /\ y \in Label
  BY <1>1
<1> QED BY <1>2, UpRelIs

LEMMA Texts ==
  /\ Len(Says) = 3 /\ Says[1] = "IAC" /\ Says[2] = "a" /\ Says[3] = "b" /\ Says \in Seq(Bytes)
  /\ Len(Types) = 3 /\ Types[1] = "IAC" /\ Types[2] = "x" /\ Types[3] = "IAC" /\ Types \in Seq(Bytes)
  /\ \A i \in 1 .. 3 : /\ Says[i] \in {"IAC", "a", "b"} /\ Says[i] \in Bytes
                       /\ Types[i] \in {"IAC", "x"} /\ Types[i] \in Bytes
<1>1. /\ Len(Says) = 3 /\ Says[1] = "IAC" /\ Says[2] = "a" /\ Says[3] = "b" /\ Says \in Seq(Bytes)
      /\ Len(Types) = 3 /\ Types[1] = "IAC" /\ Types[2] = "x" /\ Types[3] = "IAC" /\ Types \in Seq(Bytes)
  <2>1. "IAC" \in Bytes /\ "a" \in Bytes /\ "b" \in Bytes /\ "x" \in Bytes
    BY DEF Bytes
  <2>2. Len(Says) = 3 /\ Says[1] = "IAC" /\ Says[2] = "a" /\ Says[3] = "b"
    BY DEF Says
  <2>3. Len(Types) = 3 /\ Types[1] = "IAC" /\ Types[2] = "x" /\ Types[3] = "IAC"
    BY DEF Types
  <2>4. Says \in Seq(Bytes)
    BY <2>1 DEF Says
  <2>5. Types \in Seq(Bytes)
    BY <2>1 DEF Types
  <2> QED BY <2>2, <2>3, <2>4, <2>5
<1>2. \A i \in 1 .. 3 : i = 1 \/ i = 2 \/ i = 3
  OBVIOUS
<1>3. ASSUME NEW i \in 1 .. 3
      PROVE  /\ Says[i] \in {"IAC", "a", "b"} /\ Says[i] \in Bytes
             /\ Types[i] \in {"IAC", "x"} /\ Types[i] \in Bytes
  <2>1. Says[i] \in {"IAC", "a", "b"} /\ Types[i] \in {"IAC", "x"}
    BY <1>1, <1>2
  <2> QED BY <2>1 DEF Bytes
<1> QED BY <1>1, <1>3

\* A run holds the name of the option only after a verb, and a verb's place is
\* reached by that verb only.
LEMMA DownEcho ==
  /\ \A l, m : <<l, "ECHO", m>> \in DownRel => l.at \in Verbs
  /\ \A l, b, m : <<l, b, m>> \in DownRel /\ m.at \in Verbs => m.at = b
<1>1. ASSUME NEW l, NEW b, NEW m, <<l, b, m>> \in DownRel
      PROVE  /\ b = "ECHO" => l.at \in Verbs
             /\ m.at \in Verbs => m.at = b
  <2>1. l \in Label /\ b \in Bytes /\ m \in Label /\ DownMoves(l, b, m)
    BY <1>1, DownRelOf
  <2>2. l.n \in Nat /\ m.n \in 0 .. 3
    BY <2>1 DEF Label
  <2>3. \A p \in Places : At(p, l.n).at = p /\ At(p, l.n + 1).at = p /\ At(p, l.n + 1).n = l.n + 1
    BY <2>2 DEF At
  <2>4. Text(Says, l, b, m) => b \in {"IAC", "a", "b"} /\ m.at = "text"
    <3>1. Text(Says, l, b, m) => m.n = l.n + 1
      BY <2>3 DEF Text, Places
    <3>2. l.n + 1 \in 0 .. 3 => l.n + 1 \in 1 .. 3
      BY <2>2
    <3> QED BY <3>1, <3>2, <2>2, <2>3, Texts DEF Text, Places
  <2> QED BY <2>1, <2>3, <2>4 DEF DownMoves, Moves, Verbs, Places
<1> QED BY <1>1

LEMMA UpEcho ==
  /\ \A l, m : <<l, "ECHO", m>> \in UpRel => l.at \in Verbs
  /\ \A l, b, m : <<l, b, m>> \in UpRel /\ m.at \in Verbs => m.at = b
<1>1. ASSUME NEW l, NEW b, NEW m, <<l, b, m>> \in UpRel
      PROVE  /\ b = "ECHO" => l.at \in Verbs
             /\ m.at \in Verbs => m.at = b
  <2>1. l \in Label /\ b \in Bytes /\ m \in Label /\ UpMoves(l, b, m)
    BY <1>1, UpRelOf
  <2>2. l.n \in Nat /\ m.n \in 0 .. 3
    BY <2>1 DEF Label
  <2>3. \A p \in Places : At(p, l.n).at = p /\ At(p, l.n + 1).at = p /\ At(p, l.n + 1).n = l.n + 1
    BY <2>2 DEF At
  <2>4. Text(Types, l, b, m) => b \in {"IAC", "x"} /\ m.at = "text"
    <3>1. Text(Types, l, b, m) => m.n = l.n + 1
      BY <2>3 DEF Text, Places
    <3>2. l.n + 1 \in 0 .. 3 => l.n + 1 \in 1 .. 3
      BY <2>2
    <3> QED BY <3>1, <3>2, <2>2, <2>3, Texts DEF Text, Places
  <2> QED BY <2>1, <2>3, <2>4 DEF UpMoves, Moves, Verbs, Places
<1> QED BY <1>1

----------------------------------------------------------------------------
(* What is written begins and ends in text, wherever the text is.           *)

UpTalk(s) ==
  s \in Seq(Bytes) /\ \A k \in 0 .. 3 : \A n \in 0 .. k : Runs(UpRel, UpTo(k), s, At("text", n), At("text", n))
DownTalk(s) ==
  s \in Seq(Bytes) /\ \A k \in 0 .. 3 : \A n \in 0 .. k : Runs(DownRel, UpTo(k), s, At("text", n), At("text", n))

LEMMA ByteNames ==
  /\ {"IAC", "SB", "SE", "GA", "NOP", "SEND", "IS", "XTERM", "NUL", "a", "b", "x"} \subseteq Bytes
  /\ Verbs \subseteq Bytes /\ Options \subseteq Bytes /\ Sizes \subseteq Bytes
BY DEF Bytes

LEMMA PlaceNames ==
  /\ {"text", "cmd", "sub", "type", "subcmd"} \subseteq Places /\ Verbs \subseteq Places
  /\ {"text", "cmd", "sub", "type", "subcmd"} \cap Verbs = {}
BY DEF Places, Verbs

LEMMA UpSilence ==
  /\ UpTalk(<<>>) /\ Silent(<<>>) /\ DownTalk(<<>>)
<1>1. <<>> \in Seq(Bytes) /\ Silent(<<>>)
  BY DEF Silent
<1>2. ASSUME NEW k \in 0 .. 3, NEW n \in 0 .. k PROVE At("text", n) \in UpTo(k)
  BY Labels, PlaceNames
<1>3. ASSUME NEW k \in 0 .. 3, NEW n \in 0 .. k
      PROVE  Runs(UpRel, UpTo(k), <<>>, At("text", n), At("text", n))
  BY <1>2, RunEmpty
<1>4. ASSUME NEW k \in 0 .. 3, NEW n \in 0 .. k
      PROVE  Runs(DownRel, UpTo(k), <<>>, At("text", n), At("text", n))
  BY <1>2, RunEmpty
<1> QED BY <1>1, <1>3, <1>4 DEF UpTalk, DownTalk

LEMMA TalkConcat ==
  ASSUME NEW s, NEW t
  PROVE  /\ UpTalk(s) /\ UpTalk(t) => UpTalk(s \o t)
         /\ DownTalk(s) /\ DownTalk(t) => DownTalk(s \o t)
<1>1. ASSUME UpTalk(s), UpTalk(t) PROVE UpTalk(s \o t)
  <2>1. s \in Seq(Bytes) /\ t \in Seq(Bytes) /\ s \o t \in Seq(Bytes)
    BY <1>1 DEF UpTalk
  <2>2. ASSUME NEW k \in 0 .. 3, NEW n \in 0 .. k
        PROVE  Runs(UpRel, UpTo(k), s \o t, At("text", n), At("text", n))
    <3>1. /\ Runs(UpRel, UpTo(k), s, At("text", n), At("text", n))
          /\ Runs(UpRel, UpTo(k), t, At("text", n), At("text", n))
      BY <1>1 DEF UpTalk
    <3> QED BY <2>1, <3>1, RunConcat
  <2> QED BY <2>1, <2>2 DEF UpTalk
<1>2. ASSUME DownTalk(s), DownTalk(t) PROVE DownTalk(s \o t)
  <2>1. s \in Seq(Bytes) /\ t \in Seq(Bytes) /\ s \o t \in Seq(Bytes)
    BY <1>2 DEF DownTalk
  <2>2. ASSUME NEW k \in 0 .. 3, NEW n \in 0 .. k
        PROVE  Runs(DownRel, UpTo(k), s \o t, At("text", n), At("text", n))
    <3>1. /\ Runs(DownRel, UpTo(k), s, At("text", n), At("text", n))
          /\ Runs(DownRel, UpTo(k), t, At("text", n), At("text", n))
      BY <1>2 DEF DownTalk
    <3> QED BY <2>1, <3>1, RunConcat
  <2> QED BY <2>1, <2>2 DEF DownTalk
<1> QED BY <1>1, <1>2

\* The moves that occur, as members of the relations.
LEMMA UpMove ==
  ASSUME NEW p \in Places, NEW q \in Places, NEW n \in 0 .. 3, NEW b \in Bytes,
         UpMoves(At(p, n), b, At(q, n))
  PROVE  <<At(p, n), b, At(q, n)>> \in UpRel
<1>1. 3 \in 0 .. 3 /\ At(p, n) \in Label /\ At(q, n) \in Label
  BY Labels
<1> QED BY <1>1, UpRelIs

LEMMA DownMove ==
  ASSUME NEW p \in Places, NEW q \in Places, NEW n \in 0 .. 3, NEW b \in Bytes,
         DownMoves(At(p, n), b, At(q, n))
  PROVE  <<At(p, n), b, At(q, n)>> \in DownRel
<1>1. 3 \in 0 .. 3 /\ At(p, n) \in Label /\ At(q, n) \in Label
  BY Labels
<1> QED BY <1>1, DownRelIs

LEMMA CommonMoves ==
  ASSUME NEW n \in 0 .. 3, NEW says
  PROVE  /\ Moves(says, At("text", n), "IAC", At("cmd", n))
         /\ \A v \in Verbs : Moves(says, At("cmd", n), v, At(v, n))
         /\ \A v \in Verbs, o \in Options : Moves(says, At(v, n), o, At("text", n))
         /\ Moves(says, At("cmd", n), "SB", At("sub", n))
         /\ Moves(says, At("sub", n), "IAC", At("subcmd", n))
         /\ Moves(says, At("subcmd", n), "SE", At("text", n))
BY DEF Moves, At

LEMMA NegoTalks ==
  ASSUME NEW v \in Verbs, NEW o \in Options
  PROVE  /\ UpTalk(Nego(v, o)) /\ DownTalk(Nego(v, o))
         /\ o # "ECHO" => Silent(Nego(v, o))
<1>1. "IAC" \in Bytes /\ v \in Bytes /\ o \in Bytes /\ v \in Places /\ "text" \in Places /\ "cmd" \in Places
  BY ByteNames, PlaceNames
<1> DEFINE s == <<"IAC", v, o>>
<1>2. s \in Seq(Bytes) /\ Len(s) = 3 /\ s[1] = "IAC" /\ s[2] = v /\ s[3] = o
  BY <1>1
<1>3. o # "ECHO" => Silent(s)
  <2> HIDE DEF s
  <2>1. v # "ECHO"
    BY DEF Verbs
  <2>2. \A j \in 1 .. 3 : j = 1 \/ j = 2 \/ j = 3
    OBVIOUS
  <2> QED BY <1>2, <2>1, <2>2 DEF Silent
<1>4. ASSUME NEW k \in 0 .. 3, NEW n \in 0 .. k
      PROVE  /\ Runs(UpRel, UpTo(k), s, At("text", n), At("text", n))
             /\ Runs(DownRel, UpTo(k), s, At("text", n), At("text", n))
  <2>1. n \in 0 .. 3
    OBVIOUS
  <2>2. At("text", n) \in UpTo(k) /\ At("cmd", n) \in UpTo(k) /\ At(v, n) \in UpTo(k)
    BY <1>1, Labels
  <2>3. /\ <<At("text", n), "IAC", At("cmd", n)>> \in UpRel
        /\ <<At("cmd", n), v, At(v, n)>> \in UpRel /\ <<At(v, n), o, At("text", n)>> \in UpRel
    <3>1. /\ UpMoves(At("text", n), "IAC", At("cmd", n)) /\ UpMoves(At("cmd", n), v, At(v, n))
          /\ UpMoves(At(v, n), o, At("text", n))
      BY <2>1, CommonMoves DEF UpMoves
    <3> QED BY <1>1, <2>1, <3>1, UpMove
  <2>4. /\ <<At("text", n), "IAC", At("cmd", n)>> \in DownRel
        /\ <<At("cmd", n), v, At(v, n)>> \in DownRel /\ <<At(v, n), o, At("text", n)>> \in DownRel
    <3>1. /\ DownMoves(At("text", n), "IAC", At("cmd", n)) /\ DownMoves(At("cmd", n), v, At(v, n))
          /\ DownMoves(At(v, n), o, At("text", n))
      BY <2>1, CommonMoves DEF DownMoves
    <3> QED BY <1>1, <2>1, <3>1, DownMove
  <2>5. Runs(UpRel, UpTo(k), s, At("text", n), At("text", n))
    BY <2>2, <2>3, RunThree
  <2>6. Runs(DownRel, UpTo(k), s, At("text", n), At("text", n))
    BY <2>2, <2>4, RunThree
  <2> QED BY <2>5, <2>6
<1> HIDE DEF s
<1>5. UpTalk(s) /\ DownTalk(s)
  BY <1>2, <1>4 DEF UpTalk, DownTalk
<1>6. Nego(v, o) = s
  BY DEF Nego, s
<1> QED BY <1>3, <1>5, <1>6

\* A Go-Ahead.
LEMMA GoAheadTalks == DownTalk(<<"IAC", "GA">>) /\ Silent(<<"IAC", "GA">>)
<1>1. "IAC" \in Bytes /\ "GA" \in Bytes /\ "text" \in Places /\ "cmd" \in Places
  BY ByteNames, PlaceNames
<1>2. Silent(<<"IAC", "GA">>) /\ <<"IAC", "GA">> \in Seq(Bytes)
  BY <1>1 DEF Silent
<1>3. ASSUME NEW k \in 0 .. 3, NEW n \in 0 .. k
      PROVE  Runs(DownRel, UpTo(k), <<"IAC", "GA">>, At("text", n), At("text", n))
  <2>1. n \in 0 .. 3 /\ At("text", n) \in UpTo(k) /\ At("cmd", n) \in UpTo(k)
    BY <1>1, Labels
  <2>2. DownMoves(At("text", n), "IAC", At("cmd", n)) /\ DownMoves(At("cmd", n), "GA", At("text", n))
    BY <2>1, CommonMoves DEF DownMoves, At
  <2>3. <<At("text", n), "IAC", At("cmd", n)>> \in DownRel /\ <<At("cmd", n), "GA", At("text", n)>> \in DownRel
    BY <1>1, <2>1, <2>2, DownMove
  <2> QED BY <2>1, <2>3, RunTwo
<1> QED BY <1>2, <1>3 DEF DownTalk

\* A subnegotiation whose data the reader takes for data.
LEMMA SubTalks ==
  ASSUME NEW o \in Options, o # "ECHO", NEW data \in Seq(Bytes), Silent(data)
  PROVE  /\ SubNego(o, data) \in Seq(Bytes) /\ Silent(SubNego(o, data))
         /\ (\A k \in 0 .. 3 : \A n \in 0 .. k : Runs(UpRel, UpTo(k), data, At("sub", n), At("sub", n)))
              => UpTalk(SubNego(o, data))
         /\ o = "TTYPE" /\ (\A k \in 0 .. 3 : \A n \in 0 .. k : Runs(DownRel, UpTo(k), data, At("type", n), At("sub", n)))
              => DownTalk(SubNego(o, data))
<1> DEFINE a == <<"IAC", "SB", o>>
           z == <<"IAC", "SE">>
<1>1. /\ "IAC" \in Bytes /\ "SB" \in Bytes /\ "SE" \in Bytes /\ o \in Bytes
      /\ "text" \in Places /\ "cmd" \in Places /\ "sub" \in Places /\ "type" \in Places /\ "subcmd" \in Places
  BY ByteNames, PlaceNames
<1>2. a \in Seq(Bytes) /\ z \in Seq(Bytes)
  BY <1>1
<1>3. Silent(a) /\ Silent(z)
  <2>1. Len(a) = 3 /\ a[1] = "IAC" /\ a[2] = "SB" /\ a[3] = o /\ Len(z) = 2 /\ z[1] = "IAC" /\ z[2] = "SE"
    OBVIOUS
  <2> HIDE DEF a, z
  <2>2. (\A j \in 1 .. 3 : j = 1 \/ j = 2 \/ j = 3) /\ (\A j \in 1 .. 2 : j = 1 \/ j = 2)
    OBVIOUS
  <2> QED BY <2>1, <2>2 DEF Silent
<1>4. SubNego(o, data) = (a \o data) \o z
  BY DEF SubNego
<1>5. ASSUME NEW k \in 0 .. 3, NEW n \in 0 .. k
      PROVE  /\ Runs(UpRel, UpTo(k), a, At("text", n), At("sub", n))
             /\ o = "TTYPE" => Runs(DownRel, UpTo(k), a, At("text", n), At("type", n))
             /\ Runs(UpRel, UpTo(k), z, At("sub", n), At("text", n))
             /\ Runs(DownRel, UpTo(k), z, At("sub", n), At("text", n))
  <2>1. /\ n \in 0 .. 3 /\ At("text", n) \in UpTo(k) /\ At("cmd", n) \in UpTo(k) /\ At("sub", n) \in UpTo(k)
        /\ At("type", n) \in UpTo(k) /\ At("subcmd", n) \in UpTo(k)
    BY <1>1, Labels
  <2>2. /\ UpMoves(At("text", n), "IAC", At("cmd", n)) /\ UpMoves(At("cmd", n), "SB", At("sub", n))
        /\ UpMoves(At("sub", n), "IAC", At("subcmd", n)) /\ UpMoves(At("subcmd", n), "SE", At("text", n))
        /\ DownMoves(At("text", n), "IAC", At("cmd", n)) /\ DownMoves(At("cmd", n), "SB", At("sub", n))
        /\ DownMoves(At("sub", n), "IAC", At("subcmd", n)) /\ DownMoves(At("subcmd", n), "SE", At("text", n))
    BY <2>1, CommonMoves DEF UpMoves, DownMoves
  <2>3. UpMoves(At("sub", n), o, At("sub", n)) /\ DownMoves(At("sub", n), "TTYPE", At("type", n))
    BY DEF UpMoves, DownMoves, At, Options
  <2>4. /\ <<At("text", n), "IAC", At("cmd", n)>> \in UpRel /\ <<At("cmd", n), "SB", At("sub", n)>> \in UpRel
        /\ <<At("sub", n), o, At("sub", n)>> \in UpRel
        /\ <<At("sub", n), "IAC", At("subcmd", n)>> \in UpRel /\ <<At("subcmd", n), "SE", At("text", n)>> \in UpRel
    BY <1>1, <2>1, <2>2, <2>3, UpMove
  <2>5. /\ <<At("text", n), "IAC", At("cmd", n)>> \in DownRel /\ <<At("cmd", n), "SB", At("sub", n)>> \in DownRel
        /\ <<At("sub", n), "IAC", At("subcmd", n)>> \in DownRel /\ <<At("subcmd", n), "SE", At("text", n)>> \in DownRel
    BY <1>1, <2>1, <2>2, DownMove
  <2>6. o = "TTYPE" => <<At("sub", n), o, At("type", n)>> \in DownRel
    BY <1>1, <2>1, <2>3, DownMove
  <2>7. Runs(UpRel, UpTo(k), a, At("text", n), At("sub", n))
    BY <2>1, <2>4, RunThree
  <2>8. o = "TTYPE" => Runs(DownRel, UpTo(k), a, At("text", n), At("type", n))
    BY <2>1, <2>5, <2>6, RunThree
  <2>9. Runs(UpRel, UpTo(k), z, At("sub", n), At("text", n))
    BY <2>1, <2>4, RunTwo
  <2>10. Runs(DownRel, UpTo(k), z, At("sub", n), At("text", n))
    BY <2>1, <2>5, RunTwo
  <2> QED BY <2>7, <2>8, <2>9, <2>10
<1> HIDE DEF a, z
<1>6. a \o data \in Seq(Bytes) /\ Silent(a \o data)
  BY <1>2, <1>3, SilentConcat
<1>7. (a \o data) \o z \in Seq(Bytes) /\ Silent((a \o data) \o z)
  <2> DEFINE h == a \o data
  <2>1. h \in Seq(Bytes) /\ Silent(h)
    BY <1>6
  <2> HIDE DEF h
  <2>2. h \o z \in Seq(Bytes) /\ Silent(h \o z)
    BY <1>2, <1>3, <2>1, SilentConcat
  <2> QED BY <2>2 DEF h
<1>8. ASSUME \A k \in 0 .. 3 : \A n \in 0 .. k : Runs(UpRel, UpTo(k), data, At("sub", n), At("sub", n))
      PROVE  UpTalk((a \o data) \o z)
  <2>1. ASSUME NEW k \in 0 .. 3, NEW n \in 0 .. k
        PROVE  Runs(UpRel, UpTo(k), (a \o data) \o z, At("text", n), At("text", n))
    <3>1. Runs(UpRel, UpTo(k), a \o data, At("text", n), At("sub", n))
      BY <1>2, <1>5, <1>8, RunConcat
    <3> QED BY <1>2, <1>5, <1>6, <3>1, RunConcat
  <2> QED BY <1>7, <2>1 DEF UpTalk
<1>9. ASSUME o = "TTYPE", \A k \in 0 .. 3 : \A n \in 0 .. k : Runs(DownRel, UpTo(k), data, At("type", n), At("sub", n))
      PROVE  DownTalk((a \o data) \o z)
  <2>1. ASSUME NEW k \in 0 .. 3, NEW n \in 0 .. k
        PROVE  Runs(DownRel, UpTo(k), (a \o data) \o z, At("text", n), At("text", n))
    <3>1. Runs(DownRel, UpTo(k), a \o data, At("text", n), At("sub", n))
      BY <1>2, <1>5, <1>9, RunConcat
    <3> QED BY <1>2, <1>5, <1>6, <3>1, RunConcat
  <2> QED BY <1>7, <2>1 DEF DownTalk
<1> QED BY <1>4, <1>7, <1>8, <1>9

LEMMA SizeTalks ==
  ASSUME Fits, NEW d \in Sizes \cup {"unset"}
  PROVE  UpTalk(SubNego("NAWS", SizeBytes(d))) /\ Silent(SubNego("NAWS", SizeBytes(d)))
<1>1. "IAC" \in Bytes /\ "sub" \in Places /\ "subcmd" \in Places /\ "NAWS" \in Options
  BY ByteNames, PlaceNames DEF Options
<1>2. CASE d = "unset"
  <2> DEFINE s == <<"IAC", "IAC", "IAC", "IAC">>
  <2>1. SizeBytes(d) = s
    BY <1>2 DEF SizeBytes
  <2>2. s \in Seq(Bytes)
    BY <1>1
  <2>3. Silent(s)
    <3>1. Len(s) = 4 /\ s[1] = "IAC" /\ s[2] = "IAC" /\ s[3] = "IAC" /\ s[4] = "IAC"
      OBVIOUS
    <3> HIDE DEF s
    <3>2. \A j \in 1 .. 4 : j = 1 \/ j = 2 \/ j = 3 \/ j = 4
      OBVIOUS
    <3> QED BY <3>1, <3>2 DEF Silent
  <2>4. ASSUME NEW k \in 0 .. 3, NEW n \in 0 .. k
        PROVE  Runs(UpRel, UpTo(k), s, At("sub", n), At("sub", n))
    <3>1. n \in 0 .. 3 /\ At("sub", n) \in UpTo(k) /\ At("subcmd", n) \in UpTo(k)
      BY <1>1, Labels
    <3>2. UpMoves(At("sub", n), "IAC", At("subcmd", n)) /\ UpMoves(At("subcmd", n), "IAC", At("sub", n))
      BY <3>1, CommonMoves DEF UpMoves, At
    <3>3. <<At("sub", n), "IAC", At("subcmd", n)>> \in UpRel /\ <<At("subcmd", n), "IAC", At("sub", n)>> \in UpRel
      BY <1>1, <3>1, <3>2, UpMove
    <3>4. Runs(UpRel, UpTo(k), <<"IAC", "IAC">>, At("sub", n), At("sub", n))
      BY <3>1, <3>3, RunTwo
    <3>5. <<"IAC", "IAC">> \in Seq(Bytes)
      BY <1>1
    <3>6. Runs(UpRel, UpTo(k), <<"IAC", "IAC">> \o <<"IAC", "IAC">>, At("sub", n), At("sub", n))
      BY <3>4, <3>5, RunConcat
    <3> QED BY <3>6, Quad
  <2> HIDE DEF s
  <2> QED BY <1>1, <2>1, <2>2, <2>3, <2>4, SubTalks
<1>3. CASE d \in Sizes
  <2>1. d \in Bytes /\ d \notin {"IAC", "ECHO", "unset"}
    BY <1>3, ByteNames, TelnetAssumption
  <2>2. SizeBytes(d) = <<d>> /\ <<d>> \in Seq(Bytes) /\ Silent(<<d>>)
    <3>1. SizeBytes(d) = <<>> \o <<d>> \o <<>>
      BY <2>1 DEF SizeBytes, Fits
    <3>2. <<d>> \in Seq(Bytes) /\ Silent(<<d>>)
      BY <2>1 DEF Silent
    <3>3. <<>> \o <<d>> = <<d>> /\ <<d>> \o <<>> = <<d>>
      BY <3>2, ConcatEmptySeq
    <3> QED BY <3>1, <3>2, <3>3
  <2>3. ASSUME NEW k \in 0 .. 3, NEW n \in 0 .. k
        PROVE  Runs(UpRel, UpTo(k), <<d>>, At("sub", n), At("sub", n))
    <3>1. n \in 0 .. 3 /\ At("sub", n) \in UpTo(k)
      BY <1>1, Labels
    <3>2. UpMoves(At("sub", n), d, At("sub", n))
      BY <2>1 DEF UpMoves, At
    <3>3. <<At("sub", n), d, At("sub", n)>> \in UpRel
      BY <1>1, <2>1, <3>1, <3>2, UpMove
    <3> QED BY <3>1, <3>3, RunOne
  <2> QED BY <1>1, <2>2, <2>3, SubTalks
<1> QED BY <1>2, <1>3

LEMMA TypeTalks ==
  /\ UpTalk(SubNego("TTYPE", <<"IS", "XTERM">>)) /\ Silent(SubNego("TTYPE", <<"IS", "XTERM">>))
  /\ DownTalk(SubNego("TTYPE", <<"SEND">>)) /\ Silent(SubNego("TTYPE", <<"SEND">>))
<1>1. /\ "IS" \in Bytes /\ "XTERM" \in Bytes /\ "SEND" \in Bytes /\ "sub" \in Places /\ "type" \in Places
      /\ "TTYPE" \in Options
  BY ByteNames, PlaceNames DEF Options
<1> DEFINE s == <<"IS", "XTERM">>
<1>2. s \in Seq(Bytes) /\ Silent(s)
  <2>1. Len(s) = 2 /\ s[1] = "IS" /\ s[2] = "XTERM" /\ s \in Seq(Bytes)
    BY <1>1
  <2> HIDE DEF s
  <2>2. \A j \in 1 .. 2 : j = 1 \/ j = 2
    OBVIOUS
  <2> QED BY <2>1, <2>2 DEF Silent
<1>3. ASSUME NEW k \in 0 .. 3, NEW n \in 0 .. k
      PROVE  Runs(UpRel, UpTo(k), s, At("sub", n), At("sub", n))
  <2>1. n \in 0 .. 3 /\ At("sub", n) \in UpTo(k)
    BY <1>1, Labels
  <2>2. UpMoves(At("sub", n), "IS", At("sub", n)) /\ UpMoves(At("sub", n), "XTERM", At("sub", n))
    BY DEF UpMoves, At
  <2>3. <<At("sub", n), "IS", At("sub", n)>> \in UpRel /\ <<At("sub", n), "XTERM", At("sub", n)>> \in UpRel
    BY <1>1, <2>1, <2>2, UpMove
  <2> QED BY <2>1, <2>3, RunTwo
<1> HIDE DEF s
<1>4. UpTalk(SubNego("TTYPE", s)) /\ Silent(SubNego("TTYPE", s))
  BY <1>1, <1>2, <1>3, SubTalks
<1>5. <<"SEND">> \in Seq(Bytes) /\ Silent(<<"SEND">>)
  BY <1>1 DEF Silent
<1>6. ASSUME NEW k \in 0 .. 3, NEW n \in 0 .. k
      PROVE  Runs(DownRel, UpTo(k), <<"SEND">>, At("type", n), At("sub", n))
  <2>1. n \in 0 .. 3 /\ At("sub", n) \in UpTo(k) /\ At("type", n) \in UpTo(k)
    BY <1>1, Labels
  <2>2. DownMoves(At("type", n), "SEND", At("sub", n))
    BY <2>1 DEF DownMoves, At
  <2>3. <<At("type", n), "SEND", At("sub", n)>> \in DownRel
    BY <1>1, <2>1, <2>2, DownMove
  <2> QED BY <2>1, <2>3, RunOne
<1>7. DownTalk(SubNego("TTYPE", <<"SEND">>)) /\ Silent(SubNego("TTYPE", <<"SEND">>))
  BY <1>1, <1>5, <1>6, SubTalks
<1> QED BY <1>4, <1>7 DEF s

\* A byte of text, doubled if it is 255.
LEMMA TextTalks ==
  ASSUME NEW n \in 0 .. 2
  PROVE  /\ Escaped(Types[n + 1]) \in Seq(Bytes) /\ Silent(Escaped(Types[n + 1]))
         /\ Runs(UpRel, UpTo(n + 1), Escaped(Types[n + 1]), At("text", n), At("text", n + 1))
         /\ Escaped(Says[n + 1]) \in Seq(Bytes) /\ Silent(Escaped(Says[n + 1]))
         /\ Runs(DownRel, UpTo(n + 1), Escaped(Says[n + 1]), At("text", n), At("text", n + 1))
<1>1. "IAC" \in Bytes /\ "text" \in Places /\ "cmd" \in Places
  BY ByteNames, PlaceNames
<1>2. n + 1 \in 1 .. 3 /\ n + 1 \in 0 .. 3 /\ n \in 0 .. 3 /\ n \in 0 .. n + 1 /\ n + 1 \in 0 .. n + 1 /\ n \in Nat
  OBVIOUS
<1>3. /\ At("text", n) \in UpTo(n + 1) /\ At("cmd", n) \in UpTo(n + 1) /\ At("text", n + 1) \in UpTo(n + 1)
      /\ At("text", n) \in Label /\ At("cmd", n) \in Label /\ At("text", n + 1) \in Label
  BY <1>1, <1>2, Labels
<1>4. ASSUME NEW says, NEW b \in Bytes, b = says[n + 1], b # "ECHO"
      PROVE  /\ Escaped(b) \in Seq(Bytes) /\ Silent(Escaped(b))
             /\ Moves(says, At("text", n), "IAC", At("cmd", n))
             /\ b = "IAC" => Escaped(b) = <<"IAC", "IAC">> /\ Moves(says, At("cmd", n), "IAC", At("text", n + 1))
             /\ b # "IAC" => Escaped(b) = <<b>> /\ Moves(says, At("text", n), b, At("text", n + 1))
  <2>1. At("text", n).n = n /\ At("cmd", n).n = n /\ At("text", n).at = "text" /\ At("cmd", n).at = "cmd"
    BY DEF At
  <2>2. CASE b = "IAC"
    <3>1. Escaped(b) = <<"IAC", "IAC">>
      BY <2>2 DEF Escaped
    <3>2. <<"IAC", "IAC">> \in Seq(Bytes) /\ Silent(<<"IAC", "IAC">>)
      BY <1>1 DEF Silent
    <3> QED BY <1>4, <2>1, <2>2, <3>1, <3>2 DEF Moves, Text
  <2>3. CASE b # "IAC"
    <3>1. Escaped(b) = <<b>>
      BY <2>3 DEF Escaped
    <3>2. <<b>> \in Seq(Bytes) /\ Silent(<<b>>)
      BY <1>4 DEF Silent
    <3> QED BY <1>4, <2>1, <2>3, <3>1, <3>2 DEF Moves, Text
  <2> QED BY <2>2, <2>3
<1>5. Types[n + 1] \in Bytes /\ Types[n + 1] # "ECHO" /\ Says[n + 1] \in Bytes /\ Says[n + 1] # "ECHO"
  BY <1>2, Texts
<1>6. Runs(UpRel, UpTo(n + 1), Escaped(Types[n + 1]), At("text", n), At("text", n + 1))
  <2> DEFINE b == Types[n + 1]
  <2>1. b \in Bytes /\ b # "ECHO" /\ b = Types[n + 1]
    BY <1>5
  <2> HIDE DEF b
  <2>2. CASE b = "IAC"
    <3>1. /\ Escaped(b) = <<"IAC", "IAC">> /\ UpMoves(At("text", n), "IAC", At("cmd", n))
          /\ UpMoves(At("cmd", n), "IAC", At("text", n + 1))
      BY <1>4, <2>1, <2>2 DEF UpMoves
    <3>2. <<At("text", n), "IAC", At("cmd", n)>> \in UpRel /\ <<At("cmd", n), "IAC", At("text", n + 1)>> \in UpRel
      BY <1>1, <1>3, <3>1, UpRelIs
    <3>3. Runs(UpRel, UpTo(n + 1), <<"IAC", "IAC">>, At("text", n), At("text", n + 1))
      BY <1>3, <3>2, RunTwo
    <3> QED BY <3>1, <3>3 DEF b
  <2>3. CASE b # "IAC"
    <3>1. Escaped(b) = <<b>> /\ UpMoves(At("text", n), b, At("text", n + 1))
      BY <1>4, <2>1, <2>3 DEF UpMoves
    <3>2. <<At("text", n), b, At("text", n + 1)>> \in UpRel
      BY <1>3, <2>1, <3>1, UpRelIs
    <3>3. Runs(UpRel, UpTo(n + 1), <<b>>, At("text", n), At("text", n + 1))
      BY <1>3, <3>2, RunOne
    <3> QED BY <3>1, <3>3 DEF b
  <2> QED BY <2>2, <2>3
<1>7. Runs(DownRel, UpTo(n + 1), Escaped(Says[n + 1]), At("text", n), At("text", n + 1))
  <2> DEFINE b == Says[n + 1]
  <2>1. b \in Bytes /\ b # "ECHO" /\ b = Says[n + 1]
    BY <1>5
  <2> HIDE DEF b
  <2>2. CASE b = "IAC"
    <3>1. /\ Escaped(b) = <<"IAC", "IAC">> /\ DownMoves(At("text", n), "IAC", At("cmd", n))
          /\ DownMoves(At("cmd", n), "IAC", At("text", n + 1))
      BY <1>4, <2>1, <2>2 DEF DownMoves
    <3>2. <<At("text", n), "IAC", At("cmd", n)>> \in DownRel /\ <<At("cmd", n), "IAC", At("text", n + 1)>> \in DownRel
      BY <1>1, <1>3, <3>1, DownRelIs
    <3>3. Runs(DownRel, UpTo(n + 1), <<"IAC", "IAC">>, At("text", n), At("text", n + 1))
      BY <1>3, <3>2, RunTwo
    <3> QED BY <3>1, <3>3 DEF b
  <2>3. CASE b # "IAC"
    <3>1. Escaped(b) = <<b>> /\ DownMoves(At("text", n), b, At("text", n + 1))
      BY <1>4, <2>1, <2>3 DEF DownMoves
    <3>2. <<At("text", n), b, At("text", n + 1)>> \in DownRel
      BY <1>3, <2>1, <3>1, DownRelIs
    <3>3. Runs(DownRel, UpTo(n + 1), <<b>>, At("text", n), At("text", n + 1))
      BY <1>3, <3>2, RunOne
    <3> QED BY <3>1, <3>3 DEF b
  <2> QED BY <2>2, <2>3
<1>8. Escaped(Types[n + 1]) \in Seq(Bytes) /\ Silent(Escaped(Types[n + 1]))
  BY <1>4, <1>5
<1>9. Escaped(Says[n + 1]) \in Seq(Bytes) /\ Silent(Escaped(Says[n + 1]))
  BY <1>4, <1>5
<1> QED BY <1>6, <1>7, <1>8, <1>9

----------------------------------------------------------------------------
(* One byte of the parser.                                                  *)

Turn(c, out) == [c |-> c, out |-> out]

LEMMA TurnWith ==
  ASSUME NEW c \in CtlRec, NEW out, NEW t, t = Turn(c, out)
  PROVE  /\ t.c = c /\ t.out = out
         /\ \A v : [t EXCEPT !.out = v] = Turn(c, v)
         /\ \A v : [t EXCEPT !.c.at = v] = Turn([c EXCEPT !.at = v], out)
         /\ \A v : [t EXCEPT !.c.cmd = v] = Turn([c EXCEPT !.cmd = v], out)
         /\ \A v : [t EXCEPT !.c.exec = v] = Turn([c EXCEPT !.exec = v], out)
         /\ \A v : [t EXCEPT !.c.shown = v] = Turn([c EXCEPT !.shown = v], out)
<1>1. t.c = c /\ t.out = out
  BY DEF Turn
<1>2. ASSUME NEW v PROVE [t EXCEPT !.out = v] = Turn(c, v)
  BY DEF Turn
<1>3. ASSUME NEW v PROVE [t EXCEPT !.c.at = v] = Turn([c EXCEPT !.at = v], out)
  BY DEF Turn
<1>4. ASSUME NEW v PROVE [t EXCEPT !.c.cmd = v] = Turn([c EXCEPT !.cmd = v], out)
  BY DEF Turn
<1>5. ASSUME NEW v PROVE [t EXCEPT !.c.exec = v] = Turn([c EXCEPT !.exec = v], out)
  BY DEF Turn
<1>6. ASSUME NEW v PROVE [t EXCEPT !.c.shown = v] = Turn([c EXCEPT !.shown = v], out)
  BY DEF Turn
<1> QED BY <1>1, <1>2, <1>3, <1>4, <1>5, <1>6

LEMMA TurnIs ==
  ASSUME NEW c \in CtlRec, NEW out
  PROVE  /\ Turn(c, out).c = c /\ Turn(c, out).out = out
         /\ \A m : Sent(Turn(c, out), m) = Turn(c, out \o m)
         /\ \A p : Becomes(Turn(c, out), p) = Turn([c EXCEPT !.at = p], out)
<1>1. Turn(c, out).c = c /\ Turn(c, out).out = out
  BY TurnWith
<1>2. ASSUME NEW m PROVE Sent(Turn(c, out), m) = Turn(c, out \o m)
  <2>1. PICK t : t = Turn(c, out)
    OBVIOUS
  <2>2. t.out = out /\ \A v : [t EXCEPT !.out = v] = Turn(c, v)
    BY <2>1, TurnWith
  <2>3. Sent(t, m) = [t EXCEPT !.out = t.out \o m]
    BY DEF Sent
  <2> QED BY <2>1, <2>2, <2>3
<1>3. ASSUME NEW p PROVE Becomes(Turn(c, out), p) = Turn([c EXCEPT !.at = p], out)
  BY TurnWith DEF Becomes
<1> QED BY <1>1, <1>2, <1>3

LEMMA FlushIs ==
  ASSUME NEW c \in CtlRec, NEW out, NEW m
  PROVE  Flush(Turn(c, out), m) = Turn([c EXCEPT !.at = "text", !.shown = c.shown \o m], out)
<1>1. PICK d : d = [c EXCEPT !.at = "text"]
  OBVIOUS
<1>2. d \in CtlRec /\ d.shown = c.shown
  BY <1>1 DEF CtlRec
<1>3. PICK t : t = Becomes(Turn(c, out), "text")
  OBVIOUS
<1>4. t = Turn(d, out)
  BY <1>1, <1>3, TurnIs
<1>5. t.c = d /\ \A v : [t EXCEPT !.c.shown = v] = Turn([d EXCEPT !.shown = v], out)
  BY <1>2, <1>4, TurnWith
<1>6. Flush(Turn(c, out), m) = [t EXCEPT !.c.shown = t.c.shown \o m]
  BY <1>3 DEF Flush
<1>7. \A v : [d EXCEPT !.shown = v] = [c EXCEPT !.at = "text", !.shown = v]
  BY <1>1 DEF CtlRec
<1> QED BY <1>2, <1>5, <1>6, <1>7

\* What the parser does outside commands with an option.
LEMMA ParseText ==
  ASSUME NEW c \in CtlRec, c.at = "text", NEW b
  PROVE  /\ b = "IAC" => Parse(Turn(c, <<>>), b) = Turn([c EXCEPT !.at = "cmd"], <<>>)
         /\ b # "IAC" => Parse(Turn(c, <<>>), b) = Turn([c EXCEPT !.at = "text", !.shown = c.shown \o <<b>>], <<>>)
<1>1. PICK t : t = Turn(c, <<>>)
  OBVIOUS
<1>2. t.c.at = "text"
  BY <1>1, TurnIs
<1>3. Parse(t, b) = IF b = "IAC" THEN Becomes(t, "cmd") ELSE Flush(t, <<b>>)
  BY <1>2 DEF Parse, Introduced
<1>4. Becomes(t, "cmd") = Turn([c EXCEPT !.at = "cmd"], <<>>)
  BY <1>1, TurnIs
<1>5. Flush(t, <<b>>) = Turn([c EXCEPT !.at = "text", !.shown = c.shown \o <<b>>], <<>>)
  BY <1>1, FlushIs, Zenon
<1> QED BY <1>1, <1>3, <1>4, <1>5, Zenon

LEMMA ParseCmd ==
  ASSUME NEW c \in CtlRec, c.at = "cmd", NEW b
  PROVE  /\ b \in Verbs => Parse(Turn(c, <<>>), b) = Turn([c EXCEPT !.at = "opt", !.cmd = b], <<>>)
         /\ b = "IAC" => Parse(Turn(c, <<>>), b) = Turn([c EXCEPT !.at = "text", !.shown = c.shown \o <<"IAC">>], <<>>)
         /\ b = "GA" => Parse(Turn(c, <<>>), b) = Turn([c EXCEPT !.at = "text"], <<>>)
         /\ b = "SB" => Parse(Turn(c, <<>>), b) = Turn([c EXCEPT !.at = "sub", !.exec = FALSE], <<>>)
<1>1. PICK t : t = Turn(c, <<>>)
  OBVIOUS
<1>2. t.c.at = "cmd"
  BY <1>1, TurnIs
<1>3. Parse(t, b) = HandleCmd(t, b)
  BY <1>2 DEF Parse
<1>4. \A p : Becomes(t, p) = Turn([c EXCEPT !.at = p], <<>>)
  BY <1>1, TurnIs
<1>5. ASSUME b \in Verbs PROVE HandleCmd(t, b) = Turn([c EXCEPT !.at = "opt", !.cmd = b], <<>>)
  <2>1. PICK u : u = Becomes(t, "opt")
    OBVIOUS
  <2>2. HandleCmd(t, b) = [u EXCEPT !.c.cmd = b]
    <3>1. b \notin {"IAC", "SB"} \cup Known
      BY <1>5 DEF Verbs, Known
    <3> QED BY <1>5, <2>1, <3>1, Zenon DEF HandleCmd
  <2>3. PICK d : d = [c EXCEPT !.at = "opt"]
    OBVIOUS
  <2>4. d \in CtlRec /\ [d EXCEPT !.cmd = b] = [c EXCEPT !.at = "opt", !.cmd = b]
    BY <2>3 DEF CtlRec
  <2>5. u = Turn(d, <<>>)
    BY <1>4, <2>1, <2>3
  <2>6. [u EXCEPT !.c.cmd = b] = Turn([d EXCEPT !.cmd = b], <<>>)
    <3>1. ASSUME NEW v, NEW out, u = Turn(d, out)
          PROVE  [u EXCEPT !.c.cmd = v] = Turn([d EXCEPT !.cmd = v], out)
      BY <3>1 DEF Turn
    <3> QED BY <2>5, <3>1
  <2> QED BY <2>2, <2>4, <2>6
<1>6. ASSUME b = "IAC" PROVE HandleCmd(t, b) = Flush(t, <<"IAC">>)
  <2>1. b \notin Verbs
    BY <1>6 DEF Verbs
  <2>2. HandleCmd(t, "IAC") = CASE FALSE -> [Becomes(t, "opt") EXCEPT !.c.cmd = "IAC"] [] TRUE -> Flush(t, <<"IAC">>)
    BY <1>6, <2>1 DEF HandleCmd, Known
  <2> QED BY <1>6, <2>2
<1>7. ASSUME b = "GA" PROVE HandleCmd(t, b) = Becomes(t, "text")
  BY <1>7 DEF HandleCmd, Verbs, Known
<1>8. ASSUME b = "SB" PROVE HandleCmd(t, b) = Turn([c EXCEPT !.at = "sub", !.exec = FALSE], <<>>)
  <2>1. PICK u : u = Becomes(t, "sub")
    OBVIOUS
  <2>2. HandleCmd(t, b) = [u EXCEPT !.c.exec = FALSE]
    BY <1>8, <2>1 DEF HandleCmd, Verbs, Known
  <2>3. PICK d : d = [c EXCEPT !.at = "sub"]
    OBVIOUS
  <2>4. d \in CtlRec /\ [d EXCEPT !.exec = FALSE] = [c EXCEPT !.at = "sub", !.exec = FALSE]
    BY <2>3 DEF CtlRec
  <2>5. u = Turn(d, <<>>)
    BY <1>4, <2>1, <2>3
  <2>6. [u EXCEPT !.c.exec = FALSE] = Turn([d EXCEPT !.exec = FALSE], <<>>)
    <3>1. ASSUME NEW v, NEW out, u = Turn(d, out)
          PROVE  [u EXCEPT !.c.exec = v] = Turn([d EXCEPT !.exec = v], out)
      BY <3>1 DEF Turn
    <3> QED BY <2>5, <3>1
  <2> QED BY <2>2, <2>4, <2>6
<1> QED BY <1>1, <1>3, <1>4, <1>5, <1>6, <1>7, <1>8, FlushIs

LEMMA ParseSub ==
  ASSUME NEW c \in CtlRec, NEW b
  PROVE  /\ c.at = "sub" /\ b = "TTYPE" => Parse(Turn(c, <<>>), b) = Turn([c EXCEPT !.at = "type"], <<>>)
         /\ c.at = "sub" /\ b = "IAC" => Parse(Turn(c, <<>>), b) = Turn([c EXCEPT !.at = "subcmd"], <<>>)
         /\ c.at = "type" => \E e \in BOOLEAN : Parse(Turn(c, <<>>), b) = Turn([c EXCEPT !.at = "sub", !.exec = e], <<>>)
         /\ c.at = "subcmd" /\ b = "SE" =>
              \E out \in {<<>>, SubNego("TTYPE", <<"IS", "XTERM">>)} :
                Parse(Turn(c, <<>>), b) = Turn([c EXCEPT !.at = "text"], out)
<1>1. PICK t : t = Turn(c, <<>>)
  OBVIOUS
<1>2. t.c = c
  BY <1>1, TurnIs
<1>3. \A p : Becomes(t, p) = Turn([c EXCEPT !.at = p], <<>>)
  BY <1>1, TurnIs
<1>4. ASSUME c.at = "sub"
      PROVE  Parse(t, b) = HandleSubNego(t, b)
  BY <1>2, <1>4 DEF Parse
<1>5. /\ b = "TTYPE" => HandleSubNego(t, b) = Becomes(t, "type")
      /\ b = "IAC" => HandleSubNego(t, b) = Becomes(t, "subcmd")
  BY DEF HandleSubNego
<1>6. ASSUME c.at = "type"
      PROVE  \E e \in BOOLEAN : Parse(t, b) = Turn([c EXCEPT !.at = "sub", !.exec = e], <<>>)
  <2>1. PICK u : u = Becomes(t, "sub")
    OBVIOUS
  <2>2. PICK e \in BOOLEAN : e = (b = "SEND")
    OBVIOUS
  <2>3. Parse(t, b) = [u EXCEPT !.c.exec = e]
    BY <1>2, <1>6, <2>1, <2>2 DEF Parse, HandleTermType
  <2>4. PICK d : d = [c EXCEPT !.at = "sub"]
    OBVIOUS
  <2>5. d \in CtlRec /\ [d EXCEPT !.exec = e] = [c EXCEPT !.at = "sub", !.exec = e]
    BY <2>4 DEF CtlRec
  <2>6. u = Turn(d, <<>>)
    BY <1>3, <2>1, <2>4
  <2>7. [u EXCEPT !.c.exec = e] = Turn([d EXCEPT !.exec = e], <<>>)
    <3>1. ASSUME NEW v, NEW out, u = Turn(d, out)
          PROVE  [u EXCEPT !.c.exec = v] = Turn([d EXCEPT !.exec = v], out)
      BY <3>1 DEF Turn
    <3> QED BY <2>6, <3>1
  <2> QED BY <2>3, <2>5, <2>7
<1>7. ASSUME c.at = "subcmd", b = "SE"
      PROVE  \E out \in {<<>>, SubNego("TTYPE", <<"IS", "XTERM">>)} :
               Parse(t, b) = Turn([c EXCEPT !.at = "text"], out)
  <2>1. Parse(t, b) = EndSubNego(t, b)
    BY <1>2, <1>7 DEF Parse
  <2>2. PICK d : d = [c EXCEPT !.at = "text"]
    OBVIOUS
  <2>3. d \in CtlRec /\ Becomes(t, "text") = Turn(d, <<>>)
    BY <1>3, <2>2 DEF CtlRec
  <2>4. PICK m : m = SubNego("TTYPE", <<"IS", "XTERM">>)
    OBVIOUS
  <2>5. m \in Seq(Bytes)
    BY <2>4, TypeTalks DEF UpTalk
  <2>6. <<>> \o m = m
    BY <2>5, ConcatEmptySeq
  <2>7. Sent(Turn(d, <<>>), m) = Turn(d, m)
    <3>1. Sent(Turn(d, <<>>), m) = Turn(d, <<>> \o m)
      BY <2>3, TurnIs
    <3> QED BY <2>6, <3>1, Zenon
  <2>8. EndSubNego(t, b) \in {Turn(d, <<>>), Turn(d, m)}
    BY <1>7, <2>3, <2>4, <2>7 DEF EndSubNego
  <2> QED BY <2>1, <2>2, <2>4, <2>8
<1> QED BY <1>1, <1>3, <1>4, <1>5, <1>6, <1>7

\* Commands with an option: what a state of the Control answers.
LEMMA SentOne ==
  ASSUME NEW c \in CtlRec, NEW v \in Verbs, NEW o \in Options
  PROVE  Sent(Turn(c, <<>>), Nego(v, o)) = Turn(c, Nego(v, o))
<1>1. PICK m : m = Nego(v, o)
  OBVIOUS
<1>2. PICK none : none = <<>>
  OBVIOUS
<1>3. none \o m = m
  <2>1. m \in Seq(Bytes)
    BY <1>1, NegoTalks DEF UpTalk
  <2> QED BY <1>2, <2>1, ConcatEmptySeq
<1>4. \A n : Sent(Turn(c, none), n) = Turn(c, none \o n)
  BY TurnIs
<1> QED BY <1>1, <1>2, <1>3, <1>4, Zenon

LEMMA DenyIs ==
  ASSUME NEW c \in CtlRec, NEW cmd \in Verbs, NEW o \in Options
  PROVE  \E out : Deny(Turn(c, <<>>), cmd, o) = Turn(c, out) /\ UpTalk(out) /\ (o # "ECHO" => Silent(out))
<1>1. PICK t : t = Turn(c, <<>>)
  OBVIOUS
<1>2. /\ cmd = "DO" => Deny(t, cmd, o) = Sent(t, Nego("WONT", o))
      /\ cmd \in {"WILL", "WONT"} => Deny(t, cmd, o) = Sent(t, Nego("DONT", o))
      /\ cmd = "DONT" => Deny(t, cmd, o) = t
  BY DEF Deny
<1>3. "WONT" \in Verbs /\ "DONT" \in Verbs /\ cmd \in {"DO", "WILL", "WONT", "DONT"}
  BY DEF Verbs
<1>4. CASE cmd = "DO"
  BY <1>1, <1>2, <1>3, <1>4, SentOne, NegoTalks
<1>5. CASE cmd \in {"WILL", "WONT"}
  BY <1>1, <1>2, <1>3, <1>5, SentOne, NegoTalks
<1>6. CASE cmd = "DONT"
  BY <1>1, <1>2, <1>6, UpSilence, Zenon
<1> QED BY <1>3, <1>4, <1>5, <1>6

LEMMA AnswersAre ==
  ASSUME NEW old \in BOOLEAN
  PROVE  /\ DOMAIN Answers(old) = IF old THEN {"WONT", "DONT"} ELSE {"WILL", "DO"}
         /\ old => Answers(old)["WONT"] = "DONT" /\ Answers(old)["DONT"] = "WONT"
         /\ ~old => Answers(old)["WILL"] = "DO" /\ Answers(old)["DO"] = "WILL"
<1>1. CASE old
  BY <1>1 DEF Answers
<1>2. CASE ~old
  BY <1>2 DEF Answers
<1> QED BY <1>1, <1>2

LEMMA AcknowledgedIs ==
  ASSUME NEW c \in CtlRec, NEW cmd \in Verbs, NEW o \in Options, NEW old \in BOOLEAN
  PROVE  \E out : /\ Acknowledged(Turn(c, <<>>), cmd, o, old) = Turn(c, out) /\ UpTalk(out)
                  /\ o # "ECHO" => Silent(out)
                  /\ cmd = "WILL" /\ ~old => out = Nego("DO", o)
                  /\ cmd = "WONT" /\ old => out = Nego("DONT", o)
<1>1. PICK t : t = Turn(c, <<>>)
  OBVIOUS
<1>2. CASE cmd \in DOMAIN Answers(old)
  <2>1. PICK v : v = Answers(old)[cmd]
    OBVIOUS
  <2>2. v \in Verbs
    BY <1>2, <2>1, AnswersAre DEF Verbs
  <2>3. Acknowledged(t, cmd, o, old) = Sent(t, Nego(v, o))
    BY <1>2, <2>1 DEF Acknowledged
  <2>4. (cmd = "WILL" /\ ~old => v = "DO") /\ (cmd = "WONT" /\ old => v = "DONT")
    BY <2>1, AnswersAre
  <2>5. Sent(t, Nego(v, o)) = Turn(c, Nego(v, o)) /\ UpTalk(Nego(v, o)) /\ (o # "ECHO" => Silent(Nego(v, o)))
    BY <1>1, <2>2, SentOne, NegoTalks
  <2> QED BY <1>1, <2>3, <2>4, <2>5
<1>3. CASE cmd \notin DOMAIN Answers(old)
  <2>1. Acknowledged(t, cmd, o, old) = t
    BY <1>3 DEF Acknowledged
  <2>2. ~(cmd = "WILL" /\ ~old) /\ ~(cmd = "WONT" /\ old)
    BY <1>3, AnswersAre
  <2> QED BY <1>1, <2>1, <2>2, UpSilence, Zenon
<1> QED BY <1>2, <1>3

\* What a command with an option leaves alone.
Kept(c, d) == d \in CtlRec /\ d.at = c.at /\ d.shown = c.shown /\ d.dim = c.dim /\ d.closed = c.closed
EchoKept(c, d) == d.echoEnabled = c.echoEnabled /\ d.localEcho = c.localEcho

LEMMA NawsIs ==
  ASSUME Fits, NEW c \in CtlRec, NEW cmd \in Verbs
  PROVE  \E d, out : /\ HandleNaws(Turn(c, <<>>), cmd) = Turn(d, out) /\ Kept(c, d) /\ EchoKept(c, d)
                     /\ UpTalk(out) /\ Silent(out)
<1>1. PICK t : t = Turn(c, <<>>)
  OBVIOUS
<1>2. PICK none : none = <<>>
  OBVIOUS
<1>3. t = Turn(c, none) /\ t.c = c
  BY <1>1, <1>2, TurnIs
<1>4. Kept(c, c) /\ EchoKept(c, c)
  BY DEF Kept, EchoKept
<1>5. "NAWS" \in Options /\ "NAWS" # "ECHO" /\ "WILL" \in Verbs
  BY DEF Options, Verbs
<1>6. CASE cmd # "DO"
  <2>1. HandleNaws(t, cmd) = Deny(t, cmd, "NAWS")
    BY <1>6 DEF HandleNaws
  <2>2. PICK out : Deny(t, cmd, "NAWS") = Turn(c, out) /\ UpTalk(out) /\ Silent(out)
    BY <1>1, <1>5, DenyIs
  <2> QED BY <1>1, <1>4, <2>1, <2>2
<1>7. CASE cmd = "DO"
  <2>1. PICK size : size = SubNego("NAWS", SizeBytes(c.dim))
    OBVIOUS
  <2>2. UpTalk(size) /\ Silent(size)
    <3>1. c.dim \in Sizes \cup {"unset"}
      BY DEF CtlRec
    <3> QED BY <2>1, <3>1, SizeTalks
  <2>3. HandleNaws(t, cmd) = IF c.nawsAccepted THEN Sent(t, size)
                             ELSE [Sent(t, Nego("WILL", "NAWS") \o size) EXCEPT !.c.nawsAccepted = TRUE]
    BY <1>3, <1>7, <2>1 DEF HandleNaws
  <2>4. \A m \in Seq(Bytes) : Sent(t, m) = Turn(c, m)
    <3> TAKE m \in Seq(Bytes)
    <3>1. none \o m = m
      BY <1>2, ConcatEmptySeq
    <3>2. Sent(t, m) = Turn(c, none \o m)
      BY <1>3, TurnIs
    <3> QED BY <3>1, <3>2
  <2>5. CASE c.nawsAccepted
    <3>1. HandleNaws(t, cmd) = Turn(c, size)
      BY <2>2, <2>3, <2>4, <2>5 DEF UpTalk
    <3> QED BY <1>1, <1>4, <2>2, <3>1
  <2>6. CASE ~c.nawsAccepted
    <3>1. PICK m : m = Nego("WILL", "NAWS")
      OBVIOUS
    <3>2. UpTalk(m) /\ Silent(m)
      BY <1>5, <3>1, NegoTalks
    <3>3. PICK all : all = m \o size
      OBVIOUS
    <3>4. UpTalk(all) /\ Silent(all)
      <4>1. UpTalk(all)
        BY <2>2, <3>2, <3>3, TalkConcat
      <4>2. m \in Seq(Bytes) /\ size \in Seq(Bytes)
        BY <2>2, <3>2 DEF UpTalk
      <4>3. Silent(all)
        BY <2>2, <3>2, <3>3, <4>2, SilentConcat
      <4> QED BY <4>1, <4>3
    <3>5. PICK u : u = Sent(t, all)
      OBVIOUS
    <3>6. u = Turn(c, all)
      BY <2>4, <3>4, <3>5 DEF UpTalk
    <3>7. HandleNaws(t, cmd) = [u EXCEPT !.c.nawsAccepted = TRUE]
      BY <2>3, <2>6, <3>1, <3>3, <3>5, Zenon
    <3>8. PICK d : d = [c EXCEPT !.nawsAccepted = TRUE]
      OBVIOUS
    <3>9. [u EXCEPT !.c.nawsAccepted = TRUE] = Turn(d, all)
      <4>1. ASSUME NEW v PROVE [u EXCEPT !.c.nawsAccepted = v] = Turn([c EXCEPT !.nawsAccepted = v], all)
        BY <3>6 DEF Turn
      <4> QED BY <3>8, <4>1
    <3>10. Kept(c, d) /\ EchoKept(c, d)
      BY <3>8 DEF Kept, EchoKept, CtlRec
    <3> QED BY <1>1, <3>4, <3>7, <3>9, <3>10
  <2> QED BY <2>5, <2>6 DEF CtlRec
<1> QED BY <1>6, <1>7

LEMMA OptionIs ==
  ASSUME Fits, NEW c \in CtlRec, c.cmd \in Verbs, NEW o \in Options
  PROVE  \E d, out : /\ HandleOption(Turn(c, <<>>), o) = Turn(d, out) /\ Kept(c, d) /\ UpTalk(out)
                     /\ o # "ECHO" => EchoKept(c, d) /\ Silent(out)
                     /\ o = "ECHO" /\ c.cmd = "WILL" /\ ~c.echoEnabled =>
                          d.echoEnabled /\ ~d.localEcho /\ out = Nego("DO", "ECHO")
                     /\ o = "ECHO" /\ c.cmd = "WONT" /\ c.echoEnabled =>
                          ~d.echoEnabled /\ d.localEcho /\ out = Nego("DONT", "ECHO")
<1>1. PICK t : t = Turn(c, <<>>)
  OBVIOUS
<1>2. t.c = c
  BY <1>1, TurnIs
<1>3. PICK cmd \in Verbs : cmd = c.cmd
  OBVIOUS
<1>4. PICK on \in BOOLEAN : on = (cmd \in {"WILL", "DO"})
  <2>1. (cmd \in {"WILL", "DO"}) \in BOOLEAN
    OBVIOUS
  <2> QED BY <2>1, Zenon
<1>5. c.echoEnabled \in BOOLEAN /\ c.suppressGoAhead \in BOOLEAN
  BY DEF CtlRec
<1>6. Kept(c, c) /\ EchoKept(c, c)
  BY DEF Kept, EchoKept
<1>7. CASE o = "ECHO"
  <2>1. PICK out : /\ Acknowledged(t, cmd, "ECHO", c.echoEnabled) = Turn(c, out) /\ UpTalk(out)
                   /\ cmd = "WILL" /\ ~c.echoEnabled => out = Nego("DO", "ECHO")
                   /\ cmd = "WONT" /\ c.echoEnabled => out = Nego("DONT", "ECHO")
    BY <1>1, <1>5, <1>7, AcknowledgedIs
  <2>2. PICK u : u = Acknowledged(t, cmd, "ECHO", c.echoEnabled)
    OBVIOUS
  <2>3. PICK l \in BOOLEAN : l = LocalEcho(cmd)
    <3>1. LocalEcho(cmd) \in BOOLEAN
      BY DEF LocalEcho
    <3> QED BY <3>1, Zenon
  <2>4. HandleOption(t, o) = [u EXCEPT !.c.echoEnabled = on, !.c.localEcho = l]
    BY <1>2, <1>3, <1>4, <1>7, <2>2, <2>3 DEF HandleOption
  <2>5. PICK d : d = [c EXCEPT !.echoEnabled = on, !.localEcho = l]
    OBVIOUS
  <2>6. [u EXCEPT !.c.echoEnabled = on, !.c.localEcho = l] = Turn(d, out)
    <3>1. u = Turn(c, out)
      BY <2>1, <2>2
    <3>2. ASSUME NEW v, NEW w
          PROVE  [u EXCEPT !.c.echoEnabled = v, !.c.localEcho = w] = Turn([c EXCEPT !.echoEnabled = v, !.localEcho = w], out)
      <4>1. PICK c1 : c1 = [c EXCEPT !.echoEnabled = v]
        OBVIOUS
      <4>2. PICK u1 : u1 = [u EXCEPT !.c.echoEnabled = v]
        OBVIOUS
      <4>3. u1 = Turn(c1, out)
        <5>1. ASSUME NEW a PROVE [u EXCEPT !.c.echoEnabled = a] = Turn([c EXCEPT !.echoEnabled = a], out)
          BY <3>1 DEF Turn
        <5> QED BY <4>1, <4>2, <5>1
      <4>4. ASSUME NEW a PROVE [u1 EXCEPT !.c.localEcho = a] = Turn([c1 EXCEPT !.localEcho = a], out)
        BY <4>3 DEF Turn
      <4>5. [u EXCEPT !.c.echoEnabled = v, !.c.localEcho = w] = [u1 EXCEPT !.c.localEcho = w]
        BY <4>2
      <4>6. [c EXCEPT !.echoEnabled = v, !.localEcho = w] = [c1 EXCEPT !.localEcho = w]
        BY <4>1
      <4> QED BY <4>4, <4>5, <4>6
    <3> QED BY <2>5, <3>2
  <2>7. Kept(c, d) /\ d.echoEnabled = on /\ d.localEcho = l
    BY <2>5 DEF Kept, CtlRec
  <2>8. (cmd = "WILL" => on /\ ~l) /\ (cmd = "WONT" => ~on /\ l)
    BY <1>4, <2>3 DEF LocalEcho
  <2> QED BY <1>1, <1>3, <1>7, <2>1, <2>4, <2>6, <2>7, <2>8
<1>8. CASE o = "SGA"
  <2>1. PICK out : Acknowledged(t, cmd, "SGA", c.suppressGoAhead) = Turn(c, out) /\ UpTalk(out) /\ Silent(out)
    BY <1>1, <1>5, <1>8, AcknowledgedIs
  <2>2. PICK u : u = Acknowledged(t, cmd, "SGA", c.suppressGoAhead)
    OBVIOUS
  <2>3. HandleOption(t, o) = [u EXCEPT !.c.suppressGoAhead = on]
    BY <1>2, <1>3, <1>4, <1>8, <2>2 DEF HandleOption
  <2>4. PICK d : d = [c EXCEPT !.suppressGoAhead = on]
    OBVIOUS
  <2>5. [u EXCEPT !.c.suppressGoAhead = on] = Turn(d, out)
    <3>1. u = Turn(c, out)
      BY <2>1, <2>2
    <3> QED BY <2>4, <3>1 DEF Turn
  <2>6. Kept(c, d) /\ EchoKept(c, d)
    BY <2>4 DEF Kept, EchoKept, CtlRec
  <2> QED BY <1>1, <1>8, <2>1, <2>3, <2>5, <2>6
<1>9. CASE o = "NAWS"
  <2>1. HandleOption(t, o) = HandleNaws(t, cmd)
    BY <1>2, <1>3, <1>9 DEF HandleOption
  <2>2. PICK d, out : /\ HandleNaws(t, cmd) = Turn(d, out) /\ Kept(c, d) /\ EchoKept(c, d)
                      /\ UpTalk(out) /\ Silent(out)
    BY <1>1, NawsIs
  <2> QED BY <1>1, <1>9, <2>1, <2>2
<1>10. CASE o \in {"TTYPE", "OTHER"}
  <2>1. HandleOption(t, o) = IF o = "TTYPE" /\ cmd = "DO" THEN Sent(t, Nego("WILL", o)) ELSE Deny(t, cmd, o)
    BY <1>2, <1>3, <1>10 DEF HandleOption
  <2>2. o # "ECHO" /\ "WILL" \in Verbs
    BY <1>10 DEF Verbs
  <2>3. PICK out : Deny(t, cmd, o) = Turn(c, out) /\ UpTalk(out) /\ Silent(out)
    BY <1>1, <2>2, DenyIs
  <2>4. Sent(t, Nego("WILL", o)) = Turn(c, Nego("WILL", o)) /\ UpTalk(Nego("WILL", o)) /\ Silent(Nego("WILL", o))
    BY <1>1, <2>2, SentOne, NegoTalks
  <2> QED BY <1>1, <1>6, <2>1, <2>2, <2>3, <2>4
<1> QED BY <1>7, <1>8, <1>9, <1>10 DEF Options

\* What the browser does with a byte that leads its reader to label z.
ReadsTo(c, b, z, d, out) ==
  /\ d \in CtlRec /\ d.at # "dead" /\ d.closed = c.closed /\ (d.at = "opt" => d.cmd \in Verbs)
  /\ z = At(Stands(d), Len(d.shown))
  /\ d.shown = c.shown \/ (d.shown = c.shown \o <<b>> /\ b = Says[Len(c.shown) + 1])
  /\ UpTalk(out)
  /\ b # "ECHO" => EchoKept(c, d) /\ Silent(out)
  /\ b = "ECHO" => Stands(c) \in Verbs
  /\ b = "ECHO" /\ Stands(c) = "WILL" /\ ~c.echoEnabled =>
       d.echoEnabled /\ ~d.localEcho /\ out = Nego("DO", "ECHO")
  /\ b = "ECHO" /\ Stands(c) = "WONT" /\ c.echoEnabled =>
       ~d.echoEnabled /\ d.localEcho /\ out = Nego("DONT", "ECHO")

LEMMA OptionStep ==
  ASSUME Fits, NEW c \in CtlRec, c.at = "opt", c.cmd \in Verbs, NEW b \in Options
  PROVE  \E d, out : /\ Parse(Turn(c, <<>>), b) = Turn(d, out)
                     /\ ReadsTo(c, b, At("text", Len(c.shown)), d, out)
<1>1. PICK t : t = Turn(c, <<>>)
  OBVIOUS
<1>2. PICK e : e = [c EXCEPT !.at = "text"]
  OBVIOUS
<1>3. /\ e \in CtlRec /\ e.cmd = c.cmd /\ e.echoEnabled = c.echoEnabled /\ e.localEcho = c.localEcho
      /\ e.at = "text" /\ e.shown = c.shown /\ e.closed = c.closed
  BY <1>2 DEF CtlRec
<1>4. Parse(t, b) = HandleOption(Turn(e, <<>>), b)
  <2>1. t.c.at = "opt"
    BY <1>1, TurnIs
  <2>2. Parse(t, b) = HandleOption(Becomes(t, "text"), b)
    BY <2>1 DEF Parse
  <2>3. Becomes(t, "text") = Turn(e, <<>>)
    BY <1>1, <1>2, TurnIs
  <2> QED BY <2>2, <2>3
<1>5. PICK d, out :
        /\ HandleOption(Turn(e, <<>>), b) = Turn(d, out) /\ Kept(e, d) /\ UpTalk(out)
        /\ b # "ECHO" => EchoKept(e, d) /\ Silent(out)
        /\ b = "ECHO" /\ e.cmd = "WILL" /\ ~e.echoEnabled =>
             d.echoEnabled /\ ~d.localEcho /\ out = Nego("DO", "ECHO")
        /\ b = "ECHO" /\ e.cmd = "WONT" /\ e.echoEnabled =>
             ~d.echoEnabled /\ d.localEcho /\ out = Nego("DONT", "ECHO")
  BY <1>3, OptionIs
<1>6. d \in CtlRec /\ d.at = "text" /\ d.shown = c.shown /\ d.closed = c.closed
  BY <1>3, <1>5 DEF Kept
<1>7. Stands(c) = c.cmd /\ Stands(d) = "text"
  BY <1>6 DEF Stands
<1>8. ReadsTo(c, b, At("text", Len(c.shown)), d, out)
  BY <1>3, <1>5, <1>6, <1>7 DEF ReadsTo, EchoKept
<1> QED BY <1>1, <1>4, <1>5, <1>8

\* A step that writes nothing and leaves the echo alone.
LEMMA QuietStep ==
  ASSUME NEW c \in CtlRec, NEW b \in Bytes, b # "ECHO", NEW d \in CtlRec, NEW out, UpTalk(out), Silent(out),
         d.at # "dead", d.closed = c.closed, d.at = "opt" => d.cmd \in Verbs, EchoKept(c, d),
         d.shown = c.shown \/ (d.shown = c.shown \o <<b>> /\ b = Says[Len(c.shown) + 1])
  PROVE  ReadsTo(c, b, At(Stands(d), Len(d.shown)), d, out)
BY DEF ReadsTo

LEMMA TextStep ==
  ASSUME NEW c \in CtlRec, NEW n \in 0 .. 3, n = Len(c.shown), c.at \in {"text", "cmd"}, NEW b \in Bytes,
         (b = "IAC") <=> (c.at = "cmd"), NEW z \in Label, Text(Says, At(c.at, n), b, z)
  PROVE  \E d, out : Parse(Turn(c, <<>>), b) = Turn(d, out) /\ ReadsTo(c, b, z, d, out)
<1>1. b = Says[n + 1] /\ z = At("text", n + 1)
  BY DEF Text, At
<1>2. n + 1 \in 1 .. 3
  <2>1. z.n = n + 1
    BY <1>1, Labels, PlaceNames
  <2> QED BY <2>1 DEF Label
<1>3. b # "ECHO"
  BY <1>1, <1>2, Texts
<1>4. PICK d : d = [c EXCEPT !.at = "text", !.shown = c.shown \o <<b>>]
  OBVIOUS
<1>5. c.shown \in Seq(Bytes) /\ c.shown \o <<b>> \in Seq(Bytes) /\ Len(c.shown \o <<b>>) = n + 1
  <2>1. c.shown \in Seq(Bytes)
    BY DEF CtlRec
  <2>2. <<b>> \in Seq(Bytes) /\ Len(<<b>>) = 1
    OBVIOUS
  <2> QED BY <2>1, <2>2, ConcatProperties
<1>6. d \in CtlRec /\ d.at = "text" /\ d.shown = c.shown \o <<b>> /\ d.closed = c.closed /\ EchoKept(c, d)
  BY <1>4, <1>5 DEF CtlRec, EchoKept
<1>7. Parse(Turn(c, <<>>), b) = Turn(d, <<>>)
  <2>1. CASE c.at = "text"
    BY <1>4, <2>1, ParseText
  <2>2. CASE c.at = "cmd"
    <3>1. b = "IAC"
      BY <2>2
    <3> QED BY <1>4, <2>2, <3>1, ParseCmd
  <2> QED BY <2>1, <2>2
<1>8. z = At(Stands(d), Len(d.shown))
  BY <1>1, <1>5, <1>6 DEF Stands
<1>9. ReadsTo(c, b, At(Stands(d), Len(d.shown)), d, <<>>)
  BY <1>1, <1>3, <1>6, QuietStep, UpSilence
<1> QED BY <1>7, <1>8, <1>9

\* A step that only moves the reader.
LEMMA MoveStep ==
  ASSUME NEW c \in CtlRec, NEW b \in Bytes, b # "ECHO", NEW d \in CtlRec, NEW out, UpTalk(out), Silent(out),
         d.at # "dead", d.closed = c.closed, d.at = "opt" => d.cmd \in Verbs, EchoKept(c, d), d.shown = c.shown,
         Parse(Turn(c, <<>>), b) = Turn(d, out), NEW z, z = At(Stands(d), Len(c.shown))
  PROVE  \E f, o : Parse(Turn(c, <<>>), b) = Turn(f, o) /\ ReadsTo(c, b, z, f, o)
<1>1. ReadsTo(c, b, z, d, out)
  BY QuietStep
<1> QED BY <1>1

LEMMA CmdStep ==
  ASSUME NEW c \in CtlRec, c.at = "cmd", NEW b \in Bytes, NEW z,
         \/ b \in Verbs /\ z = At(b, Len(c.shown))
         \/ b = "SB" /\ z = At("sub", Len(c.shown))
         \/ b = "GA" /\ z = At("text", Len(c.shown))
  PROVE  \E d, out : Parse(Turn(c, <<>>), b) = Turn(d, out) /\ ReadsTo(c, b, z, d, out)
<1>1. CASE b \in Verbs /\ z = At(b, Len(c.shown))
  <2>1. PICK d : d = [c EXCEPT !.at = "opt", !.cmd = b]
    OBVIOUS
  <2>2. d \in CtlRec /\ d.at = "opt" /\ d.cmd = b /\ d.shown = c.shown /\ d.closed = c.closed /\ EchoKept(c, d)
    BY <1>1, <2>1 DEF CtlRec, EchoKept
  <2>3. Parse(Turn(c, <<>>), b) = Turn(d, <<>>)
    BY <1>1, <2>1, ParseCmd
  <2>4. b # "ECHO" /\ Stands(d) = b
    BY <1>1, <2>2 DEF Verbs, Stands
  <2> QED BY <1>1, <2>2, <2>3, <2>4, MoveStep, UpSilence
<1>2. CASE b = "SB" /\ z = At("sub", Len(c.shown))
  <2>1. PICK d : d = [c EXCEPT !.at = "sub", !.exec = FALSE]
    OBVIOUS
  <2>2. d \in CtlRec /\ d.at = "sub" /\ d.shown = c.shown /\ d.closed = c.closed /\ EchoKept(c, d)
    BY <2>1 DEF CtlRec, EchoKept
  <2>3. Parse(Turn(c, <<>>), b) = Turn(d, <<>>)
    BY <1>2, <2>1, ParseCmd
  <2>4. b # "ECHO" /\ Stands(d) = "sub"
    BY <1>2, <2>2 DEF Stands
  <2> QED BY <1>2, <2>2, <2>3, <2>4, MoveStep, UpSilence
<1>3. CASE b = "GA" /\ z = At("text", Len(c.shown))
  <2>1. PICK d : d = [c EXCEPT !.at = "text"]
    OBVIOUS
  <2>2. d \in CtlRec /\ d.at = "text" /\ d.shown = c.shown /\ d.closed = c.closed /\ EchoKept(c, d)
    BY <2>1 DEF CtlRec, EchoKept
  <2>3. Parse(Turn(c, <<>>), b) = Turn(d, <<>>)
    BY <1>3, <2>1, ParseCmd
  <2>4. b # "ECHO" /\ Stands(d) = "text"
    BY <1>3, <2>2 DEF Stands
  <2> QED BY <1>3, <2>2, <2>3, <2>4, MoveStep, UpSilence
<1> QED BY <1>1, <1>2, <1>3

\* Introduced by 255, in the text or in a subnegotiation.
LEMMA IntroducedStep ==
  ASSUME NEW c \in CtlRec, NEW z, NEW p,
         (c.at = "text" /\ p = "cmd") \/ (c.at = "sub" /\ p = "subcmd"), z = At(p, Len(c.shown))
  PROVE  \E d, out : Parse(Turn(c, <<>>), "IAC") = Turn(d, out) /\ ReadsTo(c, "IAC", z, d, out)
<1>1. PICK d : d = [c EXCEPT !.at = p]
  OBVIOUS
<1>2. p \in {"cmd", "subcmd"}
  OBVIOUS
<1>3. d \in CtlRec /\ d.at = p /\ d.shown = c.shown /\ d.closed = c.closed /\ EchoKept(c, d)
  BY <1>1, <1>2 DEF CtlRec, EchoKept
<1>4. PICK b \in Bytes : b = "IAC"
  BY ByteNames
<1>5. Parse(Turn(c, <<>>), b) = Turn(d, <<>>)
  <2>1. CASE c.at = "text" /\ p = "cmd"
    BY <1>1, <1>4, <2>1, ParseText
  <2>2. CASE c.at = "sub" /\ p = "subcmd"
    BY <1>1, <1>4, <2>2, ParseSub
  <2> QED BY <2>1, <2>2
<1>6. Stands(d) = p
  BY <1>2, <1>3 DEF Stands
<1>7. b # "ECHO" /\ d.at # "dead" /\ d.at # "opt"
  BY <1>2, <1>3, <1>4
<1>8. \E f, o : Parse(Turn(c, <<>>), b) = Turn(f, o) /\ ReadsTo(c, b, z, f, o)
  BY <1>3, <1>5, <1>6, <1>7, MoveStep, UpSilence
<1> QED BY <1>4, <1>8

LEMMA SubStep ==
  ASSUME NEW c \in CtlRec, NEW b \in Bytes, NEW z,
         \/ c.at = "sub" /\ b = "TTYPE" /\ z = At("type", Len(c.shown))
         \/ c.at = "type" /\ b = "SEND" /\ z = At("sub", Len(c.shown))
         \/ c.at = "subcmd" /\ b = "SE" /\ z = At("text", Len(c.shown))
  PROVE  \E d, out : Parse(Turn(c, <<>>), b) = Turn(d, out) /\ ReadsTo(c, b, z, d, out)
<1>1. CASE c.at = "sub" /\ b = "TTYPE" /\ z = At("type", Len(c.shown))
  <2>1. PICK d : d = [c EXCEPT !.at = "type"]
    OBVIOUS
  <2>2. d \in CtlRec /\ d.at = "type" /\ d.shown = c.shown /\ d.closed = c.closed /\ EchoKept(c, d)
    BY <2>1 DEF CtlRec, EchoKept
  <2>3. Parse(Turn(c, <<>>), b) = Turn(d, <<>>)
    BY <1>1, <2>1, ParseSub
  <2>4. b # "ECHO" /\ Stands(d) = "type"
    BY <1>1, <2>2 DEF Stands
  <2> QED BY <1>1, <2>2, <2>3, <2>4, MoveStep, UpSilence
<1>2. CASE c.at = "type" /\ b = "SEND" /\ z = At("sub", Len(c.shown))
  <2>1. PICK e \in BOOLEAN : Parse(Turn(c, <<>>), b) = Turn([c EXCEPT !.at = "sub", !.exec = e], <<>>)
    BY <1>2, ParseSub
  <2>2. PICK d : d = [c EXCEPT !.at = "sub", !.exec = e]
    OBVIOUS
  <2>3. d \in CtlRec /\ d.at = "sub" /\ d.shown = c.shown /\ d.closed = c.closed /\ EchoKept(c, d)
    BY <2>2 DEF CtlRec, EchoKept
  <2>4. Parse(Turn(c, <<>>), b) = Turn(d, <<>>)
    BY <2>1, <2>2
  <2>5. b # "ECHO" /\ Stands(d) = "sub"
    BY <1>2, <2>3 DEF Stands
  <2> QED BY <1>2, <2>3, <2>4, <2>5, MoveStep, UpSilence
<1>3. CASE c.at = "subcmd" /\ b = "SE" /\ z = At("text", Len(c.shown))
  <2>1. PICK d : d = [c EXCEPT !.at = "text"]
    OBVIOUS
  <2>2. d \in CtlRec /\ d.at = "text" /\ d.shown = c.shown /\ d.closed = c.closed /\ EchoKept(c, d)
    BY <2>1 DEF CtlRec, EchoKept
  <2>3. PICK out \in {<<>>, SubNego("TTYPE", <<"IS", "XTERM">>)} : Parse(Turn(c, <<>>), b) = Turn(d, out)
    BY <1>3, <2>1, ParseSub
  <2>4. UpTalk(out) /\ Silent(out)
    BY <2>3, UpSilence, TypeTalks, Zenon
  <2>5. b # "ECHO" /\ Stands(d) = "text"
    BY <1>3, <2>2 DEF Stands
  <2> QED BY <1>3, <2>2, <2>3, <2>4, <2>5, MoveStep
<1> QED BY <1>1, <1>2, <1>3

\* Every byte of a run that leads from where the parser stands.
LEMMA ParseStep ==
  ASSUME Fits, NEW c \in CtlRec, c.at # "dead", c.at = "opt" => c.cmd \in Verbs, NEW n \in 0 .. 3, n = Len(c.shown),
         NEW b \in Bytes, NEW z \in Label, DownMoves(At(Stands(c), n), b, z)
  PROVE  \E d, out : Parse(Turn(c, <<>>), b) = Turn(d, out) /\ ReadsTo(c, b, z, d, out)
<1> DEFINE x == At(Stands(c), n)
<1>1. x.at = Stands(c) /\ x.n = n
  BY DEF At
<1>2. Stands(c) = (IF c.at = "opt" THEN c.cmd ELSE c.at)
  BY DEF Stands
<1>3. x.at \in Verbs <=> c.at = "opt"
  <2>1. c.at # "opt" => c.at \in {"text", "cmd", "sub", "type", "subcmd"}
    BY DEF CtlRec
  <2> QED BY <1>1, <1>2, <2>1, PlaceNames
<1> HIDE DEF x
<1>4. DownMoves(x, b, z)
  BY DEF x
<1>5. CASE c.at = "text"
  <2>1. x.at = "text" /\ x.at \notin Verbs
    BY <1>1, <1>2, <1>3, <1>5
  <2>2. (b = "IAC" /\ z = At("cmd", n)) \/ (b # "IAC" /\ Text(Says, x, b, z))
    BY <1>1, <1>4, <2>1 DEF DownMoves, Moves
  <2>3. CASE b = "IAC" /\ z = At("cmd", n)
    BY <1>5, <2>3, IntroducedStep
  <2>4. CASE b # "IAC" /\ Text(Says, x, b, z)
    <3>1. x = At(c.at, n) /\ ((b = "IAC") <=> (c.at = "cmd"))
      BY <1>2, <1>5, <2>4 DEF x
    <3> QED BY <1>5, <2>4, <3>1, TextStep
  <2> QED BY <2>2, <2>3, <2>4
<1>6. CASE c.at = "cmd"
  <2>1. x.at = "cmd" /\ x.at \notin Verbs
    BY <1>1, <1>2, <1>3, <1>6
  <2>2. \/ b = "IAC" /\ Text(Says, x, b, z)
        \/ b \in Verbs /\ z = At(b, n)
        \/ b = "SB" /\ z = At("sub", n)
        \/ b = "GA" /\ z = At("text", n)
    BY <1>1, <1>4, <2>1 DEF DownMoves, Moves
  <2>3. CASE b = "IAC" /\ Text(Says, x, b, z)
    <3>1. x = At(c.at, n) /\ ((b = "IAC") <=> (c.at = "cmd"))
      BY <1>2, <1>6, <2>3 DEF x
    <3> QED BY <1>6, <2>3, <3>1, TextStep
  <2>4. CASE (b \in Verbs /\ z = At(b, n)) \/ (b = "SB" /\ z = At("sub", n)) \/ (b = "GA" /\ z = At("text", n))
    BY <1>6, <2>4, CmdStep
  <2> QED BY <2>2, <2>3, <2>4
<1>7. CASE c.at = "opt"
  <2>1. x.at \in Verbs /\ x.at \notin {"text", "cmd", "sub", "type", "subcmd"}
    BY <1>1, <1>3, <1>7, PlaceNames
  <2>2. b \in Options /\ z = At("text", n)
    BY <1>1, <1>4, <2>1 DEF DownMoves, Moves
  <2> QED BY <1>7, <2>2, OptionStep
<1>8. CASE c.at = "sub"
  <2>1. x.at = "sub" /\ x.at \notin Verbs
    BY <1>1, <1>2, <1>3, <1>8
  <2>2. (b = "IAC" /\ z = At("subcmd", n)) \/ (b = "TTYPE" /\ z = At("type", n))
    BY <1>1, <1>4, <2>1 DEF DownMoves, Moves
  <2>3. CASE b = "IAC" /\ z = At("subcmd", n)
    BY <1>8, <2>3, IntroducedStep
  <2>4. CASE b = "TTYPE" /\ z = At("type", n)
    BY <1>8, <2>4, SubStep
  <2> QED BY <2>2, <2>3, <2>4
<1>9. CASE c.at \in {"type", "subcmd"}
  <2>1. x.at = c.at /\ x.at \notin Verbs
    BY <1>1, <1>2, <1>3, <1>9
  <2>2. (c.at = "type" /\ b = "SEND" /\ z = At("sub", n)) \/ (c.at = "subcmd" /\ b = "SE" /\ z = At("text", n))
    BY <1>1, <1>4, <1>9, <2>1 DEF DownMoves, Moves
  <2> QED BY <2>2, SubStep
<1> QED BY <1>5, <1>6, <1>7, <1>8, <1>9 DEF CtlRec

----------------------------------------------------------------------------
(* The steps of the browser.                                                *)

LEMMA Prefix ==
  ASSUME NEW s \in Seq(Bytes), Len(s) = 3, NEW n \in 0 .. 2, NEW b, b = s[n + 1]
  PROVE  SubSeq(s, 1, n) \o <<b>> = SubSeq(s, 1, n + 1)
<1> DEFINE p == SubSeq(s, 1, n)
           q == SubSeq(s, 1, n + 1)
           r == p \o <<b>>
<1>1. n + 1 \in 1 .. 3 /\ b \in Bytes
  <2>1. n + 1 \in 1 .. Len(s)
    OBVIOUS
  <2> QED BY <2>1, ElementOfSeq
<1>2. p \in Seq(Bytes) /\ Len(p) = n /\ \A i \in 1 .. n : p[i] = s[i]
  BY <1>1, SubSeqProperties
<1>3. q \in Seq(Bytes) /\ Len(q) = n + 1 /\ \A i \in 1 .. n + 1 : q[i] = s[i]
  BY <1>1, SubSeqProperties
<1>4. r \in Seq(Bytes) /\ Len(r) = n + 1 /\ (\A i \in 1 .. n : r[i] = p[i]) /\ r[n + 1] = b
  <2>1. <<b>> \in Seq(Bytes) /\ Len(<<b>>) = 1 /\ <<b>>[1] = b
    BY <1>1
  <2> HIDE DEF p
  <2> QED BY <1>2, <2>1, ConcatProperties
<1> HIDE DEF p, q, r
<1>5. \A i \in 1 .. n + 1 : i \in 1 .. n \/ i = n + 1
  OBVIOUS
<1>6. ASSUME NEW i \in 1 .. n + 1 PROVE r[i] = q[i]
  BY <1>2, <1>3, <1>4, <1>5
<1>7. r = q
  BY <1>3, <1>4, <1>6, SeqEqual
<1> QED BY <1>7 DEF p, q, r

\* What reading the head of s makes of a command about echo in s or in u, the
\* bytes under way from the reader's side.
EchoStep(s, u, held, out, at, then, kept, verb) ==
  /\ Silent(s) => Silent(Tail(s)) /\ Silent(out) /\ kept
  /\ Silent(s) /\ Silent(u) => Silent(u \o out)
  /\ Silent(s) /\ Once(u, verb, held) => Once(u \o out, verb, held)
  /\ Once(s, verb, at) /\ Silent(u) =>
       \/ Head(s) # "ECHO" /\ Once(Tail(s), verb, then) /\ Silent(u \o out) /\ kept
       \/ Head(s) = "ECHO" /\ Silent(Tail(s)) /\ at = verb

LEMMA EchoRead ==
  ASSUME NEW c \in CtlRec, NEW s \in Seq(Bytes), s # <<>>, NEW u \in Seq(Bytes), NEW held,
         NEW z, NEW y, NEW d, NEW out, NEW X, NEW verb,
         <<At(Stands(c), Len(c.shown)), Head(s), z>> \in DownRel, Runs(DownRel, X, Tail(s), z, y),
         ReadsTo(c, Head(s), z, d, out)
  PROVE  EchoStep(s, u, held, out, Stands(c), Stands(d), EchoKept(c, d), verb)
<1>1. Tail(s) \in Seq(Bytes) /\ out \in Seq(Bytes)
  BY DEF ReadsTo, UpTalk
<1>2. At(Stands(c), Len(c.shown)).at = Stands(c) /\ z.at = Stands(d)
  BY DEF At, ReadsTo
<1>3. Head(s) # "ECHO" => Silent(out) /\ EchoKept(c, d)
  BY DEF ReadsTo
<1>4. Silent(s) => Head(s) # "ECHO" /\ Silent(Tail(s))
  BY SilentTail
<1>5. Silent(out) /\ Silent(u) => Silent(u \o out)
  BY <1>1, SilentConcat
<1>6. Silent(out) /\ Once(u, verb, held) => Once(u \o out, verb, held)
  BY <1>1, OnceThenSilent
<1>7. ASSUME Once(s, verb, Stands(c))
      PROVE  /\ Head(s) = "ECHO" => Stands(c) = verb /\ Silent(Tail(s))
             /\ Head(s) # "ECHO" => Once(Tail(s), verb, Stands(d))
  <2> DEFINE x == At(Stands(c), Len(c.shown))
  <2>1. x.at = Stands(c) /\ <<x, Head(s), z>> \in DownRel
    BY <1>2
  <2> HIDE DEF x
  <2>2. Once(s, verb, x.at)
    BY <1>7, <2>1
  <2>3. /\ Head(s) = "ECHO" => x.at = verb /\ Silent(Tail(s))
        /\ Head(s) # "ECHO" => Once(Tail(s), verb, z.at)
    BY <2>1, <2>2, DownEcho, OnceRead
  <2> QED BY <1>2, <2>1, <2>3
<1> QED BY <1>3, <1>4, <1>5, <1>6, <1>7 DEF EchoStep

LEMMA ReadSoFarStep ==
  ASSUME NEW c \in CtlRec, NEW b, NEW z, NEW d, NEW out, ReadsTo(c, b, z, d, out), NEW k \in 0 .. 3, z \in UpTo(k),
         c.shown = SubSeq(Says, 1, Len(c.shown)), Len(c.shown) <= k
  PROVE  d.shown = SubSeq(Says, 1, Len(d.shown)) /\ Len(d.shown) <= k
<1>1. d.shown \in Seq(Bytes) /\ c.shown \in Seq(Bytes)
  BY DEF ReadsTo, CtlRec
<1>2. Len(d.shown) \in 0 .. k
  <2>1. z = At(Stands(d), Len(d.shown)) /\ z.n \in 0 .. k
    BY Labels DEF ReadsTo
  <2> QED BY <2>1 DEF At
<1>3. CASE d.shown = c.shown
  BY <1>2, <1>3
<1>4. CASE d.shown = c.shown \o <<b>> /\ b = Says[Len(c.shown) + 1]
  <2>1. PICK n \in Nat : n = Len(c.shown)
    BY <1>1
  <2>2. Len(c.shown \o <<b>>) = n + 1
    <3>1. <<b>> \in Seq({b}) /\ Len(<<b>>) = 1
      OBVIOUS
    <3>2. d.shown \in Seq(Bytes) /\ Len(c.shown \o <<b>>) = Len(c.shown) + Len(<<b>>)
      <4>1. c.shown \in Seq(Bytes \cup {b}) /\ <<b>> \in Seq(Bytes \cup {b})
        BY <1>1
      <4> QED BY <1>1, <4>1, ConcatProperties
    <3> QED BY <2>1, <3>1, <3>2
  <2>3. n \in 0 .. 2
    <3>1. n + 1 \in 0 .. k
      BY <1>2, <1>4, <2>2
    <3> QED BY <3>1
  <2>4. SubSeq(Says, 1, n) \o <<b>> = SubSeq(Says, 1, n + 1)
    BY <1>4, <2>1, <2>3, Prefix, Texts
  <2> QED BY <1>2, <1>4, <2>1, <2>2, <2>4
<1> QED BY <1>3, <1>4 DEF ReadsTo

LEMMA InbandStep ==
  ASSUME Fits, IInv, Inband
  PROVE  IInv'
<1>1. /\ ctl \in CtlRec /\ srv \in SrvRec /\ up \in Seq(Bytes) /\ down \in Seq(Bytes)
      /\ said \in 0 .. 3 /\ typed \in 0 .. 3 /\ ~ctl.closed /\ down # <<>> /\ ctl.at # "dead"
      /\ ctl.at = "opt" => ctl.cmd \in Verbs
  BY TelnetAssumption DEF IInv, Typed, Open, Inband, Quiet
<1>2. /\ ctl.shown = SubSeq(Says, 1, Len(ctl.shown)) /\ Len(ctl.shown) <= said /\ Len(ctl.shown) \in 0 .. 3
  <2>1. Len(ctl.shown) \in Nat
    <3>1. ctl.shown \in Seq(Bytes)
      BY <1>1 DEF CtlRec
    <3> QED BY <3>1
  <2>2. ctl.shown = SubSeq(Says, 1, Len(ctl.shown)) /\ Len(ctl.shown) <= said
    BY DEF IInv, ReadSoFar
  <2>3. PICK n \in Nat : n = Len(ctl.shown)
    BY <2>1
  <2>4. n \in 0 .. 3
    <3>1. PICK k \in 0 .. 3 : k = said
      BY <1>1
    <3>2. n <= k
      BY <2>2, <2>3, <3>1
    <3> QED BY <3>2
  <2> QED BY <2>2, <2>3, <2>4
<1>3. UnderWay /\ ("ECHO" \notin Asks => EchoState)
  BY <1>1 DEF IInv, Open
<1>4. PICK b \in Bytes : b = Head(down)
  BY <1>1
<1>5. PICK rest \in Seq(Bytes) : rest = Tail(down)
  <2>1. Tail(down) \in Seq(Bytes)
    BY <1>1, HeadTailProperties
  <2> QED BY <2>1
<1>6. PICK z \in UpTo(said) :
        <<BrowserAt, b, z>> \in DownRel /\ Runs(DownRel, UpTo(said), rest, z, At("text", said))
  BY <1>1, <1>3, <1>4, <1>5, RunTail DEF UnderWay
<1>7. z \in Label /\ DownMoves(BrowserAt, b, z)
  BY <1>6, DownRelOf
<1>8. PICK d, out : Parse(Turn(ctl, <<>>), b) = Turn(d, out) /\ ReadsTo(ctl, b, z, d, out)
  BY <1>1, <1>2, <1>7, ParseStep DEF BrowserAt
<1>9. d \in CtlRec /\ UpTalk(out)
  BY <1>8 DEF ReadsTo
<1>10. ctl' = d /\ up' = up \o out
  <2>1. Turn(d, out).c = d /\ Turn(d, out).out = out
    BY <1>9, TurnIs
  <2>2. [c |-> ctl, out |-> <<>>] = Turn(ctl, <<>>)
    BY DEF Turn
  <2>3. /\ ctl' = Parse([c |-> ctl, out |-> <<>>], Head(down)).c
        /\ up' = up \o Parse([c |-> ctl, out |-> <<>>], Head(down)).out
    BY DEF Inband
  <2> QED BY <1>4, <1>8, <2>1, <2>2, <2>3
<1>11. /\ pending' = FALSE /\ down' = rest
       /\ UNCHANGED <<srv, said, typed, turns, resizes, sent>>
  BY <1>1, <1>5 DEF Inband
<1>12. d.at # "dead" /\ ~d.closed /\ (d.at = "opt" => d.cmd \in Verbs) /\ z = At(Stands(d), Len(d.shown))
  BY <1>1, <1>8 DEF ReadsTo
<1>13. out \in Seq(Bytes) /\ up \o out \in Seq(Bytes)
  BY <1>1, <1>9 DEF UpTalk
<1>14. Typed'
  BY <1>1, <1>9, <1>10, <1>11, <1>12, <1>13 DEF IInv, Typed
<1>15. ReadSoFar'
  <2>1. d.shown = SubSeq(Says, 1, Len(d.shown)) /\ Len(d.shown) <= said
    BY <1>1, <1>2, <1>6, <1>8, ReadSoFarStep
  <2> QED BY <1>10, <1>11, <2>1 DEF IInv, ReadSoFar
<1>16. UnderWay'
  <2>1. Runs(DownRel, UpTo(said), rest, At(Stands(d), Len(d.shown)), At("text", said))
    BY <1>6, <1>12
  <2>2. Runs(UpRel, UpTo(typed), up \o out, ServerAt, At("text", typed))
    <3>1. Runs(UpRel, UpTo(typed), up, ServerAt, At("text", typed))
      BY <1>3 DEF UnderWay
    <3>2. Runs(UpRel, UpTo(typed), out, At("text", typed), At("text", typed))
      <4>1. typed \in 0 .. typed
        BY <1>1
      <4> QED BY <1>1, <1>9, <4>1 DEF UpTalk
    <3> QED BY <1>1, <1>13, <3>1, <3>2, RunConcat
  <2> QED BY <1>10, <1>11, <2>1, <2>2 DEF UnderWay, BrowserAt, ServerAt
<1>17. ASSUME "ECHO" \notin Asks PROVE EchoState'
  <2>0. EchoState
    BY <1>3, <1>17
  <2>1. <<At(Stands(ctl), Len(ctl.shown)), b, z>> \in DownRel
    BY <1>6 DEF BrowserAt
  <2>2. ASSUME NEW verb
        PROVE  /\ Calm => Silent(rest) /\ Silent(up \o out) /\ EchoKept(ctl, d)
               /\ Answered(verb) => Silent(rest) /\ Once(up \o out, verb, Stands(srv)) /\ EchoKept(ctl, d)
               /\ Told(verb) =>
                    \/ b # "ECHO" /\ Once(rest, verb, Stands(d)) /\ Silent(up \o out) /\ EchoKept(ctl, d)
                    \/ b = "ECHO" /\ Silent(rest) /\ Stands(ctl) = verb
    <3>1. /\ Runs(DownRel, UpTo(said), Tail(down), z, At("text", said))
          /\ <<At(Stands(ctl), Len(ctl.shown)), Head(down), z>> \in DownRel
          /\ ReadsTo(ctl, Head(down), z, d, out)
      BY <1>4, <1>5, <1>6, <1>8, <2>1
    <3>2. /\ Silent(down) => Silent(rest) /\ Silent(out) /\ EchoKept(ctl, d)
          /\ Silent(down) /\ Silent(up) => Silent(up \o out)
          /\ Silent(down) /\ Once(up, verb, Stands(srv)) => Once(up \o out, verb, Stands(srv))
          /\ Once(down, verb, Stands(ctl)) /\ Silent(up) =>
               \/ b # "ECHO" /\ Once(rest, verb, Stands(d)) /\ Silent(up \o out) /\ EchoKept(ctl, d)
               \/ b = "ECHO" /\ Silent(rest) /\ Stands(ctl) = verb
      <4>1. EchoStep(down, up, Stands(srv), out, Stands(ctl), Stands(d), EchoKept(ctl, d), verb)
        BY <1>1, <3>1, EchoRead
      <4> QED BY <1>4, <1>5, <4>1 DEF EchoStep
    <3> QED BY <3>2 DEF Calm, Answered, Told
  <2>3. /\ Calm' <=> Silent(rest) /\ Silent(up \o out)
        /\ \A verb : Told(verb)' <=> Once(rest, verb, Stands(d)) /\ Silent(up \o out)
        /\ \A verb : Answered(verb)' <=> Silent(rest) /\ Once(up \o out, verb, Stands(srv))
    BY <1>10, <1>11 DEF Calm, Told, Answered
  <2>4. /\ ctl'.echoEnabled = d.echoEnabled /\ ctl'.localEcho = d.localEcho
        /\ srv'.us["ECHO"] = srv.us["ECHO"] /\ srv.us["ECHO"] \in QStates
        /\ ctl.localEcho <=> ~ctl.echoEnabled
    BY <1>1, <2>0, <1>10, <1>11 DEF EchoState, SrvRec, Options
  <2>5. CASE srv.us["ECHO"] \in {"no", "yes"}
    <3>1. Calm /\ (srv.us["ECHO"] = "no" => ~ctl.echoEnabled) /\ (srv.us["ECHO"] = "yes" => ctl.echoEnabled)
      BY <2>0, <2>5 DEF EchoState
    <3>2. EchoKept(ctl, d) /\ Calm'
      BY <2>2, <2>3, <3>1
    <3> QED BY <2>4, <2>5, <3>1, <3>2 DEF EchoState, EchoKept
  <2>6. CASE srv.us["ECHO"] = "wantyes"
    <3>1. CASE Told("WILL") /\ ~ctl.echoEnabled
      <4>1. CASE b # "ECHO"
        <5>1. EchoKept(ctl, d) /\ Told("WILL")'
          BY <2>2, <2>3, <3>1, <4>1
        <5> QED BY <2>4, <2>6, <3>1, <5>1 DEF EchoState, EchoKept
      <4>2. CASE b = "ECHO"
        <5>1. Silent(rest) /\ Stands(ctl) = "WILL"
          BY <2>2, <3>1, <4>2
        <5>2. d.echoEnabled /\ ~d.localEcho /\ out = Nego("DO", "ECHO")
          BY <1>8, <3>1, <4>2, <5>1 DEF ReadsTo
        <5>3. Once(up \o Nego("DO", "ECHO"), "DO", Stands(srv))
          <6>1. "DO" \in Bytes /\ "IAC" \in Bytes /\ "ECHO" \in Bytes /\ Silent(up)
            BY <3>1 DEF Bytes, Verbs, Options, Told
          <6> QED BY <1>1, <6>1, SilentThenOnce
        <5>4. Answered("DO")'
          BY <2>3, <5>1, <5>2, <5>3
        <5> QED BY <2>4, <2>6, <5>2, <5>4 DEF EchoState
      <4> QED BY <4>1, <4>2
    <3>2. CASE Answered("DO") /\ ctl.echoEnabled
      <4>1. EchoKept(ctl, d) /\ Answered("DO")'
        BY <2>2, <2>3, <3>2
      <4> QED BY <2>4, <2>6, <3>2, <4>1 DEF EchoState, EchoKept
    <3> QED BY <2>0, <2>6, <3>1, <3>2 DEF EchoState
  <2>7. CASE srv.us["ECHO"] = "wantno"
    <3>1. CASE Told("WONT") /\ ctl.echoEnabled
      <4>1. CASE b # "ECHO"
        <5>1. EchoKept(ctl, d) /\ Told("WONT")'
          BY <2>2, <2>3, <3>1, <4>1
        <5> QED BY <2>4, <2>7, <3>1, <5>1 DEF EchoState, EchoKept
      <4>2. CASE b = "ECHO"
        <5>1. Silent(rest) /\ Stands(ctl) = "WONT"
          BY <2>2, <3>1, <4>2
        <5>2. ~d.echoEnabled /\ d.localEcho /\ out = Nego("DONT", "ECHO")
          BY <1>8, <3>1, <4>2, <5>1 DEF ReadsTo
        <5>3. Once(up \o Nego("DONT", "ECHO"), "DONT", Stands(srv))
          <6>1. "DONT" \in Bytes /\ "IAC" \in Bytes /\ "ECHO" \in Bytes /\ Silent(up)
            BY <3>1 DEF Bytes, Verbs, Options, Told
          <6> QED BY <1>1, <6>1, SilentThenOnce
        <5>4. Answered("DONT")'
          BY <2>3, <5>1, <5>2, <5>3
        <5> QED BY <2>4, <2>7, <5>2, <5>4 DEF EchoState
      <4> QED BY <4>1, <4>2
    <3>2. CASE Answered("DONT") /\ ~ctl.echoEnabled
      <4>1. EchoKept(ctl, d) /\ Answered("DONT")'
        BY <2>2, <2>3, <3>2
      <4> QED BY <2>4, <2>7, <3>2, <4>1 DEF EchoState, EchoKept
    <3> QED BY <2>0, <2>7, <3>1, <3>2 DEF EchoState
  <2> QED BY <2>4, <2>5, <2>6, <2>7 DEF QStates
<1> QED BY <1>10, <1>12, <1>14, <1>15, <1>16, <1>17 DEF IInv, Open

----------------------------------------------------------------------------
(* The other steps of the browser, and what the server begins.              *)

LEMMA EchoQuiet ==
  ASSUME EchoState, up \in Seq(Bytes), down \in Seq(Bytes), NEW m \in Seq(Bytes), NEW k \in Seq(Bytes),
         Silent(m), Silent(k), up' = up \o m, down' = down \o k, EchoKept(ctl, ctl'),
         Stands(ctl') = Stands(ctl), Stands(srv') = Stands(srv), srv'.us["ECHO"] = srv.us["ECHO"]
  PROVE  EchoState'
<1>1. Silent(up) => Silent(up \o m)
  BY SilentConcat
<1>2. Silent(down) => Silent(down \o k)
  BY SilentConcat
<1>3. \A verb : Once(up, verb, Stands(srv)) => Once(up \o m, verb, Stands(srv))
  BY OnceThenSilent
<1>4. \A verb : Once(down, verb, Stands(ctl)) => Once(down \o k, verb, Stands(ctl))
  BY OnceThenSilent
<1>5. /\ Calm' <=> Silent(down \o k) /\ Silent(up \o m)
      /\ \A verb : Told(verb)' <=> Once(down \o k, verb, Stands(ctl)) /\ Silent(up \o m)
      /\ \A verb : Answered(verb)' <=> Silent(down \o k) /\ Once(up \o m, verb, Stands(srv))
  BY DEF Calm, Told, Answered
<1>6. /\ Calm => Calm'
      /\ \A verb : Told(verb) => Told(verb)'
      /\ \A verb : Answered(verb) => Answered(verb)'
  BY <1>1, <1>2, <1>3, <1>4, <1>5 DEF Calm, Told, Answered
<1>7. ctl'.echoEnabled = ctl.echoEnabled /\ ctl'.localEcho = ctl.localEcho
  BY DEF EchoKept
<1> QED BY <1>6, <1>7 DEF EchoState

\* What the invariant says when the session goes on.
LEMMA Facts ==
  ASSUME IInv, Quiet
  PROVE  /\ ctl \in CtlRec /\ srv \in SrvRec /\ up \in Seq(Bytes) /\ down \in Seq(Bytes)
         /\ said \in 0 .. 3 /\ typed \in 0 .. 3 /\ ~ctl.closed /\ ctl.at # "dead" /\ UnderWay
         /\ "ECHO" \notin Asks => EchoState
         /\ Runs(UpRel, UpTo(typed), up, ServerAt, At("text", typed))
         /\ Runs(DownRel, UpTo(said), down, BrowserAt, At("text", said))
         /\ up \o <<>> = up /\ down \o <<>> = down
<1>1. /\ ctl \in CtlRec /\ srv \in SrvRec /\ up \in Seq(Bytes) /\ down \in Seq(Bytes)
      /\ said \in 0 .. 3 /\ typed \in 0 .. 3
  BY TelnetAssumption DEF IInv, Typed
<1>2. ~ctl.closed /\ ctl.at # "dead" /\ UnderWay /\ ("ECHO" \notin Asks => EchoState)
  BY DEF IInv, Open, Quiet
<1>3. up \o <<>> = up /\ down \o <<>> = down
  BY <1>1, ConcatEmptySeq
<1> QED BY <1>1, <1>2, <1>3 DEF UnderWay

\* Bytes that begin and end in text, added to what is under way.
LEMMA UnderWayMore ==
  ASSUME IInv, Quiet, NEW m, NEW k, UpTalk(m), DownTalk(k), up' = up \o m, down' = down \o k,
         UNCHANGED <<said, typed>>, BrowserAt' = BrowserAt, ServerAt' = ServerAt
  PROVE  UnderWay' /\ up' \in Seq(Bytes) /\ down' \in Seq(Bytes)
<1>1. m \in Seq(Bytes) /\ k \in Seq(Bytes)
  BY DEF UpTalk, DownTalk
<1>2. typed \in 0 .. typed /\ said \in 0 .. said
  BY Facts
<1>3. /\ Runs(UpRel, UpTo(typed), m, At("text", typed), At("text", typed))
      /\ Runs(DownRel, UpTo(said), k, At("text", said), At("text", said))
  BY <1>2, Facts DEF UpTalk, DownTalk
<1>4. Runs(UpRel, UpTo(typed), up \o m, ServerAt, At("text", typed))
  BY <1>1, <1>3, Facts, RunConcat
<1>5. Runs(DownRel, UpTo(said), down \o k, BrowserAt, At("text", said))
  BY <1>1, <1>3, Facts, RunConcat
<1>6. up \o m \in Seq(Bytes) /\ down \o k \in Seq(Bytes)
  BY <1>1, Facts, ConcatProperties
<1>7. /\ Runs(UpRel, UpTo(typed'), up', ServerAt', At("text", typed'))
      /\ Runs(DownRel, UpTo(said'), down', BrowserAt', At("text", said'))
  BY <1>4, <1>5, Zenon
<1> QED BY <1>6, <1>7, Zenon DEF UnderWay

\* Nothing but the server reads in the middle of a command: all of it has arrived.
LEMMA QuietReader ==
  ASSUME IInv, Quiet
  PROVE  srv.at = "text"
<1>1. CASE up = <<>>
  <2>1. Runs(UpRel, UpTo(typed), <<>>, ServerAt, At("text", typed))
    BY <1>1, Facts
  <2>2. ServerAt = At("text", typed)
    BY <2>1, RunOfEmpty
  <2>3. Stands(srv) = "text" /\ (srv.at = "opt" => srv.cmd \in Verbs)
    BY <2>2 DEF ServerAt, At, IInv, Typed
  <2> QED BY <2>3 DEF Stands, Verbs
<1>2. CASE srv.at = "text"
  BY <1>2
<1> QED BY <1>1, <1>2 DEF Quiet

LEMMA CompletedStep ==
  ASSUME IInv, Completed
  PROVE  IInv'
<1>1. ctl \in CtlRec /\ srv.at = "text"
  <2>1. IInv /\ Quiet
    BY DEF Completed
  <2> QED BY <2>1, Facts, QuietReader
<1>2. ctl' \in CtlRec /\ ctl'.closed /\ ctl'.at = "dead" /\ ctl'.shown = ctl.shown
  BY <1>1 DEF Completed, CtlRec
<1>3. up' = <<>> /\ down' = <<>> /\ UNCHANGED <<pending, srv, said, typed, turns, resizes, sent>>
  BY DEF Completed
<1>4. Typed' /\ ReadSoFar'
  BY <1>2, <1>3 DEF IInv, Typed, ReadSoFar
<1>5. Gone'
  BY <1>1, <1>3 DEF Gone
<1> QED BY <1>2, <1>4, <1>5 DEF IInv

LEMMA ResizeStep ==
  ASSUME IInv, NEW d \in Sizes, Resize(d)
  PROVE  IInv'
<1>1. Quiet /\ resizes' = resizes + 1 /\ resizes < MaxResizes /\ up' = up \o Nego("WILL", "NAWS")
      /\ UNCHANGED <<pending, down, srv, said, typed, turns, sent>>
  BY DEF Resize
<1>2. /\ ctl' \in CtlRec /\ ctl'.at = ctl.at /\ ctl'.cmd = ctl.cmd /\ ctl'.shown = ctl.shown
      /\ ctl'.closed = ctl.closed /\ EchoKept(ctl, ctl')
  <2>1. ctl \in CtlRec /\ ctl' = [ctl EXCEPT !.dim = d, !.nawsAccepted = TRUE]
    BY DEF Resize, IInv, Typed
  <2> QED BY <2>1 DEF CtlRec, EchoKept
<1>3. UpTalk(Nego("WILL", "NAWS")) /\ Silent(Nego("WILL", "NAWS")) /\ Nego("WILL", "NAWS") \in Seq(Bytes)
  <2>1. "WILL" \in Verbs /\ "NAWS" \in Options /\ "NAWS" # "ECHO"
    BY DEF Verbs, Options
  <2> QED BY <2>1, NegoTalks DEF UpTalk
<1>4. Stands(ctl') = Stands(ctl) /\ BrowserAt' = BrowserAt /\ ServerAt' = ServerAt
  BY <1>1, <1>2 DEF Stands, BrowserAt, ServerAt
<1>5. down' = down \o <<>> /\ <<>> \in Seq(Bytes)
  BY <1>1, Facts
<1>6. UnderWay' /\ up' \in Seq(Bytes)
  BY <1>1, <1>3, <1>4, <1>5, UnderWayMore, UpSilence
<1>7. ASSUME "ECHO" \notin Asks PROVE EchoState'
  BY <1>1, <1>2, <1>3, <1>4, <1>5, <1>7, EchoQuiet, Facts, UpSilence
<1>8. Typed' /\ ReadSoFar'
  <2>1. resizes' \in 0 .. MaxResizes
    BY <1>1, TelnetAssumption DEF IInv, Typed
  <2> QED BY <1>1, <1>2, <1>6, <2>1 DEF IInv, Typed, ReadSoFar
<1> QED BY <1>1, <1>2, <1>6, <1>7, <1>8, Facts DEF IInv, Open

LEMMA TypeStep ==
  ASSUME IInv, Type
  PROVE  IInv'
<1>1. Quiet /\ typed < MaxKeys /\ typed' = typed + 1 /\ UNCHANGED <<ctl, pending, down, srv, said, turns, resizes, sent>>
  BY DEF Type
<1>2. PICK n \in 0 .. 2 : n = typed /\ n + 1 \in 0 .. MaxKeys
  <2>1. typed \in 0 .. MaxKeys /\ MaxKeys \in 0 .. 3
    BY TelnetAssumption DEF IInv, Typed
  <2> QED BY <1>1, <2>1
<1>3. PICK m : m = Escaped(Types[n + 1])
  OBVIOUS
<1>4. /\ up' = up \o m /\ m \in Seq(Bytes) /\ Silent(m)
      /\ Runs(UpRel, UpTo(n + 1), m, At("text", n), At("text", n + 1))
  <2>1. up' = up \o m
    BY <1>2, <1>3 DEF Type
  <2> QED BY <1>3, <2>1, TextTalks
<1>5. up \o m \in Seq(Bytes)
  BY <1>1, <1>4, Facts, ConcatProperties
<1>6. UnderWay'
  <2>1. Runs(UpRel, UpTo(n), up, ServerAt, At("text", n))
    BY <1>1, <1>2, Facts
  <2>2. UpTo(n) \subseteq UpTo(n + 1)
    <3>1. 0 .. n \subseteq 0 .. n + 1
      OBVIOUS
    <3> QED BY <3>1 DEF UpTo
  <2>3. Runs(UpRel, UpTo(n + 1), up, ServerAt, At("text", n))
    BY <2>1, <2>2, RunWider
  <2>4. Runs(UpRel, UpTo(n + 1), up \o m, ServerAt, At("text", n + 1))
    BY <1>1, <1>4, <2>3, Facts, RunConcat
  <2>5. ServerAt' = ServerAt /\ BrowserAt' = BrowserAt
    BY <1>1 DEF ServerAt, BrowserAt
  <2>6. Runs(UpRel, UpTo(typed'), up', ServerAt', At("text", typed'))
    BY <1>1, <1>2, <1>4, <2>4, <2>5
  <2>7. Runs(DownRel, UpTo(said'), down', BrowserAt', At("text", said'))
    BY <1>1, <2>5, Facts
  <2> QED BY <2>6, <2>7, Zenon DEF UnderWay
<1>7. ASSUME "ECHO" \notin Asks PROVE EchoState'
  <2>1. down' = down \o <<>> /\ <<>> \in Seq(Bytes) /\ EchoKept(ctl, ctl')
    BY <1>1, Facts DEF EchoKept
  <2>2. Stands(ctl') = Stands(ctl) /\ Stands(srv') = Stands(srv) /\ srv'.us["ECHO"] = srv.us["ECHO"]
    BY <1>1
  <2> QED BY <1>1, <1>4, <1>7, <2>1, <2>2, EchoQuiet, Facts, UpSilence
<1>8. Typed' /\ ReadSoFar'
  <2>1. Typed'
    BY <1>1, <1>2, <1>4, <1>5 DEF IInv, Typed
  <2>2. Len(srv.got) \in Nat /\ typed \in Nat
    <3>1. srv.got \in Seq(Bytes)
      BY <1>1, Facts DEF SrvRec
    <3> QED BY <1>2, <3>1
  <2> QED BY <1>1, <2>1, <2>2 DEF IInv, ReadSoFar
<1> QED BY <1>1, <1>6, <1>7, <1>8, Facts DEF IInv, Open

LEMMA SendTextStep ==
  ASSUME IInv, SendText
  PROVE  IInv'
<1>1. Quiet /\ said < MaxText /\ said' = said + 1 /\ UNCHANGED <<ctl, pending, typed, resizes, up, srv, turns, sent>>
  BY DEF SendText, unchangedButServer
<1>2. PICK n \in 0 .. 2 : n = said /\ n + 1 \in 0 .. MaxText
  <2>1. said \in 0 .. MaxText /\ MaxText \in 0 .. 3
    BY TelnetAssumption DEF IInv, Typed
  <2> QED BY <1>1, <2>1
<1>3. PICK m : m = Escaped(Says[n + 1])
  OBVIOUS
<1>4. /\ down' = down \o m /\ m \in Seq(Bytes) /\ Silent(m)
      /\ Runs(DownRel, UpTo(n + 1), m, At("text", n), At("text", n + 1))
  <2>1. Escaped(Says[n + 1]) = IF Says[n + 1] = "IAC" THEN <<"IAC", "IAC">> ELSE <<Says[n + 1]>>
    BY DEF Escaped
  <2>2. down' = down \o m
    BY <1>2, <1>3, <2>1 DEF SendText
  <2> QED BY <1>3, <2>2, TextTalks
<1>5. down \o m \in Seq(Bytes)
  BY <1>1, <1>4, Facts, ConcatProperties
<1>6. UnderWay'
  <2>1. Runs(DownRel, UpTo(n), down, BrowserAt, At("text", n))
    BY <1>1, <1>2, Facts
  <2>2. UpTo(n) \subseteq UpTo(n + 1)
    <3>1. 0 .. n \subseteq 0 .. n + 1
      OBVIOUS
    <3> QED BY <3>1 DEF UpTo
  <2>3. Runs(DownRel, UpTo(n + 1), down, BrowserAt, At("text", n))
    BY <2>1, <2>2, RunWider
  <2>4. Runs(DownRel, UpTo(n + 1), down \o m, BrowserAt, At("text", n + 1))
    BY <1>1, <1>4, <2>3, Facts, RunConcat
  <2>5. ServerAt' = ServerAt /\ BrowserAt' = BrowserAt
    BY <1>1 DEF ServerAt, BrowserAt
  <2>6. Runs(DownRel, UpTo(said'), down', BrowserAt', At("text", said'))
    BY <1>1, <1>2, <1>4, <2>4, <2>5
  <2>7. Runs(UpRel, UpTo(typed'), up', ServerAt', At("text", typed'))
    BY <1>1, <2>5, Facts
  <2> QED BY <2>6, <2>7, Zenon DEF UnderWay
<1>7. ASSUME "ECHO" \notin Asks PROVE EchoState'
  <2>1. up' = up \o <<>> /\ <<>> \in Seq(Bytes) /\ EchoKept(ctl, ctl')
    BY <1>1, Facts DEF EchoKept
  <2>2. Stands(ctl') = Stands(ctl) /\ Stands(srv') = Stands(srv) /\ srv'.us["ECHO"] = srv.us["ECHO"]
    BY <1>1
  <2> QED BY <1>1, <1>4, <1>7, <2>1, <2>2, EchoQuiet, Facts, UpSilence
<1>8. Typed' /\ ReadSoFar'
  <2>1. Typed'
    BY <1>1, <1>2, <1>4, <1>5 DEF IInv, Typed
  <2>2. Len(ctl.shown) \in Nat /\ said \in Nat
    <3>1. ctl.shown \in Seq(Bytes)
      BY <1>1, Facts DEF CtlRec
    <3> QED BY <1>2, <3>1
  <2> QED BY <1>1, <2>1, <2>2 DEF IInv, ReadSoFar
<1> QED BY <1>1, <1>6, <1>7, <1>8, Facts DEF IInv, Open

LEMMA SendCommandStep ==
  ASSUME Plain, IInv, NEW c \in Commands, SendCommand(c)
  PROVE  IInv'
<1>1. Quiet /\ sent' = sent + 1 /\ UNCHANGED <<ctl, pending, typed, resizes, up, srv, said, turns>>
  BY DEF SendCommand, unchangedButServer
<1>2. PICK m : m = <<"IAC", "GA">>
  OBVIOUS
<1>3. down' = down \o m /\ DownTalk(m) /\ Silent(m) /\ m \in Seq(Bytes)
  <2>1. c = "GA"
    BY DEF Plain, Known
  <2>2. down' = down \o m
    BY <1>2, <2>1 DEF SendCommand
  <2> QED BY <1>2, <2>2, GoAheadTalks DEF DownTalk
<1>4. up' = up \o <<>> /\ <<>> \in Seq(Bytes) /\ EchoKept(ctl, ctl') /\ UpTalk(<<>>) /\ Silent(<<>>)
  BY <1>1, Facts, UpSilence DEF EchoKept
<1>5. Stands(ctl') = Stands(ctl) /\ Stands(srv') = Stands(srv) /\ srv'.us["ECHO"] = srv.us["ECHO"]
  BY <1>1
<1>6. ServerAt' = ServerAt /\ BrowserAt' = BrowserAt
  BY <1>1 DEF ServerAt, BrowserAt
<1>7. UnderWay' /\ down' \in Seq(Bytes)
  BY <1>1, <1>3, <1>4, <1>6, UnderWayMore
<1>8. ASSUME "ECHO" \notin Asks PROVE EchoState'
  BY <1>8, <1>1, <1>3, <1>4, <1>5, EchoQuiet, Facts
<1>9. Typed' /\ ReadSoFar'
  BY <1>1, <1>7 DEF IInv, Typed, ReadSoFar
<1> QED BY <1>1, <1>7, <1>8, <1>9, Facts DEF IInv, Open

LEMMA BeginStep ==
  ASSUME IInv, Begin
  PROVE  IInv'
<1>1. /\ Quiet /\ turns < MaxTurns /\ turns' = turns + 1
      /\ UNCHANGED <<ctl, pending, typed, resizes, up, said, sent>>
  BY DEF Begin, unchangedButServer
<1>2. PICK o \in Options, v \in Verbs :
        /\ down' = down \o Nego(v, o)
        /\ srv' \in SrvRec /\ srv'.at = srv.at /\ srv'.cmd = srv.cmd /\ srv'.got = srv.got
        /\ \/ o # "ECHO" /\ srv'.us["ECHO"] = srv.us["ECHO"]
           \/ "ECHO" \in Asks
           \/ o = "ECHO" /\ srv.us["ECHO"] = "no" /\ v = "WILL" /\ srv'.us["ECHO"] = "wantyes"
           \/ o = "ECHO" /\ srv.us["ECHO"] = "yes" /\ v = "WONT" /\ srv'.us["ECHO"] = "wantno"
  <2>1. srv \in SrvRec /\ {"WILL", "WONT", "DO", "DONT"} \subseteq Verbs /\ {"no", "wantyes", "yes", "wantno"} \subseteq QStates
    BY <1>1, Facts DEF Verbs, QStates
  <2>2. ASSUME NEW o \in Offers, srv.us[o] = "no" \/ (srv.us[o] = "yes" /\ o \in Withdraws),
               srv' = [srv EXCEPT !.us[o] = IF @ = "no" THEN "wantyes" ELSE "wantno"],
               down' = down \o Nego(IF srv.us[o] = "no" THEN "WILL" ELSE "WONT", o)
        PROVE  \E p \in Options, v \in Verbs :
                 /\ down' = down \o Nego(v, p)
                 /\ srv' \in SrvRec /\ srv'.at = srv.at /\ srv'.cmd = srv.cmd /\ srv'.got = srv.got
                 /\ \/ p # "ECHO" /\ srv'.us["ECHO"] = srv.us["ECHO"]
                    \/ "ECHO" \in Asks
                    \/ p = "ECHO" /\ srv.us["ECHO"] = "no" /\ v = "WILL" /\ srv'.us["ECHO"] = "wantyes"
                    \/ p = "ECHO" /\ srv.us["ECHO"] = "yes" /\ v = "WONT" /\ srv'.us["ECHO"] = "wantno"
    <3>1. o \in Options
      BY TelnetAssumption DEF Options
    <3>2. PICK v \in Verbs : v = IF srv.us[o] = "no" THEN "WILL" ELSE "WONT"
      BY <2>1
    <3>3. PICK q \in QStates : q = IF srv.us[o] = "no" THEN "wantyes" ELSE "wantno"
      BY <2>1
    <3>4. srv' = [srv EXCEPT !.us[o] = q]
      BY <2>2, <3>3
    <3>5. srv' \in SrvRec /\ srv'.at = srv.at /\ srv'.cmd = srv.cmd /\ srv'.got = srv.got
      BY <2>1, <3>1, <3>4 DEF SrvRec
    <3>6. srv'.us["ECHO"] = IF o = "ECHO" THEN q ELSE srv.us["ECHO"]
      BY <2>1, <3>1, <3>4 DEF SrvRec, Options
    <3>7. down' = down \o Nego(v, o)
      BY <2>2, <3>2
    <3> QED BY <2>2, <3>1, <3>2, <3>3, <3>5, <3>6, <3>7
  <2>3. ASSUME NEW o \in Asks, srv.him[o] = "no" \/ (srv.him[o] = "yes" /\ o \in Withdraws),
               srv' = [srv EXCEPT !.him[o] = IF @ = "no" THEN "wantyes" ELSE "wantno"],
               down' = down \o Nego(IF srv.him[o] = "no" THEN "DO" ELSE "DONT", o)
        PROVE  \E p \in Options, v \in Verbs :
                 /\ down' = down \o Nego(v, p)
                 /\ srv' \in SrvRec /\ srv'.at = srv.at /\ srv'.cmd = srv.cmd /\ srv'.got = srv.got
                 /\ (p # "ECHO" /\ srv'.us["ECHO"] = srv.us["ECHO"]) \/ "ECHO" \in Asks
    <3>1. o \in Options /\ (o # "ECHO" \/ "ECHO" \in Asks)
      BY TelnetAssumption DEF Options
    <3>2. PICK v \in Verbs : v = IF srv.him[o] = "no" THEN "DO" ELSE "DONT"
      BY <2>1
    <3>3. PICK q \in QStates : q = IF srv.him[o] = "no" THEN "wantyes" ELSE "wantno"
      BY <2>1
    <3>4. srv' = [srv EXCEPT !.him[o] = q]
      BY <2>3, <3>3
    <3>5. srv' \in SrvRec /\ srv'.at = srv.at /\ srv'.cmd = srv.cmd /\ srv'.got = srv.got /\ srv'.us = srv.us
      BY <2>1, <3>1, <3>4 DEF SrvRec
    <3>7. down' = down \o Nego(v, o)
      BY <2>3, <3>2
    <3> QED BY <3>1, <3>2, <3>5, <3>7
  <2> QED BY <2>2, <2>3 DEF Begin
<1>3. PICK m : m = Nego(v, o)
  OBVIOUS
<1>4. down' = down \o m /\ DownTalk(m) /\ m \in Seq(Bytes) /\ (o # "ECHO" => Silent(m))
  BY <1>2, <1>3, NegoTalks DEF DownTalk
<1>5. up' = up \o <<>> /\ <<>> \in Seq(Bytes) /\ EchoKept(ctl, ctl') /\ UpTalk(<<>>) /\ Silent(<<>>)
  BY <1>1, Facts, UpSilence DEF EchoKept
<1>6. Stands(ctl') = Stands(ctl) /\ Stands(srv') = Stands(srv)
  BY <1>1, <1>2 DEF Stands
<1>7. ServerAt' = ServerAt /\ BrowserAt' = BrowserAt
  BY <1>1, <1>2 DEF ServerAt, BrowserAt, Stands
<1>8. UnderWay' /\ down' \in Seq(Bytes)
  BY <1>1, <1>4, <1>5, <1>7, UnderWayMore
<1>9. ASSUME "ECHO" \notin Asks PROVE EchoState'
  <2>0. EchoState
    BY <1>1, <1>9, Facts
  <2>1. CASE o # "ECHO" /\ srv'.us["ECHO"] = srv.us["ECHO"]
    BY <1>1, <1>4, <1>5, <1>6, <2>0, <2>1, EchoQuiet, Facts
  <2>2. ASSUME o = "ECHO", Calm
        PROVE  Told(v)'
    <3>1. Silent(down) /\ Silent(up)
      BY <2>2 DEF Calm
    <3>2. "IAC" \in Bytes /\ "ECHO" \in Bytes /\ v \in Bytes /\ v # "ECHO"
      BY DEF Bytes, Verbs, Options
    <3>3. Once(down \o Nego(v, "ECHO"), v, Stands(ctl))
      BY <1>1, <3>1, <3>2, Facts, SilentThenOnce
    <3>4. Once(down', v, Stands(ctl')) /\ Silent(up')
      BY <1>1, <1>2, <1>6, <2>2, <3>1, <3>3
    <3> QED BY <3>4 DEF Told
  <2>3. CASE o = "ECHO" /\ srv.us["ECHO"] = "no" /\ v = "WILL" /\ srv'.us["ECHO"] = "wantyes"
    <3>1. Calm /\ ~ctl.echoEnabled /\ (ctl.localEcho <=> ~ctl.echoEnabled)
      BY <2>0, <2>3 DEF EchoState
    <3>2. Told("WILL")'
      BY <2>2, <2>3, <3>1
    <3> QED BY <1>1, <2>3, <3>1, <3>2 DEF EchoState
  <2>4. CASE o = "ECHO" /\ srv.us["ECHO"] = "yes" /\ v = "WONT" /\ srv'.us["ECHO"] = "wantno"
    <3>1. Calm /\ ctl.echoEnabled /\ (ctl.localEcho <=> ~ctl.echoEnabled)
      BY <2>0, <2>4 DEF EchoState
    <3>2. Told("WONT")'
      BY <2>2, <2>4, <3>1
    <3> QED BY <1>1, <2>4, <3>1, <3>2 DEF EchoState
  <2> QED BY <1>2, <1>9, <2>1, <2>3, <2>4
<1>10. turns' \in 0 .. MaxTurns
  BY <1>1, TelnetAssumption DEF IInv, Typed
<1>11. Typed' /\ ReadSoFar'
  <2>1. srv'.at = "opt" => srv'.cmd \in Verbs
    BY <1>2 DEF IInv, Typed
  <2>2. Typed'
    BY <1>1, <1>2, <1>8, <1>10, <2>1 DEF IInv, Typed
  <2> QED BY <1>1, <1>2, <2>2 DEF IInv, ReadSoFar
<1> QED BY <1>1, <1>8, <1>9, <1>11, Facts DEF IInv, Open

----------------------------------------------------------------------------
(* One byte of the server.                                                  *)

STurn(s, out) == [s |-> s, out |-> out]

LEMMA STurnWith ==
  ASSUME NEW s \in SrvRec, NEW out, NEW t, t = STurn(s, out)
  PROVE  /\ t.s = s /\ t.out = out
         /\ \A v : [t EXCEPT !.out = v] = STurn(s, v)
         /\ \A v : [t EXCEPT !.s = v] = STurn(v, out)
         /\ \A v : [t EXCEPT !.s.at = v] = STurn([s EXCEPT !.at = v], out)
         /\ \A v : [t EXCEPT !.s.cmd = v] = STurn([s EXCEPT !.cmd = v], out)
         /\ \A v : [t EXCEPT !.s.got = v] = STurn([s EXCEPT !.got = v], out)
         /\ \A v : [t EXCEPT !.s.buf = v] = STurn([s EXCEPT !.buf = v], out)
         /\ \A o, v : [t EXCEPT !.s.us[o] = v] = STurn([s EXCEPT !.us[o] = v], out)
         /\ \A o, v : [t EXCEPT !.s.him[o] = v] = STurn([s EXCEPT !.him[o] = v], out)
<1>1. t.s = s /\ t.out = out
  BY DEF STurn
<1>2. ASSUME NEW v PROVE [t EXCEPT !.out = v] = STurn(s, v)
  BY DEF STurn
<1>3. ASSUME NEW v PROVE [t EXCEPT !.s = v] = STurn(v, out)
  BY DEF STurn
<1>4. ASSUME NEW v PROVE [t EXCEPT !.s.at = v] = STurn([s EXCEPT !.at = v], out)
  BY DEF STurn
<1>5. ASSUME NEW v PROVE [t EXCEPT !.s.cmd = v] = STurn([s EXCEPT !.cmd = v], out)
  BY DEF STurn
<1>6. ASSUME NEW v PROVE [t EXCEPT !.s.got = v] = STurn([s EXCEPT !.got = v], out)
  BY DEF STurn
<1>7. ASSUME NEW v PROVE [t EXCEPT !.s.buf = v] = STurn([s EXCEPT !.buf = v], out)
  BY DEF STurn
<1>8. ASSUME NEW o, NEW v PROVE [t EXCEPT !.s.us[o] = v] = STurn([s EXCEPT !.us[o] = v], out)
  BY DEF STurn
<1>9. ASSUME NEW o, NEW v PROVE [t EXCEPT !.s.him[o] = v] = STurn([s EXCEPT !.him[o] = v], out)
  BY DEF STurn
<1> QED BY <1>1, <1>2, <1>3, <1>4, <1>5, <1>6, <1>7, <1>8, <1>9

LEMMA QIs ==
  ASSUME NEW q \in QStates, NEW on \in BOOLEAN
  PROVE  /\ QNext(q, on) \in QStates
         /\ q = "wantyes" => QNext(q, TRUE) = "yes" /\ ~QReply(q, on)
         /\ q = "wantno" => QNext(q, on) = "no" /\ ~QReply(q, on)
BY DEF QNext, QReply, QStates

\* A command about an option of the client.
LEMMA HimIs ==
  ASSUME NEW s \in SrvRec, s.cmd \in {"WILL", "WONT"}, NEW o \in Options
  PROVE  \E r, out : /\ ReadOption(STurn(s, <<>>), o) = STurn(r, out) /\ r \in SrvRec /\ r.at = "text"
                     /\ r.got = s.got /\ r.us = s.us /\ DownTalk(out) /\ (o # "ECHO" => Silent(out))
<1>1. PICK none : none = <<>>
  OBVIOUS
<1>2. PICK t : t = STurn(s, none)
  OBVIOUS
<1>3. t.s = s /\ t.out = none
  BY <1>2, STurnWith
<1>4. PICK on \in BOOLEAN : on = (s.cmd \in {"WILL", "DO"})
  <2>1. (s.cmd \in {"WILL", "DO"}) \in BOOLEAN
    OBVIOUS
  <2> QED BY <2>1, Zenon
<1>5. PICK q \in QStates : q = QNext(s.him[o], on)
  <2>1. s.him[o] \in QStates
    BY DEF SrvRec
  <2> QED BY <2>1, QIs
<1>6. PICK reply : reply = IF QReply(s.him[o], on) THEN Nego(IF on THEN "DO" ELSE "DONT", o) ELSE none
  OBVIOUS
<1>7. PICK ask : ask = IF o = "TTYPE" /\ s.cmd = "WILL" /\ s.him[o] \in {"no", "wantyes"}
                       THEN SubNego("TTYPE", <<"SEND">>) ELSE none
  OBVIOUS
<1>8. DownTalk(reply) /\ (o # "ECHO" => Silent(reply))
  <2>1. reply \in {none, Nego("DO", o), Nego("DONT", o)}
    BY <1>6
  <2>2. "DO" \in Verbs /\ "DONT" \in Verbs
    BY DEF Verbs
  <2> QED BY <1>1, <2>1, <2>2, NegoTalks, UpSilence
<1>9. DownTalk(ask) /\ Silent(ask)
  <2>1. PICK sub : sub = SubNego("TTYPE", <<"SEND">>)
    OBVIOUS
  <2>2. DownTalk(sub) /\ Silent(sub)
    BY <2>1, TypeTalks, Zenon
  <2>3. ask = sub \/ ask = none
    BY <1>7, <2>1
  <2> QED BY <1>1, <2>2, <2>3, UpSilence
<1>10. PICK out : out = (none \o reply) \o ask
  OBVIOUS
<1>11. DownTalk(out) /\ (o # "ECHO" => Silent(out))
  <2>1. reply \in Seq(Bytes) /\ ask \in Seq(Bytes) /\ none \o reply = reply
    BY <1>1, <1>8, <1>9, ConcatEmptySeq DEF DownTalk
  <2>2. out = reply \o ask
    BY <1>10, <2>1
  <2> QED BY <1>8, <1>9, <2>1, <2>2, TalkConcat, SilentConcat
<1>12. ReadOption(t, o) = [t EXCEPT !.s.him[o] = q, !.s.at = "text", !.out = out]
  BY <1>1, <1>3, <1>4, <1>5, <1>6, <1>7, <1>10 DEF ReadOption
<1>13. PICK s1 : s1 = [s EXCEPT !.him[o] = q]
  OBVIOUS
<1>14. s1 \in SrvRec /\ s1.got = s.got /\ s1.us = s.us
  BY <1>13 DEF SrvRec
<1>15. PICK r : r = [s1 EXCEPT !.at = "text"]
  OBVIOUS
<1>16. r \in SrvRec /\ r.at = "text" /\ r.got = s.got /\ r.us = s.us
  BY <1>14, <1>15 DEF SrvRec
<1>17. [t EXCEPT !.s.him[o] = q, !.s.at = "text", !.out = out] = STurn(r, out)
  <2>1. PICK t1 : t1 = [t EXCEPT !.s.him[o] = q]
    OBVIOUS
  <2>2. t1 = STurn(s1, none)
    BY <1>2, <1>13, <2>1, STurnWith
  <2>3. PICK t2 : t2 = [t1 EXCEPT !.s.at = "text"]
    OBVIOUS
  <2>4. t2 = STurn(r, none)
    BY <1>14, <1>15, <2>2, <2>3, STurnWith
  <2>5. [t2 EXCEPT !.out = out] = STurn(r, out)
    BY <1>16, <2>4, STurnWith
  <2>6. [t EXCEPT !.s.him[o] = q, !.s.at = "text", !.out = out] = [t2 EXCEPT !.out = out]
    BY <2>1, <2>3
  <2> QED BY <2>5, <2>6
<1> QED BY <1>1, <1>2, <1>11, <1>12, <1>16, <1>17

\* A command about an option of the server.
LEMMA UsIs ==
  ASSUME NEW s \in SrvRec, s.cmd \in {"DO", "DONT"}, NEW o \in Options
  PROVE  \E r, out : /\ ReadOption(STurn(s, <<>>), o) = STurn(r, out) /\ r \in SrvRec /\ r.at = "text"
                     /\ r.got = s.got /\ DownTalk(out)
                     /\ o # "ECHO" => Silent(out) /\ r.us["ECHO"] = s.us["ECHO"]
                     /\ o = "ECHO" /\ s.cmd = "DO" /\ s.us[o] = "wantyes" => Silent(out) /\ r.us[o] = "yes"
                     /\ o = "ECHO" /\ s.us[o] = "wantno" => Silent(out) /\ r.us[o] = "no"
<1>1. PICK none : none = <<>>
  OBVIOUS
<1>2. PICK t : t = STurn(s, none)
  OBVIOUS
<1>3. t.s = s /\ t.out = none
  BY <1>2, STurnWith
<1>4. PICK on \in BOOLEAN : on = (s.cmd \in {"WILL", "DO"})
  <2>1. (s.cmd \in {"WILL", "DO"}) \in BOOLEAN
    OBVIOUS
  <2> QED BY <2>1, Zenon
<1>5. s.us[o] \in QStates /\ s.us \in [Options -> QStates]
  BY DEF SrvRec
<1>6. PICK on2 \in BOOLEAN : on2 = (on /\ (s.us[o] # "no" \/ o \in Offers))
  <2>1. (on /\ (s.us[o] # "no" \/ o \in Offers)) \in BOOLEAN
    OBVIOUS
  <2> QED BY <2>1, Zenon
<1>7. PICK q \in QStates : q = QNext(s.us[o], on2)
  BY <1>5, QIs
<1>8. PICK reply : reply = CASE QReply(s.us[o], on2) -> Nego(IF on2 THEN "WILL" ELSE "WONT", o)
                             [] on /\ ~on2 -> Nego("WONT", o)
                             [] OTHER -> none
  OBVIOUS
<1>9. DownTalk(reply) /\ reply \in Seq(Bytes) /\ (o # "ECHO" => Silent(reply))
  <2>1. reply \in {none, Nego("WILL", o), Nego("WONT", o)}
    BY <1>8
  <2>2. "WILL" \in Verbs /\ "WONT" \in Verbs
    BY DEF Verbs
  <2> QED BY <1>1, <2>1, <2>2, NegoTalks, UpSilence DEF DownTalk
<1>10. /\ s.us[o] = "wantyes" /\ s.cmd = "DO" => reply = none /\ q = "yes"
       /\ s.us[o] = "wantno" => reply = none /\ q = "no"
  <2>1. s.us[o] \in {"wantyes", "wantno"} => ~QReply(s.us[o], on2)
    BY <1>5, QIs
  <2>2. s.us[o] \in {"wantyes", "wantno"} => (on2 <=> on)
    BY <1>6
  <2>3. s.us[o] \in {"wantyes", "wantno"} => reply = none
    BY <1>8, <2>1, <2>2
  <2>4. s.us[o] = "wantyes" /\ s.cmd = "DO" => q = "yes"
    BY <1>4, <1>5, <1>6, <1>7, QIs
  <2>5. s.us[o] = "wantno" => q = "no"
    BY <1>5, <1>7, QIs
  <2> QED BY <2>3, <2>4, <2>5
<1>11. ReadOption(t, o) = [t EXCEPT !.s.us[o] = q, !.s.at = "text", !.out = reply]
  <2>1. none \o reply = reply
    BY <1>1, <1>9, ConcatEmptySeq
  <2>2. s.cmd \notin {"WILL", "WONT"}
    OBVIOUS
  <2>3. ReadOption(t, o) = [t EXCEPT !.s.us[o] = q, !.s.at = "text", !.out = none \o reply]
    BY <1>1, <1>3, <1>4, <1>6, <1>7, <1>8, <2>2 DEF ReadOption
  <2> QED BY <2>1, <2>3
<1>12. PICK s1 : s1 = [s EXCEPT !.us[o] = q]
  OBVIOUS
<1>13. s1 \in SrvRec /\ s1.got = s.got /\ s1.us[o] = q /\ (o # "ECHO" => s1.us["ECHO"] = s.us["ECHO"])
  BY <1>12 DEF SrvRec, Options
<1>14. PICK r : r = [s1 EXCEPT !.at = "text"]
  OBVIOUS
<1>15. r \in SrvRec /\ r.at = "text" /\ r.got = s1.got /\ r.us = s1.us
  BY <1>13, <1>14 DEF SrvRec
<1>16. [t EXCEPT !.s.us[o] = q, !.s.at = "text", !.out = reply] = STurn(r, reply)
  <2>1. PICK t1 : t1 = [t EXCEPT !.s.us[o] = q]
    OBVIOUS
  <2>2. t1 = STurn(s1, none)
    BY <1>2, <1>12, <2>1, STurnWith
  <2>3. PICK t2 : t2 = [t1 EXCEPT !.s.at = "text"]
    OBVIOUS
  <2>4. t2 = STurn(r, none)
    BY <1>13, <1>14, <2>2, <2>3, STurnWith
  <2>5. [t2 EXCEPT !.out = reply] = STurn(r, reply)
    BY <1>15, <2>4, STurnWith
  <2>6. [t EXCEPT !.s.us[o] = q, !.s.at = "text", !.out = reply] = [t2 EXCEPT !.out = reply]
    BY <2>1, <2>3
  <2> QED BY <2>5, <2>6
<1> QED BY <1>1, <1>2, <1>9, <1>10, <1>11, <1>13, <1>15, <1>16, UpSilence

\* What the server does with a byte that leads its reader to label z.
ServedTo(s, b, z, r, out) ==
  /\ r \in SrvRec /\ (r.at = "opt" => r.cmd \in Verbs) /\ z = At(Stands(r), Len(r.got))
  /\ r.got = s.got \/ (r.got = s.got \o <<b>> /\ b = Types[Len(s.got) + 1])
  /\ DownTalk(out)
  /\ b # "ECHO" => r.us["ECHO"] = s.us["ECHO"] /\ Silent(out)
  /\ b = "ECHO" /\ Stands(s) = "DO" /\ s.us["ECHO"] = "wantyes" => r.us["ECHO"] = "yes" /\ Silent(out)
  /\ b = "ECHO" /\ Stands(s) = "DONT" /\ s.us["ECHO"] = "wantno" => r.us["ECHO"] = "no" /\ Silent(out)

LEMMA ServerOption ==
  ASSUME NEW s \in SrvRec, s.at = "opt", s.cmd \in Verbs, NEW b \in Options
  PROVE  \E r, out : /\ ReadByte(STurn(s, <<>>), b) = STurn(r, out)
                     /\ ServedTo(s, b, At("text", Len(s.got)), r, out)
<1>1. ReadByte(STurn(s, <<>>), b) = ReadOption(STurn(s, <<>>), b)
  <2>1. PICK t : t = STurn(s, <<>>)
    OBVIOUS
  <2>2. t.s.at = "opt"
    BY <2>1, STurnWith
  <2>3. ReadByte(t, b) = ReadOption(t, b)
    BY <2>2 DEF ReadByte
  <2> QED BY <2>1, <2>3
<1>2. Stands(s) = s.cmd
  BY DEF Stands
<1>3. CASE s.cmd \in {"WILL", "WONT"}
  <2>1. PICK r, out : /\ ReadOption(STurn(s, <<>>), b) = STurn(r, out) /\ r \in SrvRec /\ r.at = "text"
                      /\ r.got = s.got /\ r.us = s.us /\ DownTalk(out) /\ (b # "ECHO" => Silent(out))
    BY <1>3, HimIs
  <2>2. Stands(r) = "text"
    BY <2>1 DEF Stands
  <2>3. ServedTo(s, b, At("text", Len(s.got)), r, out)
    BY <1>2, <1>3, <2>1, <2>2 DEF ServedTo
  <2> QED BY <1>1, <2>1, <2>3
<1>4. CASE s.cmd \in {"DO", "DONT"}
  <2>1. PICK r, out : /\ ReadOption(STurn(s, <<>>), b) = STurn(r, out) /\ r \in SrvRec /\ r.at = "text"
                      /\ r.got = s.got /\ DownTalk(out)
                      /\ b # "ECHO" => Silent(out) /\ r.us["ECHO"] = s.us["ECHO"]
                      /\ b = "ECHO" /\ s.cmd = "DO" /\ s.us[b] = "wantyes" => Silent(out) /\ r.us[b] = "yes"
                      /\ b = "ECHO" /\ s.us[b] = "wantno" => Silent(out) /\ r.us[b] = "no"
    BY <1>4, UsIs
  <2>2. Stands(r) = "text"
    BY <2>1 DEF Stands
  <2>3. ServedTo(s, b, At("text", Len(s.got)), r, out)
    BY <1>2, <2>1, <2>2 DEF ServedTo
  <2> QED BY <1>1, <2>1, <2>3
<1> QED BY <1>3, <1>4 DEF Verbs

\* A byte that is not an option: nothing is answered.
LEMMA ServerMoves ==
  ASSUME NEW s \in SrvRec, NEW b
  PROVE  /\ s.at = "text" /\ b = "IAC" => ReadByte(STurn(s, <<>>), b) = STurn([s EXCEPT !.at = "cmd"], <<>>)
         /\ s.at = "text" /\ b # "IAC" => ReadByte(STurn(s, <<>>), b) = STurn([s EXCEPT !.got = Append(s.got, b)], <<>>)
         /\ s.at = "cmd" /\ b = "IAC" =>
              ReadByte(STurn(s, <<>>), b) = STurn([s EXCEPT !.at = "text", !.got = Append(s.got, b)], <<>>)
         /\ s.at = "cmd" /\ b = "SB" => ReadByte(STurn(s, <<>>), b) = STurn([s EXCEPT !.at = "sub"], <<>>)
         /\ s.at = "cmd" /\ b \in Verbs =>
              ReadByte(STurn(s, <<>>), b) = STurn([s EXCEPT !.at = "opt", !.cmd = b], <<>>)
         /\ s.at = "sub" /\ b = "IAC" => ReadByte(STurn(s, <<>>), b) = STurn([s EXCEPT !.at = "subcmd"], <<>>)
         /\ s.at = "sub" /\ b # "IAC" => ReadByte(STurn(s, <<>>), b) = STurn([s EXCEPT !.buf = Append(s.buf, b)], <<>>)
         /\ s.at = "subcmd" /\ b = "SE" => ReadByte(STurn(s, <<>>), b) = STurn(ReadSubNego(s), <<>>)
         /\ s.at = "subcmd" /\ b # "SE" =>
              ReadByte(STurn(s, <<>>), b) = STurn([s EXCEPT !.at = "sub", !.buf = Append(s.buf, b)], <<>>)
<1>1. PICK none : none = <<>>
  OBVIOUS
<1>2. PICK t : t = STurn(s, none)
  OBVIOUS
<1>3. t.s = s
  BY <1>2, STurnWith
<1>4. /\ \A v : [t EXCEPT !.s.at = v] = STurn([s EXCEPT !.at = v], none)
      /\ \A v : [t EXCEPT !.s.got = v] = STurn([s EXCEPT !.got = v], none)
      /\ \A v : [t EXCEPT !.s.buf = v] = STurn([s EXCEPT !.buf = v], none)
      /\ \A v : [t EXCEPT !.s = v] = STurn(v, none)
  BY <1>2, STurnWith
<1>5. ASSUME NEW p \in {"text", "opt", "sub"}
      PROVE  /\ \A v : [t EXCEPT !.s.at = p, !.s.got = v] = STurn([s EXCEPT !.at = p, !.got = v], none)
             /\ \A v : [t EXCEPT !.s.at = p, !.s.buf = v] = STurn([s EXCEPT !.at = p, !.buf = v], none)
             /\ \A v : [t EXCEPT !.s.at = p, !.s.cmd = v] = STurn([s EXCEPT !.at = p, !.cmd = v], none)
  <2>1. PICK s1 : s1 = [s EXCEPT !.at = p]
    OBVIOUS
  <2>2. s1 \in SrvRec
    BY <2>1 DEF SrvRec
  <2>3. PICK t1 : t1 = [t EXCEPT !.s.at = p]
    OBVIOUS
  <2>4. t1 = STurn(s1, none)
    BY <1>4, <2>1, <2>3
  <2>5. /\ \A v : [t1 EXCEPT !.s.got = v] = STurn([s1 EXCEPT !.got = v], none)
        /\ \A v : [t1 EXCEPT !.s.buf = v] = STurn([s1 EXCEPT !.buf = v], none)
        /\ \A v : [t1 EXCEPT !.s.cmd = v] = STurn([s1 EXCEPT !.cmd = v], none)
    BY <2>2, <2>4, STurnWith
  <2>6. ASSUME NEW v PROVE [t EXCEPT !.s.at = p, !.s.got = v] = STurn([s EXCEPT !.at = p, !.got = v], none)
    <3>1. [t EXCEPT !.s.at = p, !.s.got = v] = [t1 EXCEPT !.s.got = v]
      BY <2>3
    <3>2. [s EXCEPT !.at = p, !.got = v] = [s1 EXCEPT !.got = v]
      BY <2>1
    <3> QED BY <2>5, <3>1, <3>2
  <2>7. ASSUME NEW v PROVE [t EXCEPT !.s.at = p, !.s.buf = v] = STurn([s EXCEPT !.at = p, !.buf = v], none)
    <3>1. [t EXCEPT !.s.at = p, !.s.buf = v] = [t1 EXCEPT !.s.buf = v]
      BY <2>3
    <3>2. [s EXCEPT !.at = p, !.buf = v] = [s1 EXCEPT !.buf = v]
      BY <2>1
    <3> QED BY <2>5, <3>1, <3>2
  <2>8. ASSUME NEW v PROVE [t EXCEPT !.s.at = p, !.s.cmd = v] = STurn([s EXCEPT !.at = p, !.cmd = v], none)
    <3>1. [t EXCEPT !.s.at = p, !.s.cmd = v] = [t1 EXCEPT !.s.cmd = v]
      BY <2>3
    <3>2. [s EXCEPT !.at = p, !.cmd = v] = [s1 EXCEPT !.cmd = v]
      BY <2>1
    <3> QED BY <2>5, <3>1, <3>2
  <2> QED BY <2>6, <2>7, <2>8
<1>6. ASSUME s.at = "text"
      PROVE  /\ b = "IAC" => ReadByte(t, b) = [t EXCEPT !.s.at = "cmd"]
             /\ b # "IAC" => ReadByte(t, b) = [t EXCEPT !.s.got = Append(s.got, b)]
  BY <1>3, <1>6 DEF ReadByte
<1>7. ASSUME s.at = "cmd"
      PROVE  /\ b = "IAC" => ReadByte(t, b) = [t EXCEPT !.s.at = "text", !.s.got = Append(s.got, b)]
             /\ b = "SB" => ReadByte(t, b) = [t EXCEPT !.s.at = "sub"]
             /\ b \in Verbs => ReadByte(t, b) = [t EXCEPT !.s.at = "opt", !.s.cmd = b]
  <2>1. b \in Verbs => b # "IAC" /\ b # "SB"
    BY DEF Verbs
  <2>2. CASE b = "IAC"
    BY <1>3, <1>7, <2>1, <2>2 DEF ReadByte
  <2>3. CASE b = "SB"
    BY <1>3, <1>7, <2>1, <2>3 DEF ReadByte
  <2>4. CASE b \in Verbs
    BY <1>3, <1>7, <2>1, <2>4 DEF ReadByte
  <2> QED BY <2>2, <2>3, <2>4
<1>8. ASSUME s.at = "sub"
      PROVE  /\ b = "IAC" => ReadByte(t, b) = [t EXCEPT !.s.at = "subcmd"]
             /\ b # "IAC" => ReadByte(t, b) = [t EXCEPT !.s.buf = Append(s.buf, b)]
  BY <1>3, <1>8 DEF ReadByte
<1>9. ASSUME s.at = "subcmd"
      PROVE  /\ b = "SE" => ReadByte(t, b) = [t EXCEPT !.s = ReadSubNego(s)]
             /\ b # "SE" => ReadByte(t, b) = [t EXCEPT !.s.at = "sub", !.s.buf = Append(s.buf, b)]
  BY <1>3, <1>9 DEF ReadByte
<1>10. /\ s.at = "text" /\ b = "IAC" => ReadByte(t, b) = STurn([s EXCEPT !.at = "cmd"], none)
       /\ s.at = "text" /\ b # "IAC" => ReadByte(t, b) = STurn([s EXCEPT !.got = Append(s.got, b)], none)
       /\ s.at = "sub" /\ b = "IAC" => ReadByte(t, b) = STurn([s EXCEPT !.at = "subcmd"], none)
       /\ s.at = "sub" /\ b # "IAC" => ReadByte(t, b) = STurn([s EXCEPT !.buf = Append(s.buf, b)], none)
  BY <1>4, <1>6, <1>8
<1>11. /\ s.at = "cmd" /\ b = "IAC" => ReadByte(t, b) = STurn([s EXCEPT !.at = "text", !.got = Append(s.got, b)], none)
       /\ s.at = "cmd" /\ b = "SB" => ReadByte(t, b) = STurn([s EXCEPT !.at = "sub"], none)
       /\ s.at = "cmd" /\ b \in Verbs => ReadByte(t, b) = STurn([s EXCEPT !.at = "opt", !.cmd = b], none)
  BY <1>4, <1>5, <1>7
<1>12. /\ s.at = "subcmd" /\ b = "SE" => ReadByte(t, b) = STurn(ReadSubNego(s), none)
       /\ s.at = "subcmd" /\ b # "SE" => ReadByte(t, b) = STurn([s EXCEPT !.at = "sub", !.buf = Append(s.buf, b)], none)
  BY <1>4, <1>5, <1>9
<1> QED BY <1>1, <1>2, <1>10, <1>11, <1>12, Zenon

LEMMA SubNegoRead ==
  ASSUME NEW s \in SrvRec
  PROVE  /\ ReadSubNego(s) \in SrvRec /\ ReadSubNego(s).at = "text" /\ ReadSubNego(s).got = s.got
         /\ ReadSubNego(s).us = s.us
<1>1. PICK size \in Sizes \cup {"unset"} :
        size = IF Len(s.buf) = 2 /\ s.buf[1] = "NAWS" /\ s.buf[2] \in Sizes THEN s.buf[2] ELSE s.size
  BY DEF SrvRec
<1>2. PICK type \in BOOLEAN : type = (s.type \/ s.buf = <<"TTYPE", "IS", "XTERM">>)
  <2>1. (s.type \/ s.buf = <<"TTYPE", "IS", "XTERM">>) \in BOOLEAN
    OBVIOUS
  <2> QED BY <2>1, Zenon
<1>3. PICK none \in Seq(Bytes) : none = <<>>
  <2>1. <<>> \in Seq(Bytes)
    OBVIOUS
  <2> QED BY <2>1, Zenon
<1>4. ReadSubNego(s) = [s EXCEPT !.at = "text", !.buf = none, !.size = size, !.type = type]
  <2>1. ReadSubNego(s) = [s EXCEPT !.at = "text", !.buf = none,
          !.size = IF Len(s.buf) = 2 /\ s.buf[1] = "NAWS" /\ s.buf[2] \in Sizes THEN s.buf[2] ELSE s.size,
          !.type = (s.type \/ s.buf = <<"TTYPE", "IS", "XTERM">>)]
    BY <1>3, Zenon DEF ReadSubNego
  <2> QED BY <1>1, <1>2, <2>1, Zenon
<1> QED BY <1>4 DEF SrvRec

\* A step of the server that answers nothing.
LEMMA ServedMove ==
  ASSUME NEW s \in SrvRec, NEW b \in Bytes, b # "ECHO", NEW r \in SrvRec, r.at = "opt" => r.cmd \in Verbs,
         r.us = s.us, ReadByte(STurn(s, <<>>), b) = STurn(r, <<>>), NEW z, z = At(Stands(r), Len(r.got)),
         r.got = s.got \/ (r.got = s.got \o <<b>> /\ b = Types[Len(s.got) + 1])
  PROVE  \E f, out : ReadByte(STurn(s, <<>>), b) = STurn(f, out) /\ ServedTo(s, b, z, f, out)
<1>1. ServedTo(s, b, z, r, <<>>)
  BY UpSilence DEF ServedTo
<1> QED BY <1>1

LEMMA ServerText ==
  ASSUME NEW s \in SrvRec, NEW n \in 0 .. 3, n = Len(s.got), s.at \in {"text", "cmd"}, NEW b \in Bytes,
         (b = "IAC") <=> (s.at = "cmd"), NEW z \in Label, Text(Types, At(s.at, n), b, z)
  PROVE  \E r, out : ReadByte(STurn(s, <<>>), b) = STurn(r, out) /\ ServedTo(s, b, z, r, out)
<1>1. b = Types[n + 1] /\ z = At("text", n + 1)
  BY DEF Text, At
<1>2. n + 1 \in 1 .. 3
  <2>1. z.n = n + 1
    BY <1>1, Labels, PlaceNames
  <2> QED BY <2>1 DEF Label
<1>3. b # "ECHO"
  BY <1>1, <1>2, Texts
<1>4. PICK g \in Seq(Bytes) : g = Append(s.got, b) /\ g = s.got \o <<b>> /\ Len(g) = n + 1
  <2>1. s.got \in Seq(Bytes)
    BY DEF SrvRec
  <2>2. PICK g : g = Append(s.got, b)
    OBVIOUS
  <2>3. g \in Seq(Bytes) /\ Len(g) = Len(s.got) + 1
    BY <2>1, <2>2, AppendProperties
  <2>4. g = s.got \o <<b>>
    BY <2>1, <2>2, AppendIsConcat, Zenon
  <2> QED BY <2>2, <2>3, <2>4
<1>5. PICK r : r = IF s.at = "text" THEN [s EXCEPT !.got = g] ELSE [s EXCEPT !.at = "text", !.got = g]
  OBVIOUS
<1>6. r \in SrvRec /\ r.at = "text" /\ r.got = g /\ r.us = s.us
  <2>1. CASE s.at = "text"
    BY <1>5, <2>1 DEF SrvRec
  <2>2. CASE s.at = "cmd"
    BY <1>5, <2>2 DEF SrvRec
  <2> QED BY <2>1, <2>2
<1>7. ReadByte(STurn(s, <<>>), b) = STurn(r, <<>>)
  <2>1. CASE s.at = "text"
    <3>1. r = [s EXCEPT !.got = Append(s.got, b)] /\ b # "IAC"
      BY <1>4, <1>5, <2>1
    <3>2. ReadByte(STurn(s, <<>>), b) = STurn([s EXCEPT !.got = Append(s.got, b)], <<>>)
      BY <2>1, <3>1, ServerMoves
    <3> QED BY <3>1, <3>2, Zenon
  <2>2. CASE s.at = "cmd"
    <3>1. r = [s EXCEPT !.at = "text", !.got = Append(s.got, b)] /\ b = "IAC"
      BY <1>4, <1>5, <2>2
    <3>2. ReadByte(STurn(s, <<>>), b) = STurn([s EXCEPT !.at = "text", !.got = Append(s.got, b)], <<>>)
      BY <2>2, <3>1, ServerMoves
    <3> QED BY <3>1, <3>2, Zenon
  <2> QED BY <2>1, <2>2
<1>8. z = At(Stands(r), Len(r.got))
  BY <1>1, <1>4, <1>6 DEF Stands
<1> QED BY <1>1, <1>3, <1>4, <1>6, <1>7, <1>8, ServedMove

LEMMA ServerCmd ==
  ASSUME NEW s \in SrvRec, s.at = "cmd", NEW b \in Bytes, NEW z,
         (b \in Verbs /\ z = At(b, Len(s.got))) \/ (b = "SB" /\ z = At("sub", Len(s.got)))
  PROVE  \E r, out : ReadByte(STurn(s, <<>>), b) = STurn(r, out) /\ ServedTo(s, b, z, r, out)
<1>1. CASE b \in Verbs /\ z = At(b, Len(s.got))
  <2>1. PICK r : r = [s EXCEPT !.at = "opt", !.cmd = b]
    OBVIOUS
  <2>2. r \in SrvRec /\ r.at = "opt" /\ r.cmd = b /\ r.got = s.got /\ r.us = s.us
    BY <1>1, <2>1 DEF SrvRec
  <2>3. ReadByte(STurn(s, <<>>), b) = STurn(r, <<>>)
    BY <1>1, <2>1, ServerMoves
  <2>4. b # "ECHO" /\ Stands(r) = b
    BY <1>1, <2>2 DEF Verbs, Stands
  <2> QED BY <1>1, <2>2, <2>3, <2>4, ServedMove
<1>2. CASE b = "SB" /\ z = At("sub", Len(s.got))
  <2>1. PICK r : r = [s EXCEPT !.at = "sub"]
    OBVIOUS
  <2>2. r \in SrvRec /\ r.at = "sub" /\ r.got = s.got /\ r.us = s.us
    BY <2>1 DEF SrvRec
  <2>3. ReadByte(STurn(s, <<>>), b) = STurn(r, <<>>)
    BY <1>2, <2>1, ServerMoves
  <2>4. b # "ECHO" /\ Stands(r) = "sub"
    BY <1>2, <2>2 DEF Stands
  <2> QED BY <1>2, <2>2, <2>3, <2>4, ServedMove
<1> QED BY <1>1, <1>2

LEMMA ServerIntroduced ==
  ASSUME NEW s \in SrvRec, NEW z, NEW p, NEW b \in Bytes, b = "IAC",
         (s.at = "text" /\ p = "cmd") \/ (s.at = "sub" /\ p = "subcmd"), z = At(p, Len(s.got))
  PROVE  \E r, out : ReadByte(STurn(s, <<>>), b) = STurn(r, out) /\ ServedTo(s, b, z, r, out)
<1>1. PICK r : r = [s EXCEPT !.at = p]
  OBVIOUS
<1>2. p \in {"cmd", "subcmd"}
  OBVIOUS
<1>3. r \in SrvRec /\ r.at = p /\ r.got = s.got /\ r.us = s.us
  BY <1>1, <1>2 DEF SrvRec
<1>4. ReadByte(STurn(s, <<>>), b) = STurn(r, <<>>)
  BY <1>1, ServerMoves
<1>5. Stands(r) = p /\ b # "ECHO" /\ r.at # "opt"
  BY <1>2, <1>3 DEF Stands
<1> QED BY <1>3, <1>4, <1>5, ServedMove

LEMMA ServerSub ==
  ASSUME NEW s \in SrvRec, NEW b \in Bytes, b # "ECHO", NEW z,
         \/ s.at = "sub" /\ b # "IAC" /\ z = At("sub", Len(s.got))
         \/ s.at = "subcmd" /\ b = "IAC" /\ z = At("sub", Len(s.got))
         \/ s.at = "subcmd" /\ b = "SE" /\ z = At("text", Len(s.got))
  PROVE  \E r, out : ReadByte(STurn(s, <<>>), b) = STurn(r, out) /\ ServedTo(s, b, z, r, out)
<1>1. PICK g \in Seq(Bytes) : g = Append(s.buf, b)
  <2>1. s.buf \in Seq(Bytes)
    BY DEF SrvRec
  <2> QED BY <2>1, AppendProperties
<1>2. CASE s.at = "sub" /\ b # "IAC" /\ z = At("sub", Len(s.got))
  <2>1. PICK r : r = [s EXCEPT !.buf = g]
    OBVIOUS
  <2>2. r \in SrvRec /\ r.at = "sub" /\ r.got = s.got /\ r.us = s.us
    BY <1>2, <2>1 DEF SrvRec
  <2>3. ReadByte(STurn(s, <<>>), b) = STurn(r, <<>>)
    BY <1>1, <1>2, <2>1, ServerMoves
  <2>4. Stands(r) = "sub"
    BY <2>2 DEF Stands
  <2> QED BY <1>2, <2>2, <2>3, <2>4, ServedMove
<1>3. CASE s.at = "subcmd" /\ b = "IAC" /\ z = At("sub", Len(s.got))
  <2>1. PICK r : r = [s EXCEPT !.at = "sub", !.buf = g]
    OBVIOUS
  <2>2. r \in SrvRec /\ r.at = "sub" /\ r.got = s.got /\ r.us = s.us
    BY <2>1 DEF SrvRec
  <2>3. ReadByte(STurn(s, <<>>), b) = STurn(r, <<>>)
    BY <1>1, <1>3, <2>1, ServerMoves
  <2>4. Stands(r) = "sub"
    BY <2>2 DEF Stands
  <2> QED BY <1>3, <2>2, <2>3, <2>4, ServedMove
<1>4. CASE s.at = "subcmd" /\ b = "SE" /\ z = At("text", Len(s.got))
  <2>1. PICK r : r = ReadSubNego(s)
    OBVIOUS
  <2>2. r \in SrvRec /\ r.at = "text" /\ r.got = s.got /\ r.us = s.us
    BY <2>1, SubNegoRead
  <2>3. ReadByte(STurn(s, <<>>), b) = STurn(r, <<>>)
    BY <1>4, <2>1, ServerMoves
  <2>4. Stands(r) = "text"
    BY <2>2 DEF Stands
  <2> QED BY <1>4, <2>2, <2>3, <2>4, ServedMove
<1> QED BY <1>2, <1>3, <1>4

\* Every byte of a run that leads from where the server stands.
LEMMA ServeStep ==
  ASSUME NEW s \in SrvRec, s.at = "opt" => s.cmd \in Verbs, NEW n \in 0 .. 3, n = Len(s.got),
         NEW b \in Bytes, NEW z \in Label, UpMoves(At(Stands(s), n), b, z)
  PROVE  \E r, out : ReadByte(STurn(s, <<>>), b) = STurn(r, out) /\ ServedTo(s, b, z, r, out)
<1> DEFINE x == At(Stands(s), n)
<1>1. x.at = Stands(s) /\ x.n = n
  BY DEF At
<1>2. Stands(s) = (IF s.at = "opt" THEN s.cmd ELSE s.at)
  BY DEF Stands
<1>3. x.at \in Verbs <=> s.at = "opt"
  <2>1. s.at # "opt" => s.at \in {"text", "cmd", "sub", "subcmd"}
    BY DEF SrvRec
  <2> QED BY <1>1, <1>2, <2>1, PlaceNames
<1> HIDE DEF x
<1>4. UpMoves(x, b, z)
  BY DEF x
<1>5. CASE s.at = "text"
  <2>1. x.at = "text" /\ x.at \notin Verbs
    BY <1>1, <1>2, <1>3, <1>5
  <2>2. (b = "IAC" /\ z = At("cmd", n)) \/ (b # "IAC" /\ Text(Types, x, b, z))
    BY <1>1, <1>4, <2>1 DEF UpMoves, Moves
  <2>3. CASE b = "IAC" /\ z = At("cmd", n)
    BY <1>5, <2>3, ServerIntroduced
  <2>4. CASE b # "IAC" /\ Text(Types, x, b, z)
    <3>1. x = At(s.at, n) /\ ((b = "IAC") <=> (s.at = "cmd"))
      BY <1>2, <1>5, <2>4 DEF x
    <3> QED BY <1>5, <2>4, <3>1, ServerText
  <2> QED BY <2>2, <2>3, <2>4
<1>6. CASE s.at = "cmd"
  <2>1. x.at = "cmd" /\ x.at \notin Verbs
    BY <1>1, <1>2, <1>3, <1>6
  <2>2. \/ b = "IAC" /\ Text(Types, x, b, z)
        \/ b \in Verbs /\ z = At(b, n)
        \/ b = "SB" /\ z = At("sub", n)
    BY <1>1, <1>4, <2>1 DEF UpMoves, Moves
  <2>3. CASE b = "IAC" /\ Text(Types, x, b, z)
    <3>1. x = At(s.at, n) /\ ((b = "IAC") <=> (s.at = "cmd"))
      BY <1>2, <1>6, <2>3 DEF x
    <3> QED BY <1>6, <2>3, <3>1, ServerText
  <2>4. CASE (b \in Verbs /\ z = At(b, n)) \/ (b = "SB" /\ z = At("sub", n))
    BY <1>6, <2>4, ServerCmd
  <2> QED BY <2>2, <2>3, <2>4
<1>7. CASE s.at = "opt"
  <2>1. x.at \in Verbs /\ x.at \notin {"text", "cmd", "sub", "type", "subcmd"}
    BY <1>1, <1>3, <1>7, PlaceNames
  <2>2. b \in Options /\ z = At("text", n)
    BY <1>1, <1>4, <2>1 DEF UpMoves, Moves
  <2> QED BY <1>7, <2>2, ServerOption
<1>8. CASE s.at = "sub"
  <2>1. x.at = "sub" /\ x.at \notin Verbs
    BY <1>1, <1>2, <1>3, <1>8
  <2>2. (b = "IAC" /\ z = At("subcmd", n)) \/ (b \notin {"IAC", "ECHO"} /\ z = At("sub", n))
    BY <1>1, <1>4, <2>1 DEF UpMoves, Moves
  <2>3. CASE b = "IAC" /\ z = At("subcmd", n)
    BY <1>8, <2>3, ServerIntroduced
  <2>4. CASE b \notin {"IAC", "ECHO"} /\ z = At("sub", n)
    BY <1>8, <2>4, ServerSub
  <2> QED BY <2>2, <2>3, <2>4
<1>9. CASE s.at = "subcmd"
  <2>1. x.at = "subcmd" /\ x.at \notin Verbs
    BY <1>1, <1>2, <1>3, <1>9
  <2>2. (b = "SE" /\ z = At("text", n)) \/ (b = "IAC" /\ z = At("sub", n))
    BY <1>1, <1>4, <2>1 DEF UpMoves, Moves
  <2>3. b # "ECHO"
    BY <2>2
  <2> QED BY <1>9, <2>2, <2>3, ServerSub
<1> QED BY <1>5, <1>6, <1>7, <1>8, <1>9 DEF SrvRec

LEMMA EchoServed ==
  ASSUME NEW c \in SrvRec, NEW s \in Seq(Bytes), s # <<>>, NEW u \in Seq(Bytes), NEW held,
         NEW z, NEW y, NEW d, NEW out, NEW X, NEW verb,
         <<At(Stands(c), Len(c.got)), Head(s), z>> \in UpRel, Runs(UpRel, X, Tail(s), z, y),
         ServedTo(c, Head(s), z, d, out)
  PROVE  EchoStep(s, u, held, out, Stands(c), Stands(d), d.us["ECHO"] = c.us["ECHO"], verb)
<1>1. Tail(s) \in Seq(Bytes) /\ out \in Seq(Bytes)
  BY DEF ServedTo, DownTalk
<1>2. At(Stands(c), Len(c.got)).at = Stands(c) /\ z.at = Stands(d)
  BY DEF At, ServedTo
<1>3. Head(s) # "ECHO" => Silent(out) /\ d.us["ECHO"] = c.us["ECHO"]
  BY DEF ServedTo
<1>4. Silent(s) => Head(s) # "ECHO" /\ Silent(Tail(s))
  BY SilentTail
<1>5. Silent(out) /\ Silent(u) => Silent(u \o out)
  BY <1>1, SilentConcat
<1>6. Silent(out) /\ Once(u, verb, held) => Once(u \o out, verb, held)
  BY <1>1, OnceThenSilent
<1>7. ASSUME Once(s, verb, Stands(c))
      PROVE  /\ Head(s) = "ECHO" => Stands(c) = verb /\ Silent(Tail(s))
             /\ Head(s) # "ECHO" => Once(Tail(s), verb, Stands(d))
  <2> DEFINE x == At(Stands(c), Len(c.got))
  <2>1. x.at = Stands(c) /\ <<x, Head(s), z>> \in UpRel
    BY <1>2
  <2> HIDE DEF x
  <2>2. Once(s, verb, x.at)
    BY <1>7, <2>1
  <2>3. /\ Head(s) = "ECHO" => x.at = verb /\ Silent(Tail(s))
        /\ Head(s) # "ECHO" => Once(Tail(s), verb, z.at)
    BY <2>1, <2>2, UpEcho, OnceRead
  <2> QED BY <1>2, <2>1, <2>3
<1> QED BY <1>3, <1>4, <1>5, <1>6, <1>7 DEF EchoStep

LEMMA ServedSoFarStep ==
  ASSUME NEW c \in SrvRec, NEW b, NEW z, NEW d, NEW out, ServedTo(c, b, z, d, out), NEW k \in 0 .. 3, z \in UpTo(k),
         c.got = SubSeq(Types, 1, Len(c.got)), Len(c.got) <= k
  PROVE  d.got = SubSeq(Types, 1, Len(d.got)) /\ Len(d.got) <= k
<1>1. d.got \in Seq(Bytes) /\ c.got \in Seq(Bytes)
  BY DEF ServedTo, SrvRec
<1>2. Len(d.got) \in 0 .. k
  <2>1. z = At(Stands(d), Len(d.got)) /\ z.n \in 0 .. k
    BY Labels DEF ServedTo
  <2> QED BY <2>1 DEF At
<1>3. CASE d.got = c.got
  BY <1>2, <1>3
<1>4. CASE d.got = c.got \o <<b>> /\ b = Types[Len(c.got) + 1]
  <2>1. PICK n \in Nat : n = Len(c.got)
    BY <1>1
  <2>2. Len(c.got \o <<b>>) = n + 1
    <3>1. <<b>> \in Seq({b}) /\ Len(<<b>>) = 1
      OBVIOUS
    <3>2. d.got \in Seq(Bytes) /\ Len(c.got \o <<b>>) = Len(c.got) + Len(<<b>>)
      <4>1. c.got \in Seq(Bytes \cup {b}) /\ <<b>> \in Seq(Bytes \cup {b})
        BY <1>1
      <4> QED BY <1>1, <4>1, ConcatProperties
    <3> QED BY <2>1, <3>1, <3>2
  <2>3. n \in 0 .. 2
    <3>1. n + 1 \in 0 .. k
      BY <1>2, <1>4, <2>2
    <3> QED BY <3>1
  <2>4. SubSeq(Types, 1, n) \o <<b>> = SubSeq(Types, 1, n + 1)
    BY <1>4, <2>1, <2>3, Prefix, Texts
  <2> QED BY <1>2, <1>4, <2>1, <2>2, <2>4
<1> QED BY <1>3, <1>4 DEF ServedTo

LEMMA ServerReadsStep ==
  ASSUME IInv, ServerReads
  PROVE  IInv'
<1>1. /\ ctl \in CtlRec /\ srv \in SrvRec /\ up \in Seq(Bytes) /\ down \in Seq(Bytes)
      /\ said \in 0 .. 3 /\ typed \in 0 .. 3 /\ up # <<>>
      /\ srv.at = "opt" => srv.cmd \in Verbs
  BY TelnetAssumption DEF IInv, Typed, ServerReads
<1>2. ~ctl.closed /\ ctl.at # "dead" /\ UnderWay /\ ("ECHO" \notin Asks => EchoState)
  BY <1>1 DEF IInv, Gone, Open
<1>3. srv.got = SubSeq(Types, 1, Len(srv.got)) /\ Len(srv.got) <= typed /\ Len(srv.got) \in 0 .. 3
  <2>1. Len(srv.got) \in Nat
    <3>1. srv.got \in Seq(Bytes)
      BY <1>1 DEF SrvRec
    <3> QED BY <3>1
  <2>2. srv.got = SubSeq(Types, 1, Len(srv.got)) /\ Len(srv.got) <= typed
    BY DEF IInv, ReadSoFar
  <2>3. PICK n \in Nat : n = Len(srv.got)
    BY <2>1
  <2>4. PICK k \in 0 .. 3 : k = typed
    BY <1>1
  <2>5. n <= k
    BY <2>2, <2>3, <2>4
  <2>6. n \in 0 .. 3
    BY <2>5
  <2> QED BY <2>2, <2>3, <2>6
<1>4. PICK b \in Bytes : b = Head(up)
  BY <1>1
<1>5. PICK rest \in Seq(Bytes) : rest = Tail(up)
  <2>1. Tail(up) \in Seq(Bytes)
    BY <1>1, HeadTailProperties
  <2> QED BY <2>1
<1>6. PICK z \in UpTo(typed) :
        <<ServerAt, b, z>> \in UpRel /\ Runs(UpRel, UpTo(typed), rest, z, At("text", typed))
  BY <1>1, <1>2, <1>4, <1>5, RunTail DEF UnderWay
<1>7. z \in Label /\ UpMoves(ServerAt, b, z)
  BY <1>6, UpRelOf
<1>8. PICK r, out : ReadByte(STurn(srv, <<>>), b) = STurn(r, out) /\ ServedTo(srv, b, z, r, out)
  BY <1>1, <1>3, <1>7, ServeStep DEF ServerAt
<1>9. r \in SrvRec /\ DownTalk(out)
  BY <1>8 DEF ServedTo
<1>10. srv' = r /\ down' = down \o out
  <2>1. STurn(r, out).s = r /\ STurn(r, out).out = out
    BY <1>9, STurnWith
  <2>2. [s |-> srv, out |-> <<>>] = STurn(srv, <<>>)
    BY DEF STurn
  <2>3. /\ srv' = ReadByte([s |-> srv, out |-> <<>>], Head(up)).s
        /\ down' = down \o ReadByte([s |-> srv, out |-> <<>>], Head(up)).out
    BY DEF ServerReads
  <2> QED BY <1>4, <1>8, <2>1, <2>2, <2>3
<1>11. /\ up' = rest
       /\ UNCHANGED <<ctl, pending, typed, resizes, said, turns, sent>>
  BY <1>5 DEF ServerReads, unchangedButServer
<1>12. (r.at = "opt" => r.cmd \in Verbs) /\ z = At(Stands(r), Len(r.got))
  BY <1>8 DEF ServedTo
<1>13. out \in Seq(Bytes) /\ down \o out \in Seq(Bytes)
  BY <1>1, <1>9 DEF DownTalk
<1>14. Typed'
  BY <1>1, <1>9, <1>10, <1>11, <1>12, <1>13 DEF IInv, Typed
<1>15. ReadSoFar'
  <2>1. r.got = SubSeq(Types, 1, Len(r.got)) /\ Len(r.got) <= typed
    BY <1>1, <1>3, <1>6, <1>8, ServedSoFarStep
  <2> QED BY <1>10, <1>11, <2>1 DEF IInv, ReadSoFar
<1>16. UnderWay'
  <2>1. Runs(UpRel, UpTo(typed), rest, At(Stands(r), Len(r.got)), At("text", typed))
    BY <1>6, <1>12
  <2>2. Runs(DownRel, UpTo(said), down \o out, BrowserAt, At("text", said))
    <3>1. Runs(DownRel, UpTo(said), down, BrowserAt, At("text", said))
      BY <1>2 DEF UnderWay
    <3>2. Runs(DownRel, UpTo(said), out, At("text", said), At("text", said))
      <4>1. said \in 0 .. said
        BY <1>1
      <4> QED BY <1>1, <1>9, <4>1 DEF DownTalk
    <3> QED BY <1>1, <1>13, <3>1, <3>2, RunConcat
  <2> QED BY <1>10, <1>11, <2>1, <2>2 DEF UnderWay, BrowserAt, ServerAt
<1>17. ASSUME "ECHO" \notin Asks PROVE EchoState'
  <2>0. EchoState
    BY <1>2, <1>17
  <2>1. ASSUME NEW verb
        PROVE  /\ Calm => Silent(rest) /\ Silent(down \o out) /\ r.us["ECHO"] = srv.us["ECHO"]
               /\ Told(verb) => Silent(rest) /\ Once(down \o out, verb, Stands(ctl)) /\ r.us["ECHO"] = srv.us["ECHO"]
               /\ Answered(verb) =>
                    \/ b # "ECHO" /\ Once(rest, verb, Stands(r)) /\ Silent(down \o out) /\ r.us["ECHO"] = srv.us["ECHO"]
                    \/ b = "ECHO" /\ Silent(rest) /\ Stands(srv) = verb
    <3>1. /\ Runs(UpRel, UpTo(typed), Tail(up), z, At("text", typed))
          /\ <<At(Stands(srv), Len(srv.got)), Head(up), z>> \in UpRel
          /\ ServedTo(srv, Head(up), z, r, out)
      BY <1>4, <1>5, <1>6, <1>8 DEF ServerAt
    <3>2. EchoStep(up, down, Stands(ctl), out, Stands(srv), Stands(r), r.us["ECHO"] = srv.us["ECHO"], verb)
      BY <1>1, <3>1, EchoServed
    <3>3. /\ Silent(up) => Silent(rest) /\ Silent(out) /\ r.us["ECHO"] = srv.us["ECHO"]
          /\ Silent(up) /\ Silent(down) => Silent(down \o out)
          /\ Silent(up) /\ Once(down, verb, Stands(ctl)) => Once(down \o out, verb, Stands(ctl))
          /\ Once(up, verb, Stands(srv)) /\ Silent(down) =>
               \/ b # "ECHO" /\ Once(rest, verb, Stands(r)) /\ Silent(down \o out) /\ r.us["ECHO"] = srv.us["ECHO"]
               \/ b = "ECHO" /\ Silent(rest) /\ Stands(srv) = verb
      BY <1>4, <1>5, <3>2 DEF EchoStep
    <3> QED BY <3>3 DEF Calm, Answered, Told
  <2>2. /\ Calm' <=> Silent(rest) /\ Silent(down \o out)
        /\ \A verb : Told(verb)' <=> Once(down \o out, verb, Stands(ctl)) /\ Silent(rest)
        /\ \A verb : Answered(verb)' <=> Silent(down \o out) /\ Once(rest, verb, Stands(r))
    BY <1>10, <1>11 DEF Calm, Told, Answered
  <2>3. /\ ctl'.echoEnabled = ctl.echoEnabled /\ ctl'.localEcho = ctl.localEcho
        /\ srv'.us["ECHO"] = r.us["ECHO"] /\ srv.us["ECHO"] \in QStates
        /\ ctl.localEcho <=> ~ctl.echoEnabled
    BY <1>1, <2>0, <1>10, <1>11 DEF EchoState, SrvRec, Options
  <2>4. CASE srv.us["ECHO"] \in {"no", "yes"}
    <3>1. Calm /\ (srv.us["ECHO"] = "no" => ~ctl.echoEnabled) /\ (srv.us["ECHO"] = "yes" => ctl.echoEnabled)
      BY <2>0, <2>4 DEF EchoState
    <3>2. r.us["ECHO"] = srv.us["ECHO"] /\ Calm'
      BY <2>1, <2>2, <3>1
    <3> QED BY <2>3, <2>4, <3>1, <3>2 DEF EchoState
  <2>5. ASSUME NEW verb, b = "ECHO", Answered(verb),
               \/ verb = "DO" /\ srv.us["ECHO"] = "wantyes"
               \/ verb = "DONT" /\ srv.us["ECHO"] = "wantno"
        PROVE  Calm' /\ r.us["ECHO"] = (IF verb = "DO" THEN "yes" ELSE "no")
    <3>1. Silent(rest) /\ Stands(srv) = verb /\ Silent(down)
      BY <2>1, <2>5 DEF Answered
    <3>2. r.us["ECHO"] = (IF verb = "DO" THEN "yes" ELSE "no") /\ Silent(out)
      BY <1>8, <2>5, <3>1 DEF ServedTo
    <3>3. Silent(down \o out)
      BY <1>1, <1>13, <3>1, <3>2, SilentConcat
    <3> QED BY <2>2, <3>1, <3>2, <3>3
  <2>6. CASE srv.us["ECHO"] = "wantyes"
    <3>1. CASE Told("WILL") /\ ~ctl.echoEnabled
      <4>1. r.us["ECHO"] = srv.us["ECHO"] /\ Told("WILL")'
        BY <2>1, <2>2, <3>1
      <4> QED BY <2>3, <2>6, <3>1, <4>1 DEF EchoState
    <3>2. CASE Answered("DO") /\ ctl.echoEnabled
      <4>1. CASE b # "ECHO"
        <5>1. r.us["ECHO"] = srv.us["ECHO"] /\ Answered("DO")'
          BY <2>1, <2>2, <3>2, <4>1
        <5> QED BY <2>3, <2>6, <3>2, <5>1 DEF EchoState
      <4>2. CASE b = "ECHO"
        <5>1. Calm' /\ r.us["ECHO"] = "yes"
          BY <2>5, <2>6, <3>2, <4>2
        <5> QED BY <2>3, <3>2, <5>1 DEF EchoState
      <4> QED BY <4>1, <4>2
    <3> QED BY <2>0, <2>6, <3>1, <3>2 DEF EchoState
  <2>7. CASE srv.us["ECHO"] = "wantno"
    <3>1. CASE Told("WONT") /\ ctl.echoEnabled
      <4>1. r.us["ECHO"] = srv.us["ECHO"] /\ Told("WONT")'
        BY <2>1, <2>2, <3>1
      <4> QED BY <2>3, <2>7, <3>1, <4>1 DEF EchoState
    <3>2. CASE Answered("DONT") /\ ~ctl.echoEnabled
      <4>1. CASE b # "ECHO"
        <5>1. r.us["ECHO"] = srv.us["ECHO"] /\ Answered("DONT")'
          BY <2>1, <2>2, <3>2, <4>1
        <5> QED BY <2>3, <2>7, <3>2, <5>1 DEF EchoState
      <4>2. CASE b = "ECHO"
        <5>1. Calm' /\ r.us["ECHO"] = "no"
          BY <2>5, <2>7, <3>2, <4>2
        <5> QED BY <2>3, <3>2, <5>1 DEF EchoState
      <4> QED BY <4>1, <4>2
    <3> QED BY <2>0, <2>7, <3>1, <3>2 DEF EchoState
  <2> QED BY <2>3, <2>4, <2>6, <2>7 DEF QStates
<1> QED BY <1>2, <1>11, <1>14, <1>15, <1>16, <1>17 DEF IInv, Open

----------------------------------------------------------------------------
(* The invariant and what it says.                                          *)

LEMMA InvInit == ASSUME Init PROVE IInv
<1>1. /\ up = <<>> /\ down = <<>> /\ said = 0 /\ typed = 0 /\ pending = FALSE /\ turns = 0 /\ resizes = 0 /\ sent = 0
      /\ ctl.at = "text" /\ ~ctl.closed /\ ctl.shown = <<>> /\ ctl.localEcho /\ ~ctl.echoEnabled
      /\ srv.at = "text" /\ srv.got = <<>> /\ srv.us["ECHO"] = "no"
  BY DEF Init, Options
<1>2. <<>> \in Seq(Bytes) /\ Len(<<>>) = 0
  OBVIOUS
<1>3. ctl \in CtlRec
  BY <1>2 DEF Init, CtlRec
<1>4. srv \in SrvRec
  <2>1. "no" \in QStates
    BY DEF QStates
  <2>2. [o \in Options |-> "no"] \in [Options -> QStates]
    BY <2>1
  <2> QED BY <1>2, <2>2 DEF Init, SrvRec
<1>5. Typed
  BY <1>1, <1>2, <1>3, <1>4, TelnetAssumption DEF Typed
<1>6. ReadSoFar
  <2>1. SubSeq(Says, 1, 0) = <<>> /\ SubSeq(Types, 1, 0) = <<>>
    BY Texts
  <2> QED BY <1>1, <1>2, <2>1 DEF ReadSoFar
<1>7. UnderWay
  <2>1. At("text", 0) \in UpTo(0)
    BY Labels, PlaceNames
  <2>2. BrowserAt = At("text", 0) /\ ServerAt = At("text", 0)
    BY <1>1, <1>2 DEF BrowserAt, ServerAt, Stands
  <2>3. Runs(DownRel, UpTo(0), <<>>, At("text", 0), At("text", 0)) /\ Runs(UpRel, UpTo(0), <<>>, At("text", 0), At("text", 0))
    BY <2>1, RunEmpty
  <2> QED BY <1>1, <2>2, <2>3 DEF UnderWay
<1>8. EchoState
  BY <1>1, UpSilence DEF EchoState, Calm
<1> QED BY <1>1, <1>5, <1>6, <1>7, <1>8 DEF IInv, Open

LEMMA InvNext ==
  ASSUME Plain, Fits, IInv, [Next]_vars
  PROVE  IInv'
<1>1. CASE Inband
  BY <1>1, InbandStep
<1>2. CASE Completed
  BY <1>2, CompletedStep
<1>3. CASE Type
  BY <1>3, TypeStep
<1>4. CASE \E d \in Sizes : Resize(d)
  BY <1>4, ResizeStep
<1>5. CASE SendText
  BY <1>5, SendTextStep
<1>6. CASE \E c \in Commands : SendCommand(c)
  BY <1>6, SendCommandStep
<1>7. CASE Begin
  BY <1>7, BeginStep
<1>8. CASE ServerReads
  BY <1>8, ServerReadsStep
<1>9. CASE UNCHANGED vars
  <2>1. UNCHANGED <<ctl, pending, up, down, srv, said, typed, turns, resizes, sent>>
    BY <1>9 DEF vars
  <2>2. Typed' /\ ReadSoFar' /\ (Gone' <=> Gone) /\ (UnderWay' <=> UnderWay)
    BY <2>1 DEF IInv, Typed, ReadSoFar, Gone, UnderWay, BrowserAt, ServerAt
  <2>3. EchoState' <=> EchoState
    BY <2>1 DEF EchoState, Calm, Told, Answered
  <2> QED BY <2>1, <2>2, <2>3 DEF IInv, Open
<1> QED BY <1>1, <1>2, <1>3, <1>4, <1>5, <1>6, <1>7, <1>8, <1>9 DEF Next

LEMMA Invariant == Plain /\ Fits => (Spec => []IInv)
<1> SUFFICES ASSUME Plain, Fits PROVE Spec => []IInv
  OBVIOUS
<1>1. Init => IInv
  BY InvInit
<1>2. IInv /\ [Next]_vars => IInv'
  BY InvNext
<1> QED BY <1>1, <1>2, PTL DEF Spec

\* Every variable has its type.
THEOREM TypeCorrect == Plain /\ Fits => (Spec => []TypeOK)
<1> SUFFICES ASSUME Plain, Fits PROVE Spec => []TypeOK
  OBVIOUS
<1>1. IInv => TypeOK
  <2> SUFFICES ASSUME IInv PROVE TypeOK
    OBVIOUS
  <2>1. ctl \in CtlRec /\ srv \in SrvRec /\ pending \in BOOLEAN
    BY DEF IInv, Typed
  <2>2. /\ ctl \in [at : {"text", "cmd", "opt", "sub", "type", "subcmd", "dead"}, cmd : Verbs \cup {""},
             exec : BOOLEAN, echoEnabled : BOOLEAN, suppressGoAhead : BOOLEAN, nawsAccepted : BOOLEAN,
             localEcho : BOOLEAN, dim : Sizes \cup {"unset"}, closed : BOOLEAN, shown : Seq(Bytes)]
    BY <2>1 DEF CtlRec
  <2>3. /\ srv.us \in [Options -> QStates] /\ srv.him \in [Options -> QStates]
        /\ srv.at \in {"text", "cmd", "opt", "sub", "subcmd"} /\ srv.cmd \in Verbs \cup {""}
        /\ srv.buf \in Seq(Bytes) /\ srv.got \in Seq(Bytes)
        /\ srv.size \in Sizes \cup {"unset"} /\ srv.type \in BOOLEAN
    BY <2>1 DEF SrvRec
  <2> QED BY <2>1, <2>2, <2>3 DEF IInv, Typed, TypeOK
<1> QED BY <1>1, Invariant, PTL

\* Whatever is negotiated, and wherever the frames cut the stream, each side reads
\* exactly the bytes the other wrote, and all of them once nothing is under way, if
\* the server sends no command the parser does not know and no size of the terminal
\* has a byte 255 (the code does not escape it).
THEOREM WrittenIsRead == Plain /\ Fits => (Spec => []BytesIntact)
<1> SUFFICES ASSUME Plain, Fits PROVE Spec => []BytesIntact
  OBVIOUS
<1>1. IInv => BytesIntact
  <2> SUFFICES ASSUME IInv PROVE BytesIntact
    OBVIOUS
  <2>0. ctl \in CtlRec /\ srv \in SrvRec
    BY DEF IInv, Typed
  <2>1. /\ ctl.shown \in Seq(Bytes) /\ srv.got \in Seq(Bytes) /\ said \in 0 .. 3 /\ typed \in 0 .. 3
        /\ ctl.shown = SubSeq(Says, 1, Len(ctl.shown)) /\ Len(ctl.shown) <= said
        /\ srv.got = SubSeq(Types, 1, Len(srv.got)) /\ Len(srv.got) <= typed
    <3>1. ctl.shown \in Seq(Bytes) /\ srv.got \in Seq(Bytes)
      BY <2>0 DEF CtlRec, SrvRec
    <3> QED BY <3>1, TelnetAssumption DEF IInv, Typed, ReadSoFar
  <2>2. ASSUME NEW s \in Seq(Bytes), Len(s) = 3, NEW k \in 0 .. 3, NEW p \in Seq(Bytes),
               p = SubSeq(s, 1, Len(p)), Len(p) <= k
        PROVE  IsPrefix(p, SubSeq(s, 1, k))
    <3>1. PICK q : q = SubSeq(s, 1, k)
      OBVIOUS
    <3>2. PICK n \in 0 .. k : n = Len(p)
      <4>1. PICK n \in Nat : n = Len(p)
        OBVIOUS
      <4>2. n <= k
        BY <2>2, <4>1
      <4> QED BY <4>1, <4>2
    <3>3. q \in Seq(Bytes) /\ Len(q) = k /\ \A i \in 1 .. k : q[i] = s[i]
      BY <2>2, <3>1, SubSeqProperties
    <3>4. p = SubSeq(s, 1, n)
      BY <2>2, <3>2
    <3>5. \A i \in 1 .. n : p[i] = s[i] /\ i \in 1 .. k
      BY <2>2, <3>2, <3>4, SubSeqProperties
    <3>6. SubSeq(q, 1, n) = p
      <4>1. PICK r : r = SubSeq(q, 1, n)
        OBVIOUS
      <4>2. r \in Seq(Bytes) /\ Len(r) = n /\ \A i \in 1 .. n : r[i] = q[i]
        BY <3>2, <3>3, <4>1, SubSeqProperties
      <4>3. \A i \in 1 .. Len(r) : r[i] = p[i]
        BY <3>3, <3>5, <4>2
      <4> QED BY <3>2, <4>1, <4>2, <4>3, SeqEqual
    <3>7. SubSeq(p, 1, n) = p
      <4>1. PICK r : r = SubSeq(p, 1, n)
        OBVIOUS
      <4>2. r \in Seq(Bytes) /\ Len(r) = n /\ \A i \in 1 .. n : r[i] = p[i]
        BY <3>2, <4>1, SubSeqProperties
      <4> QED BY <3>2, <4>1, <4>2, SeqEqual
    <3> QED BY <3>1, <3>2, <3>3, <3>6, <3>7 DEF IsPrefix
  <2>3. IsPrefix(ctl.shown, SubSeq(Says, 1, said)) /\ IsPrefix(srv.got, SubSeq(Types, 1, typed))
    BY <2>1, <2>2, Texts
  <2>4. ASSUME Rest PROVE Len(ctl.shown) = said /\ Len(srv.got) = typed
    <3>1. /\ Runs(DownRel, UpTo(said), <<>>, BrowserAt, At("text", said))
          /\ Runs(UpRel, UpTo(typed), <<>>, ServerAt, At("text", typed))
      BY <2>4 DEF Rest, IInv, Open, UnderWay
    <3>2. BrowserAt = At("text", said) /\ ServerAt = At("text", typed)
      BY <3>1, RunOfEmpty
    <3> QED BY <3>2 DEF BrowserAt, ServerAt, At
  <2> QED BY <2>3, <2>4 DEF BytesIntact
<1> QED BY <1>1, Invariant, PTL

\* Whenever nothing is under way, the browser echoes keys exactly when the server
\* does not, if the server never wants the client to echo.
THEOREM OneOfThemEchoes == Plain /\ Fits /\ "ECHO" \notin Asks => (Spec => []EchoAgrees)
<1> SUFFICES ASSUME Plain, Fits, "ECHO" \notin Asks PROVE Spec => []EchoAgrees
  OBVIOUS
<1>1. IInv => EchoAgrees
  <2> SUFFICES ASSUME IInv, Rest PROVE ctl.localEcho <=> srv.us["ECHO"] # "yes"
    BY DEF EchoAgrees
  <2>1. EchoState /\ srv.us["ECHO"] \in {"no", "yes"}
    BY DEF IInv, Open, Rest, Settled, Options
  <2> QED BY <2>1 DEF EchoState
<1> QED BY <1>1, Invariant, PTL

\* The loop that serves every session of the connection never waits for a parser
\* that has stopped to read.
THEOREM ServeNeverStuck == Plain /\ Fits => (Spec => []ServeGoesOn)
<1> SUFFICES ASSUME Plain, Fits PROVE Spec => []ServeGoesOn
  OBVIOUS
<1>1. IInv => ServeGoesOn
  BY DEF IInv, Typed, ServeGoesOn
<1> QED BY <1>1, Invariant, PTL
=============================================================================
