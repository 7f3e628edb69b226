------------------------- MODULE ConnectWizardProofs -------------------------
(***************************************************************************)
(* Proofs about ConnectWizard, for any number of slots, wizards, dials and *)
(* host keys: types, that every answer finds its question, that a host key *)
(* is accepted for a reason, that no screen locks the user in, that no     *)
(* session runs unseen, and that there is one wizard at a time.            *)
(***************************************************************************)
EXTENDS ConnectWizard, SequenceTheorems, NaturalsInduction, WellFoundedInduction, TLAPS

----------------------------------------------------------------------------
(* The invariant: the window and its lock.                                  *)

Live(w) == ses[w].at = "live"

\* It has neither an outcome nor a failure that is about to be shown.
Going(w) == Live(w) /\ ses[w].subs # <<"error">>

\* The component shows this step and waits for the user or the next one.
AtStep(w, step) == ui.w = w /\ Live(w) /\ ses[w].subs = <<>> /\ ui.cur = step

\* At most one connection is being acquired, which the lock tells; meanwhile no
\* connector is in the window or being taken down.
LockState ==
  /\ dials + got <= 1 /\ built + dials + got <= MaxSessions
  /\ lock <=> dials + got = 1
  /\ dials + got = 1 => ui.w = 0 /\ ~inputting
  /\ dials > 0 => conn = "none"
  /\ got > 0 => conn # "none"
  /\ inputting => conn # "none" /\ built # 0

\* At most one step is due, and none after the outcome. A closed wizard that is
\* not over has its failure due.
WizardState(w) ==
  /\ w > built => ses[w] = NoSession
  /\ ses[w].subs = <<>> \/ \E s \in Steps : ses[w].subs = <<s>>
  /\ ~Live(w) => ses[w].subs = <<>>
  /\ Live(w) => w = built /\ (ui.w = w \/ (ui.w = 0 /\ inputting))
  /\ Live(w) /\ ses[w].closed => ses[w].subs = <<"error">>

\* The component belongs to the newest wizard: its loop waits as long as that has
\* no outcome, and what closes the window closes the wizard.
ComponentState ==
  /\ ui.w = 0 => ui = NoUi
  /\ ui.w = 0 /\ inputting => Live(built) /\ ~ses[built].closed /\ ses[built].subs # <<>>
  /\ ui.w # 0 =>
       /\ ui.w = built
       /\ Live(built) => ui.loop = "waiting" /\ ~ui.disabled /\ ui.cur \notin Outcomes
       /\ ~Live(built) =>
            /\ ui.loop = "ended" /\ ses[built].closed
            /\ ui.cur \in Outcomes /\ ~ui.submitting /\ ~ui.working /\ ui.disabled
       /\ Live(built) /\ ui.cur = "empty" => ses[built].subs # <<>>
       /\ ~ui.mounted => ses[built].closed /\ ~inputting
       /\ ui.mounted /\ ~ui.closeWait => ses[built].closed
       /\ ui.mounted /\ ~inputting /\ Live(built) => ses[built].subs = <<>> /\ conn = "none"
       /\ ui.leaving => ses[built].closed /\ ui.cancelled
       /\ ui.cancelled => ui.leaving \/ ~inputting

Questions == {"fingerprint", "credential"}

\* A prompt on which nothing is due can be answered, or its fingerprint is being
\* saved.
PromptState(w) ==
  /\ AtStep(w, "initial") => ~ui.submitting /\ ses[w].sender = "none"
  /\ AtStep(w, "fingerprint") => (ui.submitting <=> ses[w].saving = "pending")
  /\ AtStep(w, "credential") => ~ui.submitting
  /\ \A q \in Questions : AtStep(w, q) => ses[w].sender = "open" /\ ui.working /\ ~IsTelnet

\* A session in which nothing has happened that the user could answer or see.
Dull(w) ==
  /\ ses[w].saving # "pending" /\ w \notin tabs
  /\ \A q \in Questions : ses[w].subs # <<q>> /\ ~AtStep(w, q)
  /\ ses[w].subs # <<"ok">>

Owns(w) == ses[w].slot \in Slots /\ slots[ses[w].slot].owner = w

\* A sender that could still send belongs to a stream, or to a session that has
\* nothing to say. A wizard that has requested a stream has it until it fails.
SenderState(w) ==
  LET s == ses[w] IN
  /\ s.sender = "none" => s.slot = NumSlots /\ ~s.accepted
  /\ Live(w) /\ s.sender # "none" => s.started
  /\ s.sender = "none" \/ (s.sender = "open" /\ ~Owns(w)) => Dull(w)
  /\ conn = "up" /\ Going(w) /\ s.sender # "none" => Owns(w)
  /\ AtStep(w, "wait") \/ s.subs = <<"wait">> => s.sender # "none"
  /\ \A q \in Questions : s.subs = <<q>> => s.sender = "open" /\ ~IsTelnet
  /\ s.subs = <<"initial">> => s.sender = "none"
  /\ s.saving = "pending" =>
       /\ s.clicked = "save"
       /\ Live(w) => AtStep(w, "fingerprint") \/ s.subs = <<"error">>
  /\ w \in tabs => ~Live(w)

Justified(w) ==
  ses[w].accepted =>
    \/ ses[w].known = ses[w].key
    \/ ses[w].clicked = "continue"
    \/ ses[w].clicked = "save" /\ ses[w].saving = "saved"

----------------------------------------------------------------------------
(* The invariant: the stream slots.                                         *)

Bodies == {"started", "refused", "hook", "fingerprint", "credential", "connected", "failed", "close",
           "completed"}
FrameRec == [body : Bodies, key : Keys \cup {"none"}]

\* The backend sends each of these once, in this order.
Rank(b) ==
  CASE b = "started" -> 1 [] b = "refused" -> 1 [] b = "hook" -> 2 [] b = "fingerprint" -> 3
    [] b = "credential" -> 4 [] b = "connected" -> 5 [] b = "failed" -> 5 [] b = "close" -> 6
    [] b = "completed" -> 7
Has(q, b) == \E j \in 1 .. Len(q) : q[j].body = b
Sorted(q) == \A j, k \in 1 .. Len(q) : j < k => Rank(q[j].body) < Rank(q[k].body)

\* What the browser has under way: an answer, the CLOSE of a closed sender, the
\* COMPLETED of a stream that is shut.
Sending(u, closed, shut) ==
  \/ ~closed /\ ~shut /\ u \in {<<>>, <<"accept">>, <<"reject">>, <<"login">>}
  \/ closed /\ ~shut /\ u \in {<<"close">>, <<"accept", "close">>, <<"reject", "close">>, <<"login", "close">>}
  \/ closed /\ shut /\ u \in {<<"close", "completed">>, <<"accept", "close", "completed">>,
                              <<"reject", "close", "completed">>, <<"login", "close", "completed">>}

SlotState(i) ==
  LET w == slots[i].owner IN
  /\ w = 0 => slots[i] = FreeStream
  /\ w # 0 => ses[w].slot = i /\ ses[w].sender # "none" /\ w <= built
  /\ slots[i].initing =>
       Dull(w) /\ ~slots[i].shut /\ ~slots[i].connected /\ ses[w].sender = "open" /\ ~ses[w].accepted
  /\ slots[i].shut => ses[w].sender = "closed"
  /\ slots[i].connected => w \in tabs \/ ses[w].sender = "closed" \/ (ui.w = w /\ ses[w].subs = <<"ok">>)
  /\ slots[i].connected => ~Live(w) \/ ses[w].subs = <<"ok">>
  /\ w # 0 /\ ~slots[i].connected => w \notin tabs /\ ses[w].subs # <<"ok">>
  /\ conn # "up" => up[i] = <<>> /\ down[i] = <<>> /\ back[i] = FreeBack /\ (w # 0 => slots[i].initing)
  /\ conn = "none" => w = 0

\* The phases of a slot's handshake.
Idle(i) ==
  /\ slots[i].owner = 0 /\ down[i] = <<>>
  /\ \/ up[i] = <<>> /\ back[i] = FreeBack
     \/ up[i] = <<"completed">> /\ back[i].at = "closed"
Requested(i) ==
  /\ slots[i].owner # 0 /\ slots[i].initing /\ down[i] = <<>>
  /\ \/ up[i] = <<"initial">> /\ back[i] = FreeBack
     \/ up[i] = <<"completed", "initial">> /\ back[i].at = "closed"
Refused(i) ==
  /\ slots[i].owner # 0 /\ slots[i].initing
  /\ down[i] = <<Frame("refused")>> /\ up[i] = <<>> /\ back[i] = FreeBack
Running(i) ==
  /\ slots[i].owner # 0 /\ back[i].at \in {"dialing", "connected", "ended"}
  /\ Sending(up[i], ses[slots[i].owner].sender = "closed", slots[i].shut)
  /\ ~Has(down[i], "completed") /\ ~Has(down[i], "refused")
  /\ slots[i].initing <=> Has(down[i], "started")
  /\ back[i].at = "ended" <=> Has(down[i], "close") \/ slots[i].shut
  /\ slots[i].shut => down[i] = <<>>
Closed(i) ==
  /\ slots[i].owner # 0 /\ ses[slots[i].owner].sender = "closed" /\ ~slots[i].initing
  /\ Has(down[i], "completed") /\ ~Has(down[i], "started") /\ ~Has(down[i], "refused")
  /\ \/ ~slots[i].shut /\ back[i].at = "closed" /\ up[i] = <<>> /\ Has(down[i], "close")
     \/ slots[i].shut /\ back[i].at = "closed" /\ up[i] = <<"completed">> /\ ~Has(down[i], "close")
     \/ slots[i].shut /\ back[i] = FreeBack /\ up[i] = <<>> /\ ~Has(down[i], "close")
Phase(i) == Idle(i) \/ Requested(i) \/ Refused(i) \/ Running(i) \/ Closed(i)

AskingFp(w) ==
  ses[w].subs = <<"fingerprint">> \/ AtStep(w, "fingerprint") \/ ses[w].saving = "pending"
AskingCred(w) == ses[w].subs = <<"credential">> \/ AtStep(w, "credential")
HeadIn(q, s) == q # <<>> /\ Head(q) \in s

\* What is under way to the browser the backend has sent, in this order.
Told(i) ==
  LET b == back[i] IN
  /\ Has(down[i], "hook") => b.hooked
  /\ Has(down[i], "fingerprint") => b.fp = "asked"
  /\ Has(down[i], "credential") => b.cred = "asked"
  /\ Has(down[i], "hook") \/ slots[i].initing => b.fp = "unasked" \/ Has(down[i], "fingerprint")
  /\ Has(down[i], "connected") => b.at # "dialing" /\ (b.fp = "yes" \/ IsTelnet) /\ b.cred # "asked"
  /\ Has(down[i], "failed") => b.at = "ended"
  /\ b.at = "connected" => Has(down[i], "connected") \/ slots[i].connected
  /\ slots[i].connected => b.at # "dialing"
  /\ b.fp = "asked" => b.at # "connected"
  /\ b.cred = "asked" => b.at # "connected"
  /\ b.fp # "yes" => b.cred = "unasked"
  /\ IsTelnet => b.fp = "unasked"

\* A question is at one place: under way, with the user, or answered.
Asked(i) ==
  LET w == slots[i].owner  b == back[i] IN
  /\ Has(down[i], "fingerprint") \/ b.fp = "unasked" => ~ses[w].accepted
  /\ HeadIn(up[i], {"accept", "reject"}) => b.fp = "asked" /\ ~Has(down[i], "fingerprint")
  /\ HeadIn(up[i], {"login"}) => b.cred = "asked" /\ ~Has(down[i], "credential")
  /\ AskingFp(w) /\ ses[w].sender = "open" =>
       b.fp = "asked" /\ ~ses[w].accepted /\ ~Has(down[i], "fingerprint") /\ up[i] = <<>>
  /\ AskingCred(w) /\ ses[w].sender = "open" =>
       b.cred = "asked" /\ ~Has(down[i], "credential") /\ up[i] = <<>>
  /\ Going(w) /\ ses[w].sender = "closed" => b.fp # "unasked" /\ b.cred # "unasked"

\* A backend that may still succeed has a wizard that waits for it, or a user who
\* has closed it; the end is not told without an outcome.
Expected(i) ==
  LET w == slots[i].owner IN
  /\ back[i].at \in {"dialing", "connected"} \/ Has(down[i], "connected") =>
       Going(w) \/ ses[w].sender = "closed" \/ slots[i].connected
  /\ Has(down[i], "close") /\ Going(w) /\ ses[w].sender = "open" /\ ~slots[i].connected =>
       Has(down[i], "failed") \/ Has(down[i], "connected")

\* A wizard that goes on after its user has closed the stream has no question.
Cancelled(i) ==
  LET w == slots[i].owner IN
  Going(w) /\ ses[w].sender = "closed" =>
    ~IsTelnet /\ ~Has(down[i], "fingerprint") /\ ~Has(down[i], "credential")

\* A request has a wizard that waits for the response, a key that is under way
\* has not been accepted.
Fresh(i) ==
  /\ slots[i].initing => Going(slots[i].owner)
  /\ Has(down[i], "fingerprint") => ~ses[slots[i].owner].accepted

Handshake(i) ==
  /\ Phase(i)
  /\ slots[i].owner # 0 => Fresh(i) /\ Cancelled(i)
  /\ Running(i) => Told(i) /\ Asked(i) /\ Expected(i)

SlotInv(i) == SlotState(i) /\ Sorted(down[i]) /\ (conn = "up" => Handshake(i))
SessionInv(w) == WizardState(w) /\ PromptState(w) /\ SenderState(w) /\ Justified(w)

WireOK ==
  /\ up \in [Slots -> Seq({"initial", "accept", "reject", "login", "close", "completed"})]
  /\ down \in [Slots -> Seq(FrameRec)]

IInv ==
  /\ TypeOK /\ WireOK /\ LockState /\ ComponentState /\ NoStrayFrame
  /\ \A w \in Sessions : SessionInv(w)
  /\ \A i \in Slots : SlotInv(i)

----------------------------------------------------------------------------
(* Queues of frames.                                                        *)

\* Short queues, joined.
LEMMA JoinOne ==
  ASSUME NEW x, NEW y
  PROVE  <<x>> \o <<y>> = <<x, y>> /\ Append(<<x>>, y) = <<x, y>>
<1> DEFINE S == {x, y}
<1>1. <<x>> \in Seq(S) /\ <<y>> \in Seq(S) /\ <<x, y>> \in Seq(S) /\ y \in S
  OBVIOUS
<1> DEFINE r == <<x>> \o <<y>>
<1>2. r \in Seq(S) /\ Len(r) = 2 /\ r[1] = x /\ r[2] = y
  BY <1>1, ConcatProperties
<1>3. Append(<<x>>, y) = r
  BY <1>1, AppendIsConcat
<1> HIDE DEF r
<1>4. r = <<x, y>>
  BY <1>1, <1>2, SeqEqual
<1> QED BY <1>3, <1>4 DEF r

LEMMA JoinTwo ==
  ASSUME NEW x, NEW y, NEW z
  PROVE  <<x>> \o <<y, z>> = <<x, y, z>> /\ <<x, y>> \o <<z>> = <<x, y, z>>
<1> DEFINE S == {x, y, z}
<1>1. /\ <<x>> \in Seq(S) /\ <<y, z>> \in Seq(S) /\ <<x, y, z>> \in Seq(S)
      /\ <<x, y>> \in Seq(S) /\ <<z>> \in Seq(S)
  OBVIOUS
<1> DEFINE r == <<x>> \o <<y, z>>  t == <<x, y>> \o <<z>>
<1>2. r \in Seq(S) /\ Len(r) = 3 /\ r[1] = x /\ r[2] = y /\ r[3] = z
  BY <1>1, ConcatProperties
<1>3. t \in Seq(S) /\ Len(t) = 3 /\ t[1] = x /\ t[2] = y /\ t[3] = z
  BY <1>1, ConcatProperties
<1> HIDE DEF r, t
<1>4. r = <<x, y, z>> /\ t = <<x, y, z>>
  BY <1>1, <1>2, <1>3, SeqEqual
<1> QED BY <1>4 DEF r, t

LEMMA Ranks ==
  /\ Rank("started") = 1 /\ Rank("refused") = 1 /\ Rank("hook") = 2 /\ Rank("fingerprint") = 3
  /\ Rank("credential") = 4 /\ Rank("connected") = 5 /\ Rank("failed") = 5 /\ Rank("close") = 6
  /\ Rank("completed") = 7
BY DEF Rank

LEMMA HasNone == \A b : ~Has(<<>>, b)
BY DEF Has

LEMMA SortedNone == Sorted(<<>>)
BY DEF Sorted

\* A frame put behind those that come before it.
LEMMA PutOne ==
  ASSUME NEW q \in Seq(FrameRec), NEW f \in FrameRec, Sorted(q),
         \A b \in Bodies : Has(q, b) => Rank(b) < Rank(f.body)
  PROVE  /\ q \o <<f>> \in Seq(FrameRec) /\ Sorted(q \o <<f>>)
         /\ \A b : Has(q \o <<f>>, b) <=> Has(q, b) \/ b = f.body
<1> DEFINE r == q \o <<f>>
<1>1. r \in Seq(FrameRec) /\ Len(r) = Len(q) + 1 /\ Len(q) \in Nat
  OBVIOUS
<1>2. \A j \in 1 .. Len(q) : r[j] = q[j] /\ q[j] \in FrameRec
  OBVIOUS
<1>3. r[Len(q) + 1] = f
  OBVIOUS
<1> HIDE DEF r
<1>4. ASSUME NEW b PROVE Has(r, b) <=> Has(q, b) \/ b = f.body
  BY <1>1, <1>2, <1>3 DEF Has
<1>5. ASSUME NEW j \in 1 .. Len(r), NEW k \in 1 .. Len(r), j < k PROVE Rank(r[j].body) < Rank(r[k].body)
  <2>1. CASE k \in 1 .. Len(q)
    <3>1. j \in 1 .. Len(q)
      BY <1>1, <1>5, <2>1
    <3> QED BY <1>2, <1>5, <2>1, <3>1 DEF Sorted
  <2>2. CASE k = Len(q) + 1
    <3>1. j \in 1 .. Len(q)
      BY <1>1, <1>5, <2>2
    <3>2. q[j].body \in Bodies /\ Has(q, q[j].body)
      BY <1>2, <3>1 DEF Has, FrameRec
    <3> QED BY <1>2, <1>3, <2>2, <3>1, <3>2
  <2> QED BY <1>1, <2>1, <2>2
<1>6. Sorted(r)
  BY <1>5 DEF Sorted
<1> QED BY <1>1, <1>4, <1>6 DEF r

LEMMA PutTwo ==
  ASSUME NEW q \in Seq(FrameRec), NEW f \in FrameRec, NEW g \in FrameRec, Sorted(q),
         \A b \in Bodies : Has(q, b) => Rank(b) < Rank(f.body), Rank(f.body) < Rank(g.body)
  PROVE  /\ q \o <<f, g>> \in Seq(FrameRec) /\ Sorted(q \o <<f, g>>)
         /\ \A b : Has(q \o <<f, g>>, b) <=> Has(q, b) \/ b = f.body \/ b = g.body
<1>1. q \o <<f, g>> = (q \o <<f>>) \o <<g>>
  <2>1. <<f>> \in Seq(FrameRec) /\ <<g>> \in Seq(FrameRec)
    OBVIOUS
  <2>2. (q \o <<f>>) \o <<g>> = q \o (<<f>> \o <<g>>)
    BY <2>1, ConcatAssociative
  <2> QED BY <2>2, JoinOne
<1> DEFINE r == q \o <<f>>
<1>2. /\ r \in Seq(FrameRec) /\ Sorted(r)
      /\ \A b : Has(r, b) <=> Has(q, b) \/ b = f.body
  BY PutOne
<1>0. f.body \in Bodies /\ g.body \in Bodies
  BY DEF FrameRec
<1> HIDE DEF r
<1>3. \A b \in Bodies : Has(r, b) => Rank(b) < Rank(g.body)
  <2>1. \A b \in Bodies : Rank(b) \in Nat
    BY Ranks DEF Bodies
  <2> QED BY <1>0, <1>2, <2>1
<1>4. /\ r \o <<g>> \in Seq(FrameRec) /\ Sorted(r \o <<g>>)
      /\ \A b : Has(r \o <<g>>, b) <=> Has(r, b) \/ b = g.body
  BY <1>2, <1>3, PutOne
<1> QED BY <1>1, <1>2, <1>4 DEF r

\* The first frame leaves; those behind it are others of a higher rank.
LEMMA TakeOne ==
  ASSUME NEW q \in Seq(FrameRec), q # <<>>, Sorted(q)
  PROVE  /\ Head(q) \in FrameRec /\ Has(q, Head(q).body)
         /\ Tail(q) \in Seq(FrameRec) /\ Sorted(Tail(q))
         /\ \A b : Has(Tail(q), b) <=> Has(q, b) /\ b # Head(q).body
         /\ \A b : Has(Tail(q), b) => Rank(Head(q).body) < Rank(b)
<1> DEFINE t == Tail(q)
<1>1. t \in Seq(FrameRec) /\ Len(t) = Len(q) - 1 /\ Len(q) \in Nat \ {0}
  OBVIOUS
<1>2. Head(q) = q[1] /\ 1 \in 1 .. Len(q)
  OBVIOUS
<1>3. \A j \in 1 .. Len(t) : t[j] = q[j + 1] /\ j + 1 \in 1 .. Len(q)
  OBVIOUS
<1>4. \A j \in 1 .. Len(q) : q[j] \in FrameRec
  OBVIOUS
<1>5. \A j \in 1 .. Len(q) : Rank(q[j].body) \in Nat
  BY <1>4, Ranks DEF FrameRec, Bodies
<1> HIDE DEF t
<1>6. Sorted(t)
  <2>1. ASSUME NEW j \in 1 .. Len(t), NEW k \in 1 .. Len(t), j < k PROVE Rank(t[j].body) < Rank(t[k].body)
    <3>1. j + 1 < k + 1
      BY <1>1, <2>1
    <3> QED BY <1>3, <3>1 DEF Sorted
  <2> QED BY <2>1 DEF Sorted
<1>7. \A j \in 1 .. Len(t) : Rank(q[1].body) < Rank(t[j].body)
  <2>1. ASSUME NEW j \in 1 .. Len(t) PROVE Rank(q[1].body) < Rank(q[j + 1].body)
    <3>1. 1 < j + 1 /\ j + 1 \in 1 .. Len(q)
      BY <1>1, <1>3
    <3> QED BY <1>2, <3>1 DEF Sorted
  <2> QED BY <1>3, <2>1
<1>8. ASSUME NEW b PROVE Has(t, b) => Rank(q[1].body) < Rank(b)
  BY <1>7 DEF Has
<1>9. ASSUME NEW b PROVE Has(t, b) <=> Has(q, b) /\ b # q[1].body
  <2>1. Has(t, b) => Has(q, b) /\ b # q[1].body
    <3>1. Has(t, b) => Has(q, b)
      BY <1>3 DEF Has
    <3>2. Rank(q[1].body) \in Nat
      BY <1>2, <1>5
    <3>3. ~(Rank(q[1].body) < Rank(q[1].body))
      BY <3>2
    <3> QED BY <1>8, <3>1, <3>3
  <2>2. ASSUME Has(q, b), b # q[1].body PROVE Has(t, b)
    <3>1. PICK j \in 1 .. Len(q) : q[j].body = b
      BY <2>2 DEF Has
    <3>2. j # 1 /\ j - 1 \in 1 .. Len(t) /\ (j - 1) + 1 = j
      BY <1>1, <2>2, <3>1
    <3>3. t[j - 1] = q[j]
      BY <1>3, <3>2
    <3> QED BY <3>1, <3>2, <3>3 DEF Has
  <2> QED BY <2>1, <2>2
<1>10. Head(q) \in FrameRec /\ Has(q, Head(q).body)
  BY <1>2, <1>4 DEF Has
<1> QED BY <1>1, <1>2, <1>6, <1>8, <1>9, <1>10 DEF t

\* A queue without any frame of the backend is empty.
LEMMA NothingLeft ==
  ASSUME NEW q \in Seq(FrameRec), \A b \in Bodies : ~Has(q, b)
  PROVE  q = <<>>
<1> SUFFICES ASSUME q # <<>> PROVE FALSE
  OBVIOUS
<1>1. 1 \in 1 .. Len(q) /\ q[1] \in FrameRec
  OBVIOUS
<1> QED BY <1>1 DEF Has, FrameRec

\* The frames of the browser's commands.
UpBodies == {"initial", "accept", "reject", "login", "close", "completed"}

LEMMA SendAnswer == \A a \in {"accept", "reject", "login"} :
  Append(<<>>, a) = <<a>> /\ Sending(<<a>>, FALSE, FALSE) /\ Sending(<<>>, FALSE, FALSE)
BY DEF Sending

LEMMA SendClose ==
  ASSUME NEW u, Sending(u, FALSE, FALSE)
  PROVE  /\ Sending(Append(u, "close"), TRUE, FALSE)
         /\ Sending(u \o <<"close", "completed">>, TRUE, TRUE)
         /\ u # <<>> => /\ Head(Append(u, "close")) = Head(u)
                        /\ Head(u \o <<"close", "completed">>) = Head(u)
         /\ u = <<>> => /\ Head(Append(u, "close")) = "close"
                        /\ Head(u \o <<"close", "completed">>) = "close"
<1>1. u = <<>> \/ \E a \in {"accept", "reject", "login"} : u = <<a>>
  BY DEF Sending
<1>2. CASE u = <<>>
  BY <1>2 DEF Sending
<1>3. ASSUME NEW a \in {"accept", "reject", "login"}, u = <<a>>
      PROVE  /\ Sending(Append(u, "close"), TRUE, FALSE)
             /\ Sending(u \o <<"close", "completed">>, TRUE, TRUE)
             /\ u # <<>>
             /\ Head(Append(u, "close")) = Head(u)
             /\ Head(u \o <<"close", "completed">>) = Head(u)
  <2>1. Append(u, "close") = <<a, "close">>
    BY <1>3, JoinOne
  <2>2. u \o <<"close", "completed">> = <<a, "close", "completed">>
    BY <1>3, JoinTwo
  <2>3. Sending(<<a, "close">>, TRUE, FALSE) /\ Sending(<<a, "close", "completed">>, TRUE, TRUE)
    BY DEF Sending
  <2>4. Head(<<a>>) = a /\ Head(<<a, "close">>) = a /\ Head(<<a, "close", "completed">>) = a /\ <<a>> # <<>>
    OBVIOUS
  <2> QED BY <1>3, <2>1, <2>2, <2>3, <2>4
<1> QED BY <1>1, <1>2, <1>3

LEMMA SendCompleted ==
  ASSUME NEW u, Sending(u, TRUE, FALSE)
  PROVE  Sending(u \o <<"completed">>, TRUE, TRUE) /\ u # <<>> /\ Head(u \o <<"completed">>) = Head(u)
<1>1. u = <<"close">> \/ \E a \in {"accept", "reject", "login"} : u = <<a, "close">>
  BY DEF Sending
<1>2. CASE u = <<"close">>
  BY <1>2, JoinOne DEF Sending
<1>3. ASSUME NEW a \in {"accept", "reject", "login"}, u = <<a, "close">>
      PROVE  Sending(u \o <<"completed">>, TRUE, TRUE) /\ u # <<>> /\ Head(u \o <<"completed">>) = Head(u)
  <2>1. u \o <<"completed">> = <<a, "close", "completed">>
    BY <1>3, JoinTwo
  <2>2. Sending(<<a, "close", "completed">>, TRUE, TRUE)
    BY DEF Sending
  <2>3. Head(<<a, "close">>) = a /\ Head(<<a, "close", "completed">>) = a /\ <<a, "close">> # <<>>
    OBVIOUS
  <2> QED BY <1>3, <2>1, <2>2, <2>3
<1> QED BY <1>1, <1>2, <1>3

\* What the backend finds at the head.
LEMMA ReadSending ==
  ASSUME NEW u, NEW closed \in BOOLEAN, NEW shut \in BOOLEAN, Sending(u, closed, shut), u # <<>>
  PROVE  /\ Head(u) \in {"accept", "reject", "login", "close"}
         /\ Head(u) # "close" =>
              Sending(Tail(u), closed, shut) /\ ~HeadIn(Tail(u), {"accept", "reject", "login"})
         /\ Head(u) = "close" => closed /\ Tail(u) = IF shut THEN <<"completed">> ELSE <<>>
<1>1. CASE ~closed /\ ~shut
  <2>1. u \in {<<"accept">>, <<"reject">>, <<"login">>}
    BY <1>1 DEF Sending
  <2>2. CASE u = <<"accept">>
    BY <1>1, <2>2 DEF Sending, HeadIn
  <2>3. CASE u = <<"reject">>
    BY <1>1, <2>3 DEF Sending, HeadIn
  <2>4. CASE u = <<"login">>
    BY <1>1, <2>4 DEF Sending, HeadIn
  <2> QED BY <2>1, <2>2, <2>3, <2>4
<1>2. CASE closed /\ ~shut
  <2>1. u \in {<<"close">>, <<"accept", "close">>, <<"reject", "close">>, <<"login", "close">>}
    BY <1>2 DEF Sending
  <2>2. CASE u = <<"close">>
    BY <1>2, <2>2 DEF Sending, HeadIn
  <2>3. CASE u = <<"accept", "close">>
    BY <1>2, <2>3 DEF Sending, HeadIn
  <2>4. CASE u = <<"reject", "close">>
    BY <1>2, <2>4 DEF Sending, HeadIn
  <2>5. CASE u = <<"login", "close">>
    BY <1>2, <2>5 DEF Sending, HeadIn
  <2> QED BY <2>1, <2>2, <2>3, <2>4, <2>5
<1>3. CASE closed /\ shut
  <2>1. u \in {<<"close", "completed">>, <<"accept", "close", "completed">>,
               <<"reject", "close", "completed">>, <<"login", "close", "completed">>}
    BY <1>3 DEF Sending
  <2>2. CASE u = <<"close", "completed">>
    BY <1>3, <2>2 DEF Sending, HeadIn
  <2>3. CASE u = <<"accept", "close", "completed">>
    BY <1>3, <2>3 DEF Sending, HeadIn
  <2>4. CASE u = <<"reject", "close", "completed">>
    BY <1>3, <2>4 DEF Sending, HeadIn
  <2>5. CASE u = <<"login", "close", "completed">>
    BY <1>3, <2>5 DEF Sending, HeadIn
  <2> QED BY <2>1, <2>2, <2>3, <2>4, <2>5
<1>4. CASE ~closed /\ shut
  BY <1>4 DEF Sending
<1> QED BY <1>1, <1>2, <1>3, <1>4

----------------------------------------------------------------------------
(* The three protocols, and the least free slot.                            *)

LEMMA Protocol ==
  ASSUME TypeOK
  PROVE  setup.command \in {"SSH", "Mosh", "Telnet"}
BY DEF TypeOK, Setups

LEMMA FirstFacts ==
  ASSUME TypeOK, NEW w
  PROVE  First(w) = IF Executes(w) THEN [step |-> "wait", started |-> TRUE, requests |-> TRUE]
                    ELSE [step |-> "initial", started |-> FALSE, requests |-> FALSE]
<1>0. setup.command \in {"SSH", "Mosh", "Telnet"}
  BY Protocol
<1>1. CASE Executes(w)
  BY <1>0, <1>1 DEF By, IsTelnet, First, Ssh!ExecuterFirst, Mosh!ExecuterFirst, Telnet!ExecutorFirst
<1>2. CASE ~Executes(w)
  BY <1>0, <1>2 DEF By, IsTelnet, First, Ssh!WizardFirst, Mosh!WizardFirst, Telnet!WizardFirst
<1> QED BY <1>1, <1>2

LEMMA StartFacts ==
  ASSUME TypeOK, NEW w
  PROVE  /\ By(Ssh!Connect, Mosh!Connect, Telnet!Connect).step = "wait"
         /\ By(Ssh!Closing, Mosh!Closing, Telnet!Closing) = "error"
         /\ Opens = [frame |-> "initial", connected |-> FALSE]
         /\ (NewWizard(w).cached /\ ~IsTelnet) \in BOOLEAN
<1>0. setup.command \in {"SSH", "Mosh", "Telnet"}
  BY Protocol
<1>1. By(Ssh!Connect, Mosh!Connect, Telnet!Connect) = [step |-> "wait", started |-> TRUE, requests |-> TRUE]
  BY <1>0 DEF By, IsTelnet, Ssh!Connect, Mosh!Connect, Telnet!Connect
<1>2. By(Ssh!Closing, Mosh!Closing, Telnet!Closing) = "error"
  BY <1>0 DEF By, IsTelnet, Ssh!Closing, Mosh!Closing, Telnet!Closing
<1>3. Opens = [frame |-> "initial", connected |-> FALSE]
  BY <1>0 DEF By, IsTelnet, Opens, Ssh!Opens, Mosh!Opens, Telnet!Opens
<1>4. (NewWizard(w).cached /\ ~IsTelnet) \in BOOLEAN
  OBVIOUS
<1> QED BY <1>1, <1>2, <1>3, <1>4
LEMMA AnswerFacts ==
  ASSUME TypeOK, ~IsTelnet
  PROVE  /\ AnswerFingerprint(TRUE) = "accept" /\ AnswerFingerprint(FALSE) = "reject"
         /\ AnswerCredential(TRUE) = "login" /\ AnswerCredential(FALSE) = "close"
<1>0. setup.command \in {"SSH", "Mosh", "Telnet"}
  BY Protocol
<1>1. CASE setup.command = "SSH"
  BY <1>1 DEF By, IsTelnet, AnswerFingerprint, AnswerCredential, Ssh!FingerprintAnswer, Ssh!CredentialAnswer
<1>2. CASE setup.command = "Mosh"
  BY <1>2 DEF By, IsTelnet, AnswerFingerprint, AnswerCredential, Mosh!FingerprintAnswer, Mosh!CredentialAnswer
<1>3. CASE setup.command = "Telnet"
  BY <1>3 DEF By, IsTelnet, AnswerFingerprint, AnswerCredential
<1> QED BY <1>0, <1>1, <1>2, <1>3

LEMMA OutcomeFacts ==
  ASSUME TypeOK, NEW success \in BOOLEAN
  PROVE  /\ OnInitial(success) = IF success THEN "wait" ELSE "error"
         /\ OnCompleted(success) = IF success \/ IsTelnet THEN "none" ELSE "error"
<1>0. setup.command \in {"SSH", "Mosh", "Telnet"}
  BY Protocol
<1>1. CASE setup.command = "SSH"
  BY <1>1 DEF By, IsTelnet, OnInitial, OnCompleted, Ssh!OnInitial, Ssh!OnCompleted
<1>2. CASE setup.command = "Mosh"
  BY <1>2 DEF By, IsTelnet, OnInitial, OnCompleted, Mosh!OnInitial, Mosh!OnCompleted
<1>3. CASE setup.command = "Telnet"
  BY <1>3 DEF By, IsTelnet, OnInitial, OnCompleted, Telnet!OnInitial, Telnet!OnCompleted
<1> QED BY <1>0, <1>1, <1>2, <1>3

LEMMA TickFacts ==
  ASSUME TypeOK, NEW i \in Slots, NEW w, NEW f \in FrameRec, Accepts(i, f.body),
         f.body \in {"hook", "fingerprint", "credential", "connected", "failed"}
  PROVE  /\ ~slots[i].connected
         /\ f.body \in Questions => ~IsTelnet
         /\ f.body = "hook" => Shows(w, f) = "wait" /\ AutoAnswer(w, f) = "none"
         /\ f.body = "fingerprint" =>
              \/ Shows(w, f) = "wait" /\ AutoAnswer(w, f) = "accept" /\ ses[w].known = f.key
              \/ Shows(w, f) = "fingerprint" /\ AutoAnswer(w, f) = "none"
         /\ f.body = "credential" =>
              \/ Shows(w, f) = "wait" /\ AutoAnswer(w, f) = "login"
              \/ Shows(w, f) = "credential" /\ AutoAnswer(w, f) = "none"
         /\ f.body = "connected" => Shows(w, f) = "ok" /\ AutoAnswer(w, f) = "none"
         /\ f.body = "failed" => Shows(w, f) = "error" /\ AutoAnswer(w, f) = "none"
<1>0. setup.command \in {"SSH", "Mosh", "Telnet"}
  BY Protocol
<1>1. CASE setup.command = "SSH"
  BY <1>1 DEF By, IsTelnet, Accepts, Shows, AutoAnswer, Questions, Ssh!Accepts, Ssh!Shows, Ssh!AutoAnswer, Ssh!Recognised
<1>2. CASE setup.command = "Mosh"
  BY <1>2 DEF By, IsTelnet, Accepts, Shows, AutoAnswer, Questions, Mosh!Accepts, Mosh!Shows, Mosh!AutoAnswer, Mosh!Recognised
<1>3. CASE setup.command = "Telnet"
  BY <1>3 DEF By, IsTelnet, Accepts, Shows, AutoAnswer, Questions, Telnet!Accepts, Telnet!Shows
<1> QED BY <1>0, <1>1, <1>2, <1>3

LEMMA LeastSlot == CanRequest => FreeSlot \in Slots /\ slots[FreeSlot].owner = 0
<1> SUFFICES ASSUME CanRequest PROVE FreeSlot \in Slots /\ slots[FreeSlot].owner = 0
  OBVIOUS
<1> DEFINE T == {i \in Slots : slots[i].owner = 0}
           R == OpToRel(<, Nat)
<1>1. T # {} /\ T \subseteq Nat
  BY WizardAssumption DEF CanRequest, Slots, WizardAssumption
<1>2. IsWellFoundedOn(R, Nat)
  BY NatLessThanWellFounded
<1>3. PICK m \in T : \A j \in T : ~(<<j, m>> \in R)
  <2> HIDE DEF R, T
  <2> QED BY <1>1, <1>2, WFMin
<1>4. \A j \in T : m <= j
  <2> SUFFICES ASSUME NEW j \in T PROVE m <= j
    OBVIOUS
  <2>1. m \in Nat /\ j \in Nat /\ ~(j < m)
    BY <1>1, <1>3 DEF OpToRel
  <2> QED BY <2>1
<1>5. \E i \in Slots : slots[i].owner = 0 /\ \A j \in Slots : slots[j].owner = 0 => i <= j
  BY <1>4
<1> QED BY <1>5 DEF FreeSlot

----------------------------------------------------------------------------
(* Types.                                                                   *)

SesRec == [at : {"none", "live", "over"}, subs : Seq(Steps),
       started : BOOLEAN, closed : BOOLEAN, slot : 0 .. NumSlots,
       sender : {"none", "open", "closed"}, known : Keys \cup {"none"},
       key : Keys \cup {"none"}, cached : BOOLEAN,
       clicked : {"none", "continue", "save", "cancel"}, saving : {"no", "pending", "saved"},
       accepted : BOOLEAN]
UiRec == [w : 0 .. MaxSessions, mounted : BOOLEAN, cur : Steps \cup {"empty"},
       submitting : BOOLEAN, working : BOOLEAN, disabled : BOOLEAN, cancelled : BOOLEAN,
       loop : {"off", "waiting", "ended"}, closeWait : BOOLEAN, leaving : BOOLEAN]
SlotRec == [owner : 0 .. MaxSessions, initing : BOOLEAN, shut : BOOLEAN, connected : BOOLEAN]
BackRec == [at : {"free", "dialing", "connected", "ended", "closed"},
       hooked : BOOLEAN, fp : {"unasked", "asked", "yes", "no"}, cred : {"unasked", "asked", "yes"}]
UpSeq == Seq({"initial", "accept", "reject", "login", "close", "completed"})

LEMMA Typed ==
  ASSUME TypeOK, WireOK
  PROVE  /\ ses \in [Sessions -> SesRec] /\ ui \in UiRec /\ slots \in [Slots -> SlotRec]
         /\ back \in [Slots -> BackRec] /\ up \in [Slots -> UpSeq] /\ down \in [Slots -> Seq(FrameRec)]
         /\ built \in 0 .. MaxSessions /\ dials \in Nat /\ got \in Nat /\ lock \in BOOLEAN
         /\ inputting \in BOOLEAN /\ tabs \subseteq Sessions
BY DEF TypeOK, WireOK, SesRec, UiRec, SlotRec, BackRec, UpSeq

LEMMA StepNames == Steps = {"initial", "fingerprint", "credential", "wait", "ok", "error"} /\ Prompts = {"initial", "fingerprint", "credential"}
BY DEF Steps, Prompts, Ssh!Steps, Ssh!Prompts

LEMMA Numbers == NumSlots \in Nat /\ MaxSessions \in Nat /\ "none" \notin Keys
BY WizardAssumption DEF WizardAssumption

LEMMA NoSessionTyped == NoSession \in SesRec
BY Numbers DEF NoSession, SesRec

LEMMA FreeTyped == FreeStream \in SlotRec /\ FreeBack \in BackRec
BY Numbers DEF FreeStream, FreeBack, SlotRec, BackRec

LEMMA FrameTyped == \A b \in Bodies : Frame(b) \in FrameRec /\ Frame(b).body = b
BY DEF Frame, FrameRec

\* What a resolved step changes.
LEMMA PushedFacts ==
  ASSUME NEW s \in SesRec, NEW step \in Steps \cup {"none"}
  PROVE  /\ Pushed(s, step) \in SesRec
         /\ step = "none" \/ s.at # "live" => Pushed(s, step) = s
         /\ step # "none" /\ s.at = "live" => Pushed(s, step) = [s EXCEPT !.subs = Append(s.subs, step)]
         /\ s.subs = <<>> /\ step # "none" /\ s.at = "live" => Pushed(s, step) = [s EXCEPT !.subs = <<step>>]
<1>1. "none" \notin Steps
  BY StepNames
<1>2. s.subs \in Seq(Steps)
  BY DEF SesRec
<1>3. CASE step = "none" \/ s.at # "live"
  BY <1>3 DEF Pushed
<1>4. CASE step \in Steps /\ s.at = "live"
  <2>1. Pushed(s, step) = [s EXCEPT !.subs = Append(s.subs, step)]
    BY <1>1, <1>4 DEF Pushed
  <2>2. Append(s.subs, step) \in Seq(Steps)
    BY <1>2, <1>4
  <2>3. [s EXCEPT !.subs = Append(s.subs, step)] \in SesRec
    BY <2>2 DEF SesRec
  <2>4. Append(<<>>, step) = <<step>>
    OBVIOUS
  <2> QED BY <1>1, <1>4, <2>1, <2>3, <2>4
<1> QED BY <1>3, <1>4

----------------------------------------------------------------------------
(* What a step leaves alone.                                                *)

\* A session that is not touched, and whose component is not either.
LEMMA SessionKept ==
  ASSUME TypeOK, WireOK, NEW v \in Sessions, SessionInv(v), ses'[v] = ses[v], setup' = setup,
         v \in tabs' => v \in tabs, built' >= built, built' \in Nat, Owns(v) => Owns(v)',
         Live(v) => ui' = ui /\ built' = built /\ inputting' = inputting /\ conn' = conn
  PROVE  SessionInv(v)'
<1>1. IsTelnet' = IsTelnet
  BY DEF IsTelnet
<1>2. built \in Nat /\ v \in Nat
  BY Typed, Numbers DEF Sessions
<1>3. CASE Live(v)
  <2>1. WizardState(v)'
    BY <1>2, <1>3 DEF SessionInv, WizardState, Live
  <2>2. PromptState(v)'
    BY <1>1, <1>3 DEF SessionInv, PromptState, AtStep, Live
  <2>3. Justified(v)'
    BY <1>3 DEF SessionInv, Justified
  <2>4. \A s : AtStep(v, s)' <=> AtStep(v, s)
    BY <1>3 DEF AtStep, Live
  <2>5. Dull(v) => Dull(v)'
    BY <1>3, <2>4 DEF Dull
  <2>6. SenderState(v)'
    BY <1>1, <1>3, <2>4, <2>5 DEF SessionInv, SenderState, Live, Going
  <2> QED BY <2>1, <2>2, <2>3, <2>6 DEF SessionInv
<1>4. CASE ~Live(v)
  <2>1. ~Live(v)' /\ \A s : ~AtStep(v, s) /\ ~AtStep(v, s)'
    BY <1>4 DEF AtStep, Live
  <2>2. WizardState(v)'
    BY <1>2, <1>4, <2>1 DEF SessionInv, WizardState, Live
  <2>3. PromptState(v)'
    BY <1>1, <2>1 DEF SessionInv, PromptState
  <2>4. Justified(v)'
    BY DEF SessionInv, Justified
  <2>5. Dull(v) => Dull(v)'
    BY <2>1 DEF Dull
  <2>6. SenderState(v)'
    BY <1>1, <1>4, <2>1, <2>5 DEF SessionInv, SenderState, Going, WizardState
  <2> QED BY <2>2, <2>3, <2>4, <2>6 DEF SessionInv
<1> QED BY <1>3, <1>4

\* A slot whose wire is not touched, when its session changes.
LEMMA SlotKept ==
  ASSUME TypeOK, WireOK, NEW i \in Slots, NEW w, w = slots[i].owner, SlotInv(i),
         slots'[i] = slots[i], up'[i] = up[i], down'[i] = down[i], back'[i] = back[i],
         conn' = conn, setup' = setup, built' >= built, built' \in Nat,
         w # 0 =>
           /\ ses'[w].slot = ses[w].slot /\ ses'[w].sender = ses[w].sender
           /\ ses'[w].accepted => ses[w].accepted
           /\ AskingFp(w)' => AskingFp(w)
           /\ AskingCred(w)' => AskingCred(w)
           /\ Going(w)' => Going(w)
           /\ Going(w) => Going(w)' \/ slots[i].connected
           /\ slots[i].initing => Dull(w)'
           /\ slots[i].connected =>
                /\ w \in tabs' \/ ses[w].sender = "closed" \/ (ui'.w = w /\ ses'[w].subs = <<"ok">>)
                /\ ~Live(w)' \/ ses'[w].subs = <<"ok">>
           /\ ~slots[i].connected => w \notin tabs' /\ ses'[w].subs # <<"ok">>
  PROVE  SlotInv(i)'
<1>1. IsTelnet' = IsTelnet
  BY DEF IsTelnet
<1>2. built \in Nat /\ w \in Nat /\ slots[i] \in SlotRec
  BY Typed, Numbers DEF SlotRec
<1>3. SlotState(i)'
  <2>1. CASE w = 0
    BY <1>2, <2>1 DEF SlotInv, SlotState, FreeStream
  <2>2. CASE w # 0
    BY <1>2, <2>2 DEF SlotInv, SlotState
  <2> QED BY <2>1, <2>2
<1>4. Sorted(down[i])'
  BY DEF SlotInv
<1>5. ASSUME conn = "up", w = 0 PROVE Handshake(i)'
  BY <1>1, <1>2, <1>5 DEF SlotInv, Handshake, Phase, Idle, Requested, Refused, Running, Closed, SlotState
<1>6. ASSUME conn = "up", w # 0 PROVE Handshake(i)'
  <2>1. Handshake(i)
    BY <1>6 DEF SlotInv
  <2>2. Phase(i)' /\ (Running(i)' <=> Running(i))
    BY <1>6, <2>1 DEF Handshake, Phase, Idle, Requested, Refused, Running, Closed
  <2>3. Fresh(i)'
    BY <1>6, <2>1 DEF Handshake, Fresh, SlotInv, SlotState
  <2>4. Cancelled(i)'
    BY <1>1, <1>6, <2>1 DEF Handshake, Cancelled
  <2>5. ASSUME Running(i) PROVE Told(i)' /\ Asked(i)' /\ Expected(i)'
    <3>1. Told(i)'
      BY <1>1, <2>1, <2>5 DEF Handshake, Told
    <3>2. Asked(i)'
      BY <1>6, <2>1, <2>5 DEF Handshake, Asked
    <3>3. Expected(i)'
      BY <1>6, <2>1, <2>5 DEF Handshake, Expected
    <3> QED BY <3>1, <3>2, <3>3
  <2> QED BY <2>2, <2>3, <2>4, <2>5 DEF Handshake
<1> QED BY <1>3, <1>4, <1>5, <1>6 DEF SlotInv

\* A slot that is not touched, nor its session.
LEMMA SlotUntouched ==
  ASSUME IInv, NEW i \in Slots, NEW w, w = slots[i].owner,
         slots'[i] = slots[i], up'[i] = up[i], down'[i] = down[i], back'[i] = back[i],
         conn' = conn, setup' = setup, built' >= built, built' \in Nat,
         w # 0 => ses'[w] = ses[w] /\ (w \in tabs' <=> w \in tabs) /\ (Live(w) => ui' = ui)
  PROVE  SlotInv(i)'
<1>1. TypeOK /\ WireOK /\ SlotInv(i)
  BY DEF IInv
<1>2. CASE w = 0
  BY <1>1, <1>2, SlotKept
<1>3. CASE w # 0
  <2>1. w \in Sessions
    BY <1>1, <1>3, Typed, Numbers DEF SlotRec, Sessions
  <2>2. WizardState(w)
    BY <2>1 DEF IInv, SessionInv
  <2>3. Live(w)' <=> Live(w)
    BY <1>3 DEF Live
  <2>4. \A s : AtStep(w, s)' <=> AtStep(w, s)
    BY <1>3, <2>3 DEF AtStep, Live
  <2>5. SlotState(i)
    BY <1>1 DEF SlotInv
  <2>6. Going(w)' <=> Going(w)
    BY <1>3, <2>3 DEF Going
  <2>7. AskingFp(w)' => AskingFp(w)
    BY <1>3, <2>4 DEF AskingFp
  <2>8. AskingCred(w)' => AskingCred(w)
    BY <1>3, <2>4 DEF AskingCred
  <2>9. slots[i].initing => Dull(w)'
    BY <1>3, <2>4, <2>5 DEF Dull, SlotState
  <2>10. slots[i].connected =>
                /\ w \in tabs' \/ ses[w].sender = "closed" \/ (ui'.w = w /\ ses'[w].subs = <<"ok">>)
                /\ ~Live(w)' \/ ses'[w].subs = <<"ok">>
    <3>1. <<>> # <<"ok">>
      OBVIOUS
    <3>2. CASE Live(w)
      BY <1>3, <2>3, <2>5, <3>2 DEF SlotState
    <3>3. CASE ~Live(w)
      BY <1>3, <2>2, <2>3, <2>5, <3>1, <3>3 DEF SlotState, WizardState
    <3> QED BY <3>2, <3>3
  <2>11. ~slots[i].connected => w \notin tabs' /\ ses'[w].subs # <<"ok">>
    BY <1>3, <2>5 DEF SlotState
  <2> QED BY <1>1, <1>3, <2>6, <2>7, <2>8, <2>9, <2>10, <2>11, SlotKept
<1> QED BY <1>2, <1>3

LEMMA OwnersDiffer ==
  ASSUME IInv, NEW i \in Slots, NEW j \in Slots, i # j, slots[i].owner # 0
  PROVE  slots[j].owner # slots[i].owner
BY DEF IInv, SlotInv, SlotState

LEMMA OwnerTyped ==
  ASSUME IInv, NEW i \in Slots, slots[i].owner # 0
  PROVE  slots[i].owner \in Sessions
BY Typed, Numbers DEF IInv, SlotRec, Sessions

\* When nothing is due, the wizard that has no outcome waits in the window.
LEMMA QuietFacts ==
  ASSUME IInv, Quiet
  PROVE  /\ got = 0
         /\ \A w \in Sessions : ses[w].subs = <<>>
         /\ \A w \in Sessions : Live(w) =>
              /\ w = built /\ ui.w = w /\ inputting /\ ui.mounted /\ ui.loop = "waiting" /\ ~ses[w].closed
              /\ ui.closeWait /\ ~ui.leaving /\ ~ui.cancelled /\ ~ui.disabled /\ ui.cur \in Steps \ Outcomes
         /\ ui.mounted => inputting
         /\ ~(ui.w = 0 /\ inputting)
         /\ ui.w # 0 => ui.mounted /\ ui.w \in Sessions /\ ui.w = built
<1>1. TypeOK /\ WireOK /\ ComponentState
  BY DEF IInv
<1>2. ui \in UiRec /\ built \in 0 .. MaxSessions
  BY <1>1, Typed
<1>3. got = 0 /\ ~LoopDue /\ ~LeaveDue /\ ~UnmountDue /\ ~MountDue /\ ~ForgetDue
  BY DEF Quiet
<1>4. ~(ui.w = 0 /\ inputting) /\ (ui.mounted => inputting)
  BY <1>3 DEF MountDue, UnmountDue
<1>5. ASSUME NEW w \in Sessions, Live(w)
      PROVE  /\ w = built /\ ui.w = w /\ ui.loop = "waiting" /\ ses[w].subs = <<>>
  <2>1. w = built /\ ui.w = w
    BY <1>4, <1>5 DEF IInv, SessionInv, WizardState
  <2>2. w # 0
    BY <1>5, Numbers DEF Sessions
  <2> QED BY <1>1, <1>3, <1>5, <2>1, <2>2 DEF ComponentState, LoopDue
<1>6. ASSUME NEW w \in Sessions, Live(w)
      PROVE  /\ inputting /\ ui.mounted /\ ~ses[w].closed
             /\ ui.closeWait /\ ~ui.leaving /\ ~ui.cancelled /\ ~ui.disabled /\ ui.cur \in Steps \ Outcomes
  <2>1. w # 0 /\ <<>> # <<"error">>
    BY <1>6, Numbers DEF Sessions
  <2>2. ~ses[w].closed
    BY <1>5, <1>6, <2>1 DEF IInv, SessionInv, WizardState
  <2> QED BY <1>1, <1>2, <1>4, <1>5, <1>6, <2>1, <2>2 DEF ComponentState, UiRec
<1>7. \A w \in Sessions : ses[w].subs = <<>>
  BY <1>5 DEF IInv, SessionInv, WizardState
<1>8. ASSUME ui.w # 0 PROVE ui.mounted /\ ui.w \in Sessions /\ ui.w = built
  <2>1. ui.w \in Sessions /\ ui.w = built
    BY <1>1, <1>2, <1>8, Numbers DEF ComponentState, UiRec, Sessions
  <2>2. CASE Live(built)
    BY <1>6, <2>1, <2>2
  <2>3. CASE ~Live(built)
    <3>1. ui.loop = "ended"
      BY <1>1, <1>8, <2>3 DEF ComponentState
    <3> QED BY <1>3, <1>8, <2>1, <3>1 DEF ForgetDue
  <2> QED BY <2>1, <2>2, <2>3
<1> QED BY <1>3, <1>4, <1>5, <1>6, <1>7, <1>8
----------------------------------------------------------------------------
(* The Connect window and the socket.                                       *)

\* Who connects finds an empty window.
LEMMA WindowEmpty ==
  ASSUME IInv, Quiet, ~inputting
  PROVE  ui.w = 0 /\ \A w \in Sessions : ~Live(w)
BY QuietFacts

LEMMA StoppedWindow ==
  ASSUME IInv, ui.w = 0, ~inputting
  PROVE  \A w \in Sessions : ~Live(w)
<1> SUFFICES ASSUME NEW w \in Sessions, Live(w) PROVE FALSE
  OBVIOUS
<1>1. WizardState(w) /\ w # 0
  BY Numbers DEF IInv, SessionInv, Sessions
<1> QED BY <1>1 DEF WizardState

LEMMA InvRunConnect ==
  ASSUME IInv, RunConnect
  PROVE  IInv'
<1>1. TypeOK /\ WireOK /\ LockState /\ ComponentState
  BY DEF IInv
<1>2. /\ dials \in Nat /\ got = 0 /\ built \in Nat /\ ~inputting /\ dials = 0 /\ Quiet
      /\ built + dials < MaxSessions /\ MaxSessions \in Nat
  BY <1>1, Typed, Numbers, QuietFacts DEF RunConnect, MayConnect, LockState
<1>3. ui.w = 0
  BY <1>2, WindowEmpty
<1>4. UNCHANGED <<setup, conn, inputting, built, tabs, ses, ui, slots, up, down, back, store, stray>>
  BY DEF RunConnect, wireVars
<1>5. \/ conn # "none" /\ got' = 1 /\ dials' = 0 /\ spent' = spent
      \/ conn = "none" /\ got' = 0 /\ dials' = 1 /\ spent' = spent + 1
  BY <1>2 DEF RunConnect
<1>6. lock' = TRUE
  BY DEF RunConnect
<1>7. TypeOK'
  BY <1>1, <1>4, <1>5, <1>6 DEF TypeOK
<1>8. LockState'
  BY <1>2, <1>3, <1>4, <1>5, <1>6 DEF LockState
<1>9. WireOK' /\ ComponentState' /\ NoStrayFrame'
  BY <1>1, <1>4 DEF IInv, WireOK, ComponentState, NoStrayFrame, Live
<1>10. \A v \in Sessions : SessionInv(v)'
  <2> SUFFICES ASSUME NEW v \in Sessions PROVE SessionInv(v)'
    OBVIOUS
  <2>1. SessionInv(v)
    BY DEF IInv
  <2> QED BY <1>1, <1>2, <1>4, <2>1, SessionKept DEF Owns
<1>11. \A j \in Slots : SlotInv(j)'
  BY <1>2, <1>4, SlotUntouched
<1> QED BY <1>7, <1>8, <1>9, <1>10, <1>11 DEF IInv

LEMMA InvDialDone ==
  ASSUME IInv, DialDone
  PROVE  IInv'
<1>1. TypeOK /\ WireOK /\ LockState /\ ComponentState
  BY DEF IInv
<1>2. /\ dials = 1 /\ got = 0 /\ built \in Nat /\ ~inputting /\ ui.w = 0 /\ conn = "none"
      /\ built + dials + got <= MaxSessions /\ MaxSessions \in Nat
  BY <1>1, Typed, Numbers DEF DialDone, LockState
<1>3. \A v \in Sessions : ~Live(v)
  BY <1>2, StoppedWindow
<1>4. UNCHANGED <<setup, spent, lock, inputting, built, tabs, ses, ui, slots, up, down, back, store, stray>>
  BY DEF DialDone, wireVars, homeVars
<1>5. dials' = 0 /\ conn' = "up" /\ got' = 1
  BY <1>2 DEF DialDone
<1>7. TypeOK'
  BY <1>1, <1>4, <1>5 DEF TypeOK
<1>8. LockState'
  BY <1>1, <1>2, <1>4, <1>5 DEF LockState
<1>9. WireOK' /\ ComponentState' /\ NoStrayFrame'
  BY <1>1, <1>2, <1>4 DEF IInv, WireOK, ComponentState, NoStrayFrame, Live
<1>10. \A v \in Sessions : SessionInv(v)'
  <2> SUFFICES ASSUME NEW v \in Sessions PROVE SessionInv(v)'
    OBVIOUS
  <2>1. SessionInv(v)
    BY DEF IInv
  <2> QED BY <1>1, <1>2, <1>3, <1>4, <2>1, SessionKept DEF Owns
<1>11. \A j \in Slots : SlotInv(j)'
  <2> SUFFICES ASSUME NEW j \in Slots PROVE SlotInv(j)'
    OBVIOUS
  <2>1. SlotState(j) /\ Sorted(down[j])
    BY DEF IInv, SlotInv
  <2>2. slots[j] = FreeStream /\ up[j] = <<>> /\ down[j] = <<>> /\ back[j] = FreeBack
    BY <1>2, <2>1 DEF SlotState
  <2>3. SlotState(j)'
    BY <1>4, <1>5, <2>2, Numbers DEF SlotState, FreeStream
  <2>4. Handshake(j)'
    BY <1>4, <2>2 DEF Handshake, Phase, Idle, Running, FreeStream
  <2> QED BY <1>4, <2>1, <2>3, <2>4 DEF SlotInv
<1> QED BY <1>7, <1>8, <1>9, <1>10, <1>11 DEF IInv

LEMMA InvDialFailed ==
  ASSUME IInv, DialFailed
  PROVE  IInv'
<1>1. TypeOK /\ WireOK /\ LockState /\ ComponentState
  BY DEF IInv
<1>2. /\ dials = 1 /\ got = 0 /\ built \in Nat /\ ~inputting /\ ui.w = 0
      /\ built + dials + got <= MaxSessions /\ MaxSessions \in Nat
  BY <1>1, Typed, Numbers DEF DialFailed, LockState
<1>3. UNCHANGED <<setup, conn, spent, got, built, tabs, ses, ui, slots, up, down, back, store, stray>>
  BY DEF DialFailed, wireVars
<1>4. dials' = 0 /\ lock' = FALSE /\ inputting' = FALSE
  BY <1>2 DEF DialFailed, LockAfterFailure
<1>5. \A v \in Sessions : ~Live(v)
  BY <1>2, StoppedWindow
<1>7. TypeOK'
  <2>1. dials' \in Nat /\ lock' \in BOOLEAN /\ inputting' \in BOOLEAN
    BY <1>4
  <2> QED BY <1>1, <1>3, <2>1 DEF TypeOK
<1>8. LockState'
  BY <1>1, <1>2, <1>3, <1>4 DEF LockState
<1>9. WireOK' /\ ComponentState' /\ NoStrayFrame'
  BY <1>1, <1>2, <1>3, <1>4 DEF IInv, WireOK, ComponentState, NoStrayFrame, Live
<1>10. \A v \in Sessions : SessionInv(v)'
  <2> SUFFICES ASSUME NEW v \in Sessions PROVE SessionInv(v)'
    OBVIOUS
  <2>1. SessionInv(v)
    BY DEF IInv
  <2> QED BY <1>1, <1>2, <1>3, <1>5, <2>1, SessionKept DEF Owns
<1>11. \A j \in Slots : SlotInv(j)'
  BY <1>2, <1>3, SlotUntouched
<1> QED BY <1>7, <1>8, <1>9, <1>10, <1>11 DEF IInv
----------------------------------------------------------------------------
(* A stream is requested.                                                   *)

LEMMA DullStart ==
  ASSUME IInv, NEW w \in Sessions, ses[w].sender = "none"
  PROVE  Dull(w) /\ ~ses[w].accepted /\ ses[w].slot = NumSlots /\ ~Owns(w)
<1>1. Dull(w) /\ ~ses[w].accepted /\ ses[w].slot = NumSlots
  BY DEF IInv, SessionInv, SenderState
<1> QED BY <1>1, Numbers DEF Owns, Slots

LEMMA RequestKept ==
  ASSUME IInv, CanRequest, NEW w \in Sessions, Request(w), ses[w].sender = "none", conn # "none",
         NEW r \in SesRec, ses' = [ses EXCEPT ![w] = r],
         r.slot = FreeSlot, r.sender = "open", ~r.accepted, r.saving = ses[w].saving,
         r.subs = <<"wait">>, r.at = "live",
         \A v \in Sessions \ {w} : ~Live(v),
         built' >= built, built' \in Nat, w <= built',
         UNCHANGED <<setup, conn, down, back, tabs>>
  PROVE  /\ slots' \in [Slots -> SlotRec] /\ up' \in [Slots -> UpSeq]
         /\ Owns(w)' /\ \A v \in Sessions \ {w} : Owns(v) => Owns(v)'
         /\ \A j \in Slots : SlotInv(j)'
<1>1. TypeOK /\ WireOK
  BY DEF IInv
<1>2. /\ ses \in [Sessions -> SesRec] /\ slots \in [Slots -> SlotRec] /\ up \in [Slots -> UpSeq]
      /\ w \in 1 .. MaxSessions
  BY <1>1, Typed DEF Sessions
<1>3. PICK f \in Slots : f = FreeSlot /\ slots[f].owner = 0
  BY LeastSlot
<1>4. Opens = [frame |-> "initial", connected |-> FALSE]
  BY <1>1, StartFacts
<1> DEFINE new == [owner |-> w, initing |-> TRUE, shut |-> FALSE, connected |-> FALSE]
<1>5. slots' = [slots EXCEPT ![f] = new]
  <2>1. [FreeStream EXCEPT !.owner = w, !.initing = TRUE, !.connected = Opens.connected] = new
    <3>1. Opens.connected = FALSE
      BY <1>4
    <3>2. ASSUME NEW x, x = [FreeStream EXCEPT !.owner = w, !.initing = TRUE, !.connected = FALSE]
          PROVE  x = new
      BY <3>2 DEF FreeStream
    <3> QED BY <3>1, <3>2
  <2> QED BY <1>3, <2>1 DEF Request
<1>6. up' = IF conn = "up" THEN [up EXCEPT ![f] = Append(up[f], "initial")] ELSE up
  BY <1>3, <1>4 DEF Request
<1>7. /\ f \in Slots /\ slots[f].owner = 0 /\ slots'[f] = new /\ r.slot = f
      /\ slots'[f].owner = w /\ slots'[f].initing /\ ~slots'[f].shut /\ ~slots'[f].connected
      /\ \A j \in Slots \ {f} : slots'[j] = slots[j]
  BY <1>2, <1>3, <1>5
<1>8. slots' \in [Slots -> SlotRec]
  <2>1. new \in SlotRec
    BY <1>2, Numbers DEF SlotRec
  <2> HIDE DEF new
  <2> QED BY <1>2, <1>5, <1>7, <2>1
<1>9. Append(up[f], "initial") \in UpSeq /\ up[f] \in UpSeq
  BY <1>2, <1>7 DEF UpSeq
<1>10. up' \in [Slots -> UpSeq]
  BY <1>2, <1>6, <1>7, <1>9
<1>11. \A j \in Slots \ {f} : up'[j] = up[j]
  BY <1>2, <1>6, <1>7
<1>12. ses'[w] = r /\ \A v \in Sessions \ {w} : ses'[v] = ses[v]
  BY <1>2
<1>13. Owns(w)'
  BY <1>7, <1>12 DEF Owns
<1>14. ASSUME NEW v \in Sessions \ {w}, Owns(v) PROVE Owns(v)'
  BY <1>7, <1>12, <1>14, Numbers DEF Owns, Sessions
<1>15. Dull(w)'
  <2>1. Dull(w)
    BY DullStart
  <2>2. \A s : ~AtStep(w, s)'
    BY <1>12 DEF AtStep
  <2>3. r.subs = <<"wait">> /\ <<"wait">> # <<"ok">> /\ \A q \in Questions : <<"wait">> # <<q>>
    BY DEF Questions
  <2> QED BY <1>12, <2>1, <2>2, <2>3 DEF Dull
<1>16. SlotInv(f)'
  <2>1. SlotState(f) /\ Sorted(down[f]) /\ (conn = "up" => Handshake(f))
    BY <1>7 DEF IInv, SlotInv
  <2>2. SlotState(f)'
    <3>1. w # 0 /\ w \in Sessions
      BY <1>2, Numbers
    <3>2. ses'[w].slot = f /\ ses'[w].sender = "open" /\ ~ses'[w].accepted /\ ses'[w].subs = <<"wait">>
      BY <1>7, <1>12
    <3>3. w \notin tabs'
      BY <1>15 DEF Dull
    <3>4. conn # "up" => up'[f] = <<>> /\ down'[f] = <<>> /\ back'[f] = FreeBack
      BY <1>6, <2>1 DEF SlotState
    <3>5. <<"wait">> # <<"ok">> /\ conn' = conn
      OBVIOUS
    <3> HIDE DEF new
    <3> QED BY <1>7, <1>15, <3>1, <3>2, <3>3, <3>4, <3>5 DEF SlotState
  <2>3. ASSUME conn = "up" PROVE Handshake(f)'
    <3>1. Handshake(f)
      BY <2>1, <2>3
    <3>2. Idle(f)
      BY <1>7, <3>1 DEF Handshake, Phase, Requested, Refused, Running, Closed
    <3>3. up'[f] = Append(up[f], "initial")
      BY <1>2, <1>6, <1>7, <2>3
    <3>4. Append(<<>>, "initial") = <<"initial">> /\ Append(<<"completed">>, "initial") = <<"completed", "initial">>
      <4>1. Append(<<"completed">>, "initial") = <<"completed", "initial">>
        BY JoinOne
      <4> QED BY <4>1
    <3>5. w # 0
      BY <1>2, Numbers
    <3>6. Requested(f)'
      <4>1. /\ \/ up[f] = <<>> /\ back[f] = FreeBack
               \/ up[f] = <<"completed">> /\ back[f].at = "closed"
            /\ down[f] = <<>>
        BY <3>2 DEF Idle
      <4>2. \/ up'[f] = <<"initial">> /\ back'[f] = FreeBack
            \/ up'[f] = <<"completed", "initial">> /\ back'[f].at = "closed"
        BY <3>3, <3>4, <4>1
      <4> HIDE DEF new
      <4> QED BY <1>7, <3>5, <4>1, <4>2 DEF Requested
    <3>7. ~Running(f)'
      BY <3>2 DEF Running, Idle, FreeBack
    <3>8. ~Has(down'[f], "fingerprint")
      BY <3>2, HasNone DEF Idle
    <3>9. Going(w)'
      BY <1>12 DEF Going, Live
    <3>10. Fresh(f)' /\ Cancelled(f)'
      BY <1>7, <1>12, <3>8, <3>9 DEF Fresh, Cancelled
    <3> QED BY <3>6, <3>7, <3>10 DEF Handshake, Phase
  <2> QED BY <2>1, <2>2, <2>3 DEF SlotInv
<1>17. ASSUME NEW j \in Slots \ {f} PROVE SlotInv(j)'
  <2>1. slots[j].owner # w
    <3>1. SlotState(j)
      BY DEF IInv, SlotInv
    <3>2. w # 0
      BY <1>2, Numbers
    <3> QED BY <3>1, <3>2 DEF SlotState
  <2>2. slots[j].owner # 0 => slots[j].owner \in Sessions
    BY OwnerTyped
  <2> QED BY <1>7, <1>11, <1>12, <2>1, <2>2, SlotUntouched
<1> QED BY <1>8, <1>10, <1>13, <1>14, <1>16, <1>17

LEMMA InvRunCallback ==
  ASSUME IInv, RunCallback
  PROVE  IInv'
<1>1. TypeOK /\ WireOK /\ LockState /\ ComponentState
  BY DEF IInv
<1>2. /\ dials = 0 /\ got = 1 /\ built \in Nat /\ ~inputting /\ ui.w = 0 /\ conn # "none"
      /\ built + 1 \in 1 .. MaxSessions /\ ses \in [Sessions -> SesRec] /\ tabs \subseteq Sessions
      /\ slots \in [Slots -> SlotRec] /\ up \in [Slots -> UpSeq]
  BY <1>1, Typed, Numbers DEF RunCallback, LockState
<1>3. \A v \in Sessions : ~Live(v)
  BY <1>2, StoppedWindow
<1>4. PICK w \in Sessions : w = built + 1 /\ w # 0 /\ w > built
  BY <1>2 DEF Sessions
<1>5. UNCHANGED <<setup, conn, dials, spent, tabs, ui, down, back, store, stray>>
  BY DEF RunCallback
<1>6. got' = 0 /\ lock' = FALSE /\ built' = w
  BY <1>2, <1>4 DEF RunCallback
<1>7. ses[w] = NoSession
  BY <1>4 DEF IInv, SessionInv, WizardState
<1>8. Dull(w) /\ ~Owns(w)
  BY <1>4, <1>7, DullStart DEF NoSession
<1>9. First(w) = IF Executes(w) THEN [step |-> "wait", started |-> TRUE, requests |-> TRUE]
                 ELSE [step |-> "initial", started |-> FALSE, requests |-> FALSE]
  BY <1>1, FirstFacts
<1> DEFINE rejects == (How(w) = "launch" /\ ~LaunchAccepts) \/ (Executes(w) /\ ~CanRequest)
<1>10. IF rejects THEN ses' = [ses EXCEPT ![w].at = "over"] /\ UNCHANGED <<inputting, slots, up>>
       ELSE /\ inputting' = TRUE
            /\ IF First(w).requests THEN ses' = [ses EXCEPT ![w] = WithStream(Build(w))] /\ Request(w)
               ELSE ses' = [ses EXCEPT ![w] = Build(w)] /\ UNCHANGED <<slots, up>>
  BY <1>4 DEF RunCallback
<1>11. LockState' /\ NoStrayFrame'
  BY <1>1, <1>2, <1>5, <1>6, <1>4 DEF LockState, IInv, NoStrayFrame
<1>12. ui' = NoUi /\ ui'.w = 0
  BY <1>1, <1>2, <1>5 DEF ComponentState, NoUi
<1> DEFINE b == Build(w)
<1>13. /\ b \in SesRec /\ b.at = "live" /\ ~b.closed /\ b.slot = NumSlots /\ b.sender = "none"
       /\ b.saving = "no" /\ ~b.accepted /\ b.clicked = "none"
       /\ b.subs = <<First(w).step>> /\ (b.started <=> Executes(w))
  <2> DEFINE c == (NewWizard(w).cached /\ ~IsTelnet)
             k == IF How(w) \in {"prompted", "preset"} THEN store ELSE "none"
  <2>1. c \in BOOLEAN
    BY <1>1, StartFacts
  <2>2. k \in Keys \cup {"none"}
    BY <1>1 DEF TypeOK
  <2>3. First(w).step \in Steps /\ First(w).started \in BOOLEAN /\ (First(w).started <=> Executes(w))
    <3>1. CASE Executes(w)
      BY <1>9, <3>1, StepNames
    <3>2. CASE ~Executes(w)
      BY <1>9, <3>2, StepNames
    <3> QED BY <3>1, <3>2
  <2>4. <<First(w).step>> \in Seq(Steps)
    BY <2>3
  <2>5. b = [NoSession EXCEPT !.at = "live", !.subs = <<First(w).step>>, !.started = First(w).started,
                              !.cached = c, !.known = k]
    BY DEF Build
  <2> HIDE DEF c, k, b
  <2>6. b = [at |-> "live", subs |-> <<First(w).step>>, started |-> First(w).started, closed |-> FALSE,
              slot |-> NumSlots, sender |-> "none", known |-> k, key |-> "none",
              cached |-> c, clicked |-> "none", saving |-> "no", accepted |-> FALSE]
    BY <2>5 DEF NoSession
  <2>7. b \in SesRec
    BY <2>1, <2>2, <2>3, <2>4, <2>6, Numbers DEF SesRec
  <2> QED BY <2>3, <2>6, <2>7
<1> HIDE DEF b
\* Nobody but the new wizard can be live.
<1>14. ASSUME NEW r \in SesRec, ses' = [ses EXCEPT ![w] = r],
              \A v \in Sessions \ {w} : Owns(v) => Owns(v)'
       PROVE  /\ ses' \in [Sessions -> SesRec] /\ ses'[w] = r
              /\ \A v \in Sessions \ {w} : SessionInv(v)'
  <2>1. ses' \in [Sessions -> SesRec] /\ ses'[w] = r /\ \A v \in Sessions \ {w} : ses'[v] = ses[v]
    BY <1>2, <1>4, <1>14
  <2>2. ASSUME NEW v \in Sessions \ {w} PROVE SessionInv(v)'
    <3>1. SessionInv(v)
      BY DEF IInv
    <3>2. built' >= built /\ built' \in Nat
      BY <1>2, <1>4, <1>6
    <3> QED BY <1>1, <1>3, <1>5, <1>14, <2>1, <3>1, <3>2, SessionKept
  <2> QED BY <2>1, <2>2
<1>15. ASSUME NEW r \in SesRec, ses' = [ses EXCEPT ![w] = r], UNCHANGED <<slots, up>>
       PROVE  \A j \in Slots : SlotInv(j)'
  <2> SUFFICES ASSUME NEW j \in Slots PROVE SlotInv(j)'
    OBVIOUS
  <2>1. slots[j].owner # w
    <3>1. SlotState(j)
      BY DEF IInv, SlotInv
    <3>2. ses[w].sender = "none"
      BY <1>7 DEF NoSession
    <3> QED BY <1>4, <3>1, <3>2 DEF SlotState
  <2>2. slots[j].owner # 0 => slots[j].owner \in Sessions
    BY OwnerTyped
  <2>3. slots[j].owner # 0 => ses'[slots[j].owner] = ses[slots[j].owner] /\ ~Live(slots[j].owner)
    BY <1>2, <1>3, <1>15, <2>1, <2>2
  <2>4. built' >= built /\ built' \in Nat
    BY <1>2, <1>4, <1>6
  <2> QED BY <1>5, <1>15, <2>3, <2>4, SlotUntouched
<1>16. TypeOK' /\ WireOK'
       <=> ses' \in [Sessions -> SesRec] /\ inputting' \in BOOLEAN /\ slots' \in [Slots -> SlotRec]
           /\ up' \in [Slots -> UpSeq]
  <2>1. got' \in Nat /\ lock' \in BOOLEAN /\ built' \in 0 .. MaxSessions
    <3>1. got' \in Nat /\ built' \in 0 .. MaxSessions
      BY <1>2, <1>4, <1>6, Numbers
    <3>2. lock' \in BOOLEAN
      BY <1>6
    <3> QED BY <3>1, <3>2
  <2> QED BY <1>1, <1>5, <2>1 DEF TypeOK, WireOK, SesRec, SlotRec, UpSeq
<1>17. CASE rejects
  <2> DEFINE r == [NoSession EXCEPT !.at = "over"]
  <2>1. ses' = [ses EXCEPT ![w] = r] /\ UNCHANGED <<inputting, slots, up>>
    <3>1. ses' = [ses EXCEPT ![w].at = "over"] /\ UNCHANGED <<inputting, slots, up>>
      BY <1>10, <1>17
    <3>2. [ses EXCEPT ![w].at = "over"] = [ses EXCEPT ![w] = [ses[w] EXCEPT !.at = "over"]]
      BY <1>2, <1>4
    <3> QED BY <1>7, <3>1, <3>2
  <2>2. r \in SesRec
    BY NoSessionTyped DEF SesRec
  <2>3. /\ r.at = "over" /\ r.subs = <<>> /\ ~r.closed /\ r.slot = NumSlots /\ r.sender = "none"
        /\ r.saving = "no" /\ ~r.accepted
    BY DEF NoSession
  <2> HIDE DEF r
  <2>4. \A v \in Sessions \ {w} : Owns(v) => Owns(v)'
    <3>1. \A v \in Sessions \ {w} : ses'[v] = ses[v]
      BY <1>2, <2>1
    <3> QED BY <2>1, <3>1 DEF Owns
  <2>5. ses' \in [Sessions -> SesRec] /\ ses'[w] = r /\ \A v \in Sessions \ {w} : SessionInv(v)'
    BY <1>14, <2>1, <2>2, <2>4
  <2>6. ~Live(w)' /\ \A s : ~AtStep(w, s)'
    BY <2>3, <2>5 DEF Live, AtStep
  <2>7. SessionInv(w)'
    <3>1. WizardState(w)'
      BY <1>4, <1>6, <2>3, <2>5, <2>6 DEF WizardState
    <3>2. Dull(w)'
      <4>1. <<>> # <<"ok">> /\ \A q \in Questions : <<>> # <<q>>
        OBVIOUS
      <4> QED BY <1>5, <1>8, <2>3, <2>5, <2>6, <4>1 DEF Dull
    <3>3. SenderState(w)'
      BY <1>5, <1>8, <2>3, <2>5, <2>6, <3>2 DEF SenderState, Going, Dull
    <3>4. PromptState(w)' /\ Justified(w)'
      BY <2>3, <2>5, <2>6 DEF PromptState, Justified
    <3> QED BY <3>1, <3>3, <3>4 DEF SessionInv
  <2>8. ComponentState'
    BY <1>2, <1>12, <2>1, <2>6, <1>6 DEF ComponentState, NoUi
  <2> QED BY <1>1, <1>2, <1>11, <1>15, <1>16, <2>1, <2>2, <2>5, <2>7, <2>8, Typed DEF IInv
<1>18. CASE ~rejects /\ ~Executes(w)
  <2>1. ~First(w).requests /\ First(w).step = "initial"
    BY <1>9, <1>18
  <2>2. inputting' = TRUE /\ ses' = [ses EXCEPT ![w] = b] /\ UNCHANGED <<slots, up>>
    BY <1>10, <1>18, <2>1 DEF b
  <2>4. \A v \in Sessions \ {w} : Owns(v) => Owns(v)'
    <3>1. \A v \in Sessions \ {w} : ses'[v] = ses[v]
      BY <1>2, <2>2
    <3> QED BY <2>2, <3>1 DEF Owns
  <2>5. ses' \in [Sessions -> SesRec] /\ ses'[w] = b /\ \A v \in Sessions \ {w} : SessionInv(v)'
    BY <1>13, <1>14, <2>2, <2>4
  <2>6. Live(w)' /\ \A s : ~AtStep(w, s)'
    BY <1>4, <1>12, <1>13, <2>5 DEF Live, AtStep
  <2>7. SessionInv(w)'
    <3>0. b.subs = <<"initial">> /\ "initial" \in Steps
      BY <1>13, <2>1, StepNames
    <3>1. WizardState(w)'
      <4>1. ~(w > built') /\ w = built'
        BY <1>2, <1>4, <1>6
      <4>2. inputting' /\ ~ses'[w].closed /\ ses'[w].subs = <<"initial">>
        BY <1>13, <2>2, <2>5, <3>0
      <4> QED BY <1>12, <2>6, <3>0, <4>1, <4>2 DEF WizardState
    <3>2. Dull(w)'
      BY <1>5, <1>8, <1>13, <2>5, <2>6, <3>0 DEF Dull, Questions
    <3>3. SenderState(w)'
      BY <1>5, <1>8, <1>13, <2>5, <2>6, <3>0, <3>2 DEF SenderState, Going, Dull, Questions
    <3>4. PromptState(w)' /\ Justified(w)'
      BY <1>13, <2>5, <2>6 DEF PromptState, Justified
    <3> QED BY <3>1, <3>3, <3>4 DEF SessionInv
  <2>8. ComponentState'
    <3>1. ~ses'[w].closed /\ ses'[w].subs # <<>> /\ built' = w
      BY <1>6, <1>13, <2>5, <<First(w).step>> # <<>>
    <3> QED BY <1>12, <2>6, <3>1 DEF ComponentState, Live
  <2>9. inputting' \in BOOLEAN
    BY <2>2
  <2> QED BY <1>1, <1>2, <1>11, <1>13, <1>15, <1>16, <2>2, <2>5, <2>7, <2>8, <2>9, Typed DEF IInv
<1>19. CASE ~rejects /\ Executes(w)
  <2> DEFINE r == WithStream(b)
  <2>1. First(w).requests /\ First(w).step = "wait" /\ CanRequest
    BY <1>9, <1>19
  <2>2. inputting' = TRUE /\ ses' = [ses EXCEPT ![w] = r] /\ Request(w)
    BY <1>10, <1>19, <2>1 DEF b
  <2>3. FreeSlot \in Slots /\ FreeSlot \in 0 .. NumSlots
    BY <2>1, LeastSlot, Numbers DEF Slots
  <2>4. /\ r \in SesRec /\ r.at = "live" /\ ~r.closed /\ r.slot = FreeSlot /\ r.sender = "open"
        /\ r.saving = "no" /\ ~r.accepted /\ r.subs = <<"wait">> /\ r.started
    BY <1>13, <2>1, <2>3 DEF WithStream, SesRec
  <2> HIDE DEF r
  <2>5. ses[w].sender = "none" /\ ses[w].saving = "no"
    BY <1>7 DEF NoSession
  <2>6. /\ slots' \in [Slots -> SlotRec] /\ up' \in [Slots -> UpSeq]
        /\ Owns(w)' /\ \A v \in Sessions \ {w} : Owns(v) => Owns(v)'
        /\ \A j \in Slots : SlotInv(j)'
    <3>1. built' >= built /\ built' \in Nat /\ w <= built'
      BY <1>2, <1>4, <1>6
    <3> QED BY <1>2, <1>3, <1>4, <1>5, <2>1, <2>2, <2>4, <2>5, <3>1, RequestKept
  <2>7. ses' \in [Sessions -> SesRec] /\ ses'[w] = r /\ \A v \in Sessions \ {w} : SessionInv(v)'
    BY <1>14, <2>2, <2>4, <2>6
  <2>8. Live(w)' /\ \A s : ~AtStep(w, s)'
    BY <1>4, <1>12, <2>4, <2>7 DEF Live, AtStep
  <2>9. SessionInv(w)'
    <3>1. WizardState(w)'
      <4>1. ~(w > built') /\ w = built'
        BY <1>2, <1>4, <1>6
      <4>2. inputting' /\ ~ses'[w].closed /\ ses'[w].subs = <<"wait">> /\ "wait" \in Steps
        BY <2>2, <2>4, <2>7, StepNames
      <4> QED BY <1>12, <2>8, <4>1, <4>2 DEF WizardState
    <3>3. SenderState(w)'
      BY <1>5, <1>8, <2>4, <2>6, <2>7, <2>8 DEF SenderState, Going, Dull, Questions
    <3>4. PromptState(w)' /\ Justified(w)'
      BY <2>4, <2>7, <2>8 DEF PromptState, Justified
    <3> QED BY <3>1, <3>3, <3>4 DEF SessionInv
  <2>10. ComponentState'
    <3>1. ~ses'[w].closed /\ ses'[w].subs # <<>> /\ built' = w
      BY <1>6, <2>4, <2>7, <<"wait">> # <<>>
    <3> QED BY <1>12, <2>8, <3>1 DEF ComponentState, Live
  <2>11. inputting' \in BOOLEAN
    BY <2>2
  <2> QED BY <1>11, <1>16, <2>6, <2>7, <2>9, <2>10, <2>11 DEF IInv
<1> QED BY <1>17, <1>18, <1>19
----------------------------------------------------------------------------
(* The connector component.                                                 *)

\* One session changes, with the wire of its slot; the others do not notice.
LEMMA OthersKept ==
  ASSUME IInv, NEW w \in Sessions, NEW r \in SesRec, ses' = [ses EXCEPT ![w] = r],
         UNCHANGED <<setup, conn, built>>,
         \A j \in Slots : slots[j].owner # w =>
           slots'[j] = slots[j] /\ up'[j] = up[j] /\ down'[j] = down[j] /\ back'[j] = back[j],
         \A v \in Sessions \ {w} :
           (v \in tabs' <=> v \in tabs) /\ (Live(v) => ui' = ui /\ inputting' = inputting)
  PROVE  /\ ses' \in [Sessions -> SesRec] /\ ses'[w] = r
         /\ \A v \in Sessions \ {w} : ses'[v] = ses[v] /\ SessionInv(v)'
         /\ \A j \in Slots : slots[j].owner # w => SlotInv(j)'
<1>1. TypeOK /\ WireOK
  BY DEF IInv
<1>2. ses \in [Sessions -> SesRec] /\ built \in Nat
  BY <1>1, Typed, Numbers
<1>3. ses' \in [Sessions -> SesRec] /\ ses'[w] = r /\ \A v \in Sessions \ {w} : ses'[v] = ses[v]
  BY <1>2
<1>4. built' >= built /\ built' \in Nat
  BY <1>2
<1>5. ASSUME NEW v \in Sessions \ {w} PROVE SessionInv(v)'
  <2>1. SessionInv(v)
    BY DEF IInv
  <2>2. Owns(v) => Owns(v)'
    BY <1>3 DEF Owns
  <2> QED BY <1>1, <1>3, <1>4, <2>1, <2>2, SessionKept
<1>6. ASSUME NEW j \in Slots, slots[j].owner # w PROVE SlotInv(j)'
  <2>1. slots[j].owner # 0 => slots[j].owner \in Sessions
    BY OwnerTyped
  <2> QED BY <1>3, <1>4, <1>6, <2>1, SlotUntouched
<1> QED BY <1>3, <1>5, <1>6

LEMMA OneLive ==
  ASSUME IInv, NEW v \in Sessions, NEW w \in Sessions, Live(v), Live(w)
  PROVE  v = w
BY DEF IInv, SessionInv, WizardState

LEMMA InvMount ==
  ASSUME IInv, Mount
  PROVE  IInv'
<1>1. TypeOK /\ WireOK /\ LockState /\ ComponentState
  BY DEF IInv
<1>2. /\ ui.w = 0 /\ inputting /\ built \in 0 .. MaxSessions /\ built # 0 /\ dials + got # 1
      /\ Live(built) /\ ~ses[built].closed /\ ses[built].subs # <<>>
  BY <1>1, Typed DEF Mount, MountDue, ComponentState, LockState
<1>3. UNCHANGED <<setup, conn, dials, spent, got, lock, inputting, built, tabs, ses, slots, up, down, back, store, stray>>
  BY DEF Mount, sockVars, homeVars, wireVars
<1>4. PICK w \in Sessions : w = built
  BY <1>2, Numbers DEF Sessions
<1>5. ui' = [w |-> w, mounted |-> TRUE, cur |-> "empty", submitting |-> FALSE, working |-> FALSE,
             disabled |-> FALSE, cancelled |-> FALSE, loop |-> "waiting", closeWait |-> TRUE, leaving |-> FALSE]
  <2>1. ui' = [NoUi EXCEPT !.w = w, !.mounted = TRUE, !.loop = "waiting", !.closeWait = TRUE]
    BY <1>4 DEF Mount
  <2> QED BY <2>1 DEF NoUi
<1>6. TypeOK'
  <2>1. ui' \in UiRec
    BY <1>2, <1>4, <1>5 DEF UiRec
  <2> QED BY <1>1, <1>3, <2>1 DEF TypeOK, UiRec
<1>7. WireOK' /\ LockState' /\ NoStrayFrame'
  BY <1>1, <1>2, <1>3 DEF IInv, WireOK, LockState, NoStrayFrame
<1>8. ComponentState'
  BY <1>1, <1>2, <1>3, <1>4, <1>5 DEF ComponentState, Live, Outcomes
<1>9. \A s \in Steps : ~AtStep(w, s) /\ ~AtStep(w, s)'
  BY <1>2, <1>3, <1>4 DEF AtStep
<1>10. \A v \in Sessions : SessionInv(v)'
  <2> SUFFICES ASSUME NEW v \in Sessions PROVE SessionInv(v)'
    OBVIOUS
  <2>1. SessionInv(v)
    BY DEF IInv
  <2>2. CASE v = w
    <3>1. WizardState(w)'
      BY <1>2, <1>3, <1>4, <1>5, <2>1, <2>2 DEF SessionInv, WizardState, Live
    <3>2. \A s : ~AtStep(w, s) /\ ~AtStep(w, s)'
      BY <1>2, <1>3, <1>4 DEF AtStep
    <3>3. PromptState(w)' /\ Justified(w)'
      BY <1>3, <2>1, <2>2, <3>2 DEF SessionInv, PromptState, Justified
    <3>4. Dull(w)' <=> Dull(w)
      BY <1>3, <3>2 DEF Dull
    <3>5. SenderState(w)'
      BY <1>3, <2>1, <2>2, <3>2, <3>4 DEF SessionInv, SenderState, Owns, Live, Going, IsTelnet
    <3> QED BY <2>2, <3>1, <3>3, <3>5 DEF SessionInv
  <2>3. CASE v # w
    <3>1. ~Live(v)
      BY <1>2, <1>4, <2>3, OneLive
    <3>2. built' >= built /\ built' \in Nat
      BY <1>2, <1>3, Numbers
    <3> QED BY <1>1, <1>3, <2>1, <3>1, <3>2, SessionKept DEF Owns
  <2> QED BY <2>2, <2>3
<1>11. \A j \in Slots : SlotInv(j)'
  <2> SUFFICES ASSUME NEW j \in Slots PROVE SlotInv(j)'
    OBVIOUS
  <2>1. SlotInv(j) /\ SlotState(j)
    BY DEF IInv, SlotInv
  <2>2. built' >= built /\ built' \in Nat
    BY <1>2, <1>3, Numbers
  <2>3. CASE slots[j].owner = w
    <3>1. \A s : ~AtStep(w, s) /\ ~AtStep(w, s)'
      BY <1>2, <1>3, <1>4 DEF AtStep
    <3>2. (Dull(w)' <=> Dull(w)) /\ (AskingFp(w)' <=> AskingFp(w)) /\ (AskingCred(w)' <=> AskingCred(w))
      BY <1>3, <3>1 DEF Dull, AskingFp, AskingCred
    <3>3. (Live(w)' <=> Live(w)) /\ (Going(w)' <=> Going(w))
      BY <1>3 DEF Going, Live
    <3>4. w # 0
      BY Numbers DEF Sessions
    <3>5. slots[j].connected => w \in tabs \/ ses[w].sender = "closed"
      BY <1>2, <2>1, <2>3, <3>4 DEF SlotState
    <3> QED BY <1>1, <1>3, <2>1, <2>2, <2>3, <3>2, <3>3, <3>4, <3>5, SlotKept DEF SlotState
  <2>4. CASE slots[j].owner # w
    <3>1. slots[j].owner # 0 => slots[j].owner \in Sessions /\ ~Live(slots[j].owner)
      BY <1>2, <1>4, <2>4, OneLive, OwnerTyped
    <3> QED BY <1>3, <2>2, <3>1, SlotUntouched
  <2> QED BY <2>3, <2>4
<1> QED BY <1>6, <1>7, <1>8, <1>10, <1>11 DEF IInv

\* What happens to a component whose wizard is over disturbs no session.
LEMMA AfterOutcome ==
  ASSUME IInv, \A v \in Sessions : ~Live(v),
         UNCHANGED <<setup, conn, built, tabs, ses, slots, up, down, back>>
  PROVE  (\A v \in Sessions : SessionInv(v)') /\ (\A j \in Slots : SlotInv(j)')
<1>1. TypeOK /\ WireOK
  BY DEF IInv
<1>2. built' >= built /\ built' \in Nat
  BY <1>1, Typed, Numbers
<1>3. ASSUME NEW v \in Sessions PROVE SessionInv(v)'
  <2>1. SessionInv(v)
    BY DEF IInv
  <2> QED BY <1>1, <1>2, <2>1, SessionKept DEF Owns
<1>4. ASSUME NEW j \in Slots PROVE SlotInv(j)'
  <2>1. slots[j].owner # 0 => ~Live(slots[j].owner)
    BY OwnerTyped
  <2> QED BY <1>2, <2>1, SlotUntouched
<1> QED BY <1>3, <1>4

\* The loop has ended: the wizard is over.
LEMMA EndedFacts ==
  ASSUME IInv, ui.w # 0 \/ ui.mounted
  PROVE  /\ ui.w # 0 /\ ui.w \in Sessions /\ ui.w = built /\ dials + got = 0 /\ ~lock
         /\ (ui.loop = "ended" <=> ~Live(built))
         /\ \A v \in Sessions : Live(v) => v = built
<1>1. TypeOK /\ WireOK /\ LockState /\ ComponentState
  BY DEF IInv
<1>2. ui.w # 0
  BY <1>1 DEF ComponentState, NoUi
<1>3. ui.w \in Sessions /\ ui.w = built
  BY <1>1, <1>2, Typed, Numbers DEF ComponentState, Sessions
<1>4. dials + got = 0 /\ ~lock
  BY <1>1, <1>2, Typed DEF LockState
<1>5. ui.loop = "ended" <=> ~Live(built)
  BY <1>1, <1>2 DEF ComponentState
<1>6. \A v \in Sessions : Live(v) => v = built
  BY DEF IInv, SessionInv, WizardState
<1> QED BY <1>2, <1>3, <1>4, <1>5, <1>6

LEMMA InvLeave ==
  ASSUME IInv, Leave
  PROVE  IInv'
<1>1. TypeOK /\ WireOK /\ LockState /\ ComponentState
  BY DEF IInv
<1>2. ui.mounted /\ ui.leaving /\ ui.loop = "ended" /\ ui \in UiRec
  BY <1>1, Typed DEF Leave, LeaveDue
<1>3. /\ ui.w # 0 /\ ui.w = built /\ dials + got = 0 /\ ~Live(built)
      /\ \A v \in Sessions : ~Live(v)
  BY <1>2, EndedFacts
<1>4. UNCHANGED <<setup, conn, dials, spent, got, built, tabs, ses, slots, up, down, back, store, stray>>
  BY DEF Leave, sockVars, wireVars
<1>5. inputting' = FALSE /\ lock' = FALSE /\ ui' = [ui EXCEPT !.leaving = FALSE]
  BY DEF Leave
<1>6. ui' \in UiRec /\ inputting' \in BOOLEAN /\ lock' \in BOOLEAN
  BY <1>2, <1>5 DEF UiRec
<1>7. TypeOK' /\ WireOK' /\ NoStrayFrame'
  BY <1>1, <1>4, <1>6 DEF TypeOK, UiRec, WireOK, IInv, NoStrayFrame
<1>8. LockState'
  BY <1>1, <1>3, <1>4, <1>5 DEF LockState
<1>9. ComponentState'
  <2>1. /\ ui'.w = ui.w /\ ui'.loop = ui.loop /\ ui'.cur = ui.cur /\ ui'.submitting = ui.submitting
        /\ ui'.working = ui.working /\ ui'.disabled = ui.disabled /\ ui'.mounted = ui.mounted
        /\ ui'.closeWait = ui.closeWait /\ ~ui'.leaving
    BY <1>2, <1>5 DEF UiRec
  <2> QED BY <1>1, <1>3, <1>4, <1>5, <2>1 DEF ComponentState, Live
<1> QED BY <1>3, <1>4, <1>7, <1>8, <1>9, AfterOutcome DEF IInv

LEMMA InvForget ==
  ASSUME IInv, Forget
  PROVE  IInv'
<1>1. TypeOK /\ WireOK /\ LockState /\ ComponentState
  BY DEF IInv
<1>2. ui.w # 0 /\ ~ui.mounted /\ ui.loop = "ended"
  BY DEF Forget, ForgetDue
<1>3. /\ dials + got = 0 /\ ~Live(built) /\ \A v \in Sessions : ~Live(v)
  BY <1>2, EndedFacts
<1>4. UNCHANGED <<setup, conn, dials, spent, got, lock, inputting, built, tabs, ses, slots, up, down, back, store, stray>>
  BY DEF Forget, sockVars, homeVars, wireVars
<1>5. ui' = NoUi /\ ~inputting
  BY <1>1, <1>2 DEF Forget, ComponentState
<1>6. NoUi \in UiRec /\ NoUi.w = 0
  BY Numbers DEF NoUi, UiRec
<1>7. TypeOK' /\ WireOK' /\ NoStrayFrame'
  BY <1>1, <1>4, <1>5, <1>6 DEF TypeOK, UiRec, WireOK, IInv, NoStrayFrame
<1>8. LockState' /\ ComponentState'
  BY <1>1, <1>3, <1>4, <1>5, <1>6 DEF LockState, ComponentState
<1> QED BY <1>3, <1>4, <1>7, <1>8, AfterOutcome DEF IInv
\* Closing a wizard that waits and has no stream: its failure is due.
LEMMA CloseKept ==
  ASSUME IInv, NEW w \in Sessions, Live(w), ui.w = w, ses[w].subs = <<>>, ~ses[w].closed, ui.closeWait,
         CloseWizard(w), ui'.w = w, \A j \in Slots : slots[j].owner # w,
         UNCHANGED <<setup, conn, built, tabs, slots, up, down, back>>
  PROVE  /\ ses' \in [Sessions -> SesRec] /\ Live(w)' /\ ses'[w].closed /\ ses'[w].subs = <<"error">>
         /\ \A v \in Sessions : SessionInv(v)'
         /\ \A j \in Slots : SlotInv(j)'
<1>1. TypeOK /\ WireOK /\ SessionInv(w)
  BY DEF IInv
<1>2. ses \in [Sessions -> SesRec] /\ ses[w] \in SesRec
  BY <1>1, Typed
<1>3. "error" \in Steps /\ "error" # "none"
  BY StepNames
<1>4. Pushed(ses[w], "error") = [ses[w] EXCEPT !.subs = <<"error">>]
  BY <1>2, <1>3, PushedFacts DEF Live
<1> DEFINE r == [ses[w] EXCEPT !.subs = <<"error">>, !.closed = TRUE]
<1>5. ses' = [ses EXCEPT ![w] = r]
  <2>1. By(Ssh!Closing, Mosh!Closing, Telnet!Closing) = "error"
    BY <1>1, StartFacts
  <2>2. ses' = [ses EXCEPT ![w] = [Pushed(ses[w], "error") EXCEPT !.closed = TRUE]]
    BY <1>2, <2>1 DEF CloseWizard
  <2>3. ASSUME NEW x, x = [[ses[w] EXCEPT !.subs = <<"error">>] EXCEPT !.closed = TRUE] PROVE x = r
    BY <1>2, <2>3 DEF SesRec
  <2> QED BY <1>4, <2>2, <2>3
<1>6. /\ r \in SesRec /\ r.subs = <<"error">> /\ r.closed /\ r.at = ses[w].at /\ r.sender = ses[w].sender
      /\ r.slot = ses[w].slot /\ r.saving = ses[w].saving /\ r.clicked = ses[w].clicked
      /\ r.accepted = ses[w].accepted /\ r.known = ses[w].known /\ r.key = ses[w].key
      /\ r.started = ses[w].started
  <2>1. <<"error">> \in Seq(Steps)
    BY <1>3
  <2> QED BY <1>2, <2>1 DEF SesRec
<1> HIDE DEF r
<1>7. \A v \in Sessions \ {w} : ~Live(v)
  BY OneLive
<1>8. /\ ses' \in [Sessions -> SesRec] /\ ses'[w] = r
      /\ \A v \in Sessions \ {w} : SessionInv(v)'
      /\ \A j \in Slots : SlotInv(j)'
  BY <1>5, <1>6, <1>7, OthersKept
<1>9. Live(w)'
  BY <1>6, <1>8 DEF Live
<1>10. \A s : ~AtStep(w, s)'
  BY <1>6, <1>8, <<"error">> # <<>> DEF AtStep
<1>11. SessionInv(w)'
  <2>1. WizardState(w)'
    BY <1>1, <1>3, <1>6, <1>8, <1>9 DEF SessionInv, WizardState
  <2>2. PromptState(w)'
    BY <1>10 DEF PromptState
  <2>3. Dull(w) => Dull(w)'
    BY <1>6, <1>8, <1>10 DEF Dull, Questions
  <2>4. (Owns(w)' <=> Owns(w)) /\ ~Going(w)'
    BY <1>6, <1>8 DEF Owns, Going
  <2>5. SenderState(w)'
    <3>1. SenderState(w)
      BY <1>1 DEF SessionInv
    <3> QED BY <1>6, <1>8, <1>9, <1>10, <2>3, <2>4, <3>1 DEF SenderState, Questions
  <2>6. Justified(w)'
    BY <1>1, <1>6, <1>8 DEF SessionInv, Justified
  <2> QED BY <2>1, <2>2, <2>5, <2>6 DEF SessionInv
<1> QED BY <1>6, <1>8, <1>9, <1>11

LEMMA InvUnmount ==
  ASSUME IInv, Unmount
  PROVE  IInv'
<1>1. TypeOK /\ WireOK /\ LockState /\ ComponentState
  BY DEF IInv
<1>2. ui.mounted /\ ~inputting /\ ui \in UiRec
  BY <1>1, Typed DEF Unmount, UnmountDue
<1>3. PICK w \in Sessions : w = ui.w
  BY <1>2, EndedFacts
<1>4. w # 0 /\ w = built /\ dials + got = 0 /\ ~lock /\ \A v \in Sessions : Live(v) => v = w
  BY <1>2, <1>3, EndedFacts
<1>5. UNCHANGED <<setup, conn, dials, spent, got, lock, inputting, built, tabs, slots, up, down, back, store, stray>>
  BY DEF Unmount, sockVars, homeVars, wireVars
<1>6. CloseWizard(w)
  BY <1>3 DEF Unmount
<1>7. /\ ui' \in UiRec /\ ui'.w = ui.w /\ ui'.loop = ui.loop /\ ui'.cur = ui.cur /\ ui'.submitting = ui.submitting
      /\ ui'.working = ui.working /\ ui'.disabled = ui.disabled /\ ~ui'.mounted
      /\ ~ui'.closeWait /\ ui'.leaving = ui.leaving /\ ui'.cancelled = ui.cancelled
  BY <1>2 DEF Unmount, UiRec
<1>8. WireOK' /\ NoStrayFrame' /\ LockState'
  BY <1>1, <1>4, <1>5, <1>7 DEF WireOK, IInv, NoStrayFrame, LockState
<1>9. ASSUME ses' \in [Sessions -> SesRec] PROVE TypeOK'
  BY <1>1, <1>5, <1>7, <1>9 DEF TypeOK, UiRec, SesRec
<1>10. CASE Live(w)
  <2>1. ses[w].subs = <<>> /\ conn = "none"
    BY <1>1, <1>2, <1>3, <1>4, <1>10 DEF ComponentState
  <2>2. ~ses[w].closed /\ ui.closeWait
    <3>1. WizardState(w)
      BY DEF IInv, SessionInv
    <3>2. ~ses[w].closed
      BY <1>10, <2>1, <3>1, <<"error">> # <<>> DEF WizardState
    <3> QED BY <1>1, <1>2, <1>3, <1>4, <3>2 DEF ComponentState
  <2>3. \A j \in Slots : slots[j].owner # w
    <3> SUFFICES ASSUME NEW j \in Slots PROVE slots[j].owner # w
      OBVIOUS
    <3>1. SlotState(j)
      BY DEF IInv, SlotInv
    <3> QED BY <1>4, <2>1, <3>1 DEF SlotState
  <2>4. /\ ses' \in [Sessions -> SesRec] /\ Live(w)' /\ ses'[w].closed /\ ses'[w].subs = <<"error">>
        /\ \A v \in Sessions : SessionInv(v)'
        /\ \A j \in Slots : SlotInv(j)'
    BY <1>3, <1>5, <1>6, <1>7, <1>10, <2>1, <2>2, <2>3, CloseKept
  <2>5. ComponentState'
    BY <1>1, <1>2, <1>3, <1>4, <1>5, <1>7, <1>10, <2>4, <<"error">> # <<>> DEF ComponentState, Live
  <2> QED BY <1>8, <1>9, <2>4, <2>5 DEF IInv
<1>11. CASE ~Live(w)
  <2>1. ses[w].closed
    BY <1>1, <1>3, <1>4, <1>11 DEF ComponentState
  <2>2. ses' = ses
    BY <1>6, <2>1 DEF CloseWizard
  <2>3. ses \in [Sessions -> SesRec]
    BY <1>1, Typed
  <2>4. ComponentState'
    BY <1>1, <1>2, <1>3, <1>4, <1>5, <1>7, <1>11, <2>1, <2>2 DEF ComponentState, Live
  <2>5. (\A v \in Sessions : SessionInv(v)') /\ (\A j \in Slots : SlotInv(j)')
    BY <1>4, <1>5, <1>11, <2>2, AfterOutcome
  <2> QED BY <1>8, <1>9, <2>2, <2>3, <2>4, <2>5 DEF IInv
<1> QED BY <1>10, <1>11

LEMMA InvCancel ==
  ASSUME IInv, Cancel
  PROVE  IInv'
<1>1. TypeOK /\ WireOK /\ LockState /\ ComponentState
  BY DEF IInv
<1>2. /\ Quiet /\ ui.mounted /\ ui \in UiRec /\ ~ui.working /\ ~(ui.cur \in Prompts /\ ui.working)
      /\ ui.cur # "empty" /\ (ui.cur \in Prompts \/ ui.disabled)
  BY <1>1, Typed DEF Cancel, Clickable, Cancellable, CancelEnabled, ShowCancelButton, Submittable
<1>3. PICK w \in Sessions : w = ui.w
  BY <1>2, EndedFacts
<1>4. w # 0 /\ w = built /\ dials + got = 0 /\ ~lock /\ \A v \in Sessions : Live(v) => v = w
  BY <1>2, <1>3, EndedFacts
<1>5. UNCHANGED <<setup, conn, dials, spent, got, lock, inputting, built, tabs, slots, up, down, back, store, stray>>
  BY DEF Cancel, sockVars, homeVars, wireVars
<1>6. CloseWizard(w)
  BY <1>3 DEF Cancel
<1>7. /\ ui' \in UiRec /\ ui'.w = ui.w /\ ui'.loop = ui.loop /\ ui'.cur = ui.cur /\ ui'.submitting = ui.submitting
      /\ ui'.working = ui.working /\ ui'.disabled = ui.disabled /\ ui'.mounted = ui.mounted
      /\ ~ui'.closeWait /\ ui'.leaving /\ ui'.cancelled
  BY <1>2 DEF Cancel, UiRec
<1>8. WireOK' /\ NoStrayFrame' /\ LockState'
  BY <1>1, <1>4, <1>5, <1>7 DEF WireOK, IInv, NoStrayFrame, LockState
<1>9. ASSUME ses' \in [Sessions -> SesRec] PROVE TypeOK'
  BY <1>1, <1>5, <1>7, <1>9 DEF TypeOK, UiRec, SesRec
<1>10. inputting
  BY <1>2, QuietFacts
<1>11. CASE Live(w)
  <2>1. ses[w].subs = <<>> /\ ~ses[w].closed /\ ui.closeWait /\ ~ui.disabled
    BY <1>2, <1>11, QuietFacts
  <2>2. ui.cur \in Prompts /\ AtStep(w, ui.cur)
    BY <1>2, <1>3, <1>11, <2>1 DEF AtStep
  <2>3. PromptState(w) /\ SenderState(w)
    BY DEF IInv, SessionInv
  <2>4. ui.cur = "initial"
    BY <1>2, <2>2, <2>3, StepNames DEF PromptState, Questions
  <2>5. ses[w].sender = "none"
    BY <2>2, <2>3, <2>4 DEF PromptState
  <2>6. \A j \in Slots : slots[j].owner # w
    <3> SUFFICES ASSUME NEW j \in Slots PROVE slots[j].owner # w
      OBVIOUS
    <3>1. SlotState(j)
      BY DEF IInv, SlotInv
    <3> QED BY <1>4, <2>5, <3>1 DEF SlotState
  <2>7. /\ ses' \in [Sessions -> SesRec] /\ Live(w)' /\ ses'[w].closed /\ ses'[w].subs = <<"error">>
        /\ \A v \in Sessions : SessionInv(v)'
        /\ \A j \in Slots : SlotInv(j)'
    BY <1>3, <1>5, <1>6, <1>7, <1>11, <2>1, <2>6, CloseKept
  <2>8. ComponentState'
    BY <1>1, <1>2, <1>3, <1>4, <1>5, <1>7, <1>10, <1>11, <2>7, <<"error">> # <<>> DEF ComponentState, Live
  <2> QED BY <1>8, <1>9, <2>7, <2>8 DEF IInv
<1>12. CASE ~Live(w)
  <2>1. ses[w].closed
    BY <1>1, <1>3, <1>4, <1>12 DEF ComponentState
  <2>2. ses' = ses
    BY <1>6, <2>1 DEF CloseWizard
  <2>3. ses \in [Sessions -> SesRec]
    BY <1>1, Typed
  <2>4. ComponentState'
    BY <1>1, <1>2, <1>3, <1>4, <1>5, <1>7, <1>12, <2>1, <2>2 DEF ComponentState, Live
  <2>5. (\A v \in Sessions : SessionInv(v)') /\ (\A j \in Slots : SlotInv(j)')
    BY <1>4, <1>5, <1>12, <2>2, AfterOutcome
  <2> QED BY <1>8, <1>9, <2>2, <2>3, <2>4, <2>5 DEF IInv
<1> QED BY <1>11, <1>12
\* What is left of a wizard after its outcome.
LEMMA OverFacts ==
  ASSUME NEW s \in SesRec
  PROVE  LET r == Over(s) IN
         /\ r \in SesRec /\ r.at = "over" /\ r.subs = <<>> /\ r.closed /\ r.slot = s.slot
         /\ r.sender = s.sender /\ (r.saving = "pending" <=> s.saving = "pending")
         /\ s.saving = "pending" =>
              r.clicked = s.clicked /\ r.known = s.known /\ r.key = s.key /\ r.accepted = s.accepted
         /\ s.saving # "pending" => ~r.accepted
<1>1. CASE s.saving = "pending"
  <2>1. Over(s) = [s EXCEPT !.subs = <<>>, !.closed = TRUE, !.at = "over"]
    BY <1>1 DEF Over
  <2>2. <<>> \in Seq(Steps)
    OBVIOUS
  <2>3. ASSUME NEW r, r = [s EXCEPT !.subs = <<>>, !.closed = TRUE, !.at = "over"]
        PROVE  /\ r \in SesRec /\ r.at = "over" /\ r.subs = <<>> /\ r.closed /\ r.slot = s.slot
               /\ r.sender = s.sender /\ r.saving = s.saving
               /\ r.clicked = s.clicked /\ r.known = s.known /\ r.key = s.key /\ r.accepted = s.accepted
    BY <2>2, <2>3 DEF SesRec
  <2> QED BY <1>1, <2>1, <2>3
<1>2. CASE s.saving # "pending"
  <2>1. Over(s) = [NoSession EXCEPT !.at = "over", !.closed = TRUE, !.slot = s.slot, !.sender = s.sender]
    BY <1>2 DEF Over
  <2>2. /\ Over(s) \in SesRec /\ Over(s).at = "over" /\ Over(s).closed
        /\ Over(s).slot = s.slot /\ Over(s).sender = s.sender
        /\ Over(s).subs = NoSession.subs /\ Over(s).saving = NoSession.saving
        /\ Over(s).accepted = NoSession.accepted
    BY <2>1, NoSessionTyped DEF SesRec
  <2> QED BY <1>2, <2>2 DEF NoSession
<1> QED BY <1>1, <1>2

\* The stream of a session that is neither dull nor without one.
LEMMA OwnSlot ==
  ASSUME IInv, NEW w \in Sessions, NEW i \in Slots, slots[i].owner = w
  PROVE  ses[w].slot = i /\ ses[w].sender # "none" /\ Owns(w) /\ \A j \in Slots : slots[j].owner = w => j = i
<1>1. w # 0
  BY Numbers DEF Sessions
<1>2. \A j \in Slots : slots[j].owner = w => ses[w].slot = j /\ ses[w].sender # "none"
  BY <1>1 DEF IInv, SlotInv, SlotState
<1> QED BY <1>2 DEF Owns

LEMMA InvLoopTurn ==
  ASSUME IInv, LoopTurn
  PROVE  IInv'
<1>1. TypeOK /\ WireOK /\ LockState /\ ComponentState
  BY DEF IInv
<1>2. /\ ui.loop = "waiting" /\ ses[ui.w].subs # <<>> /\ ui \in UiRec /\ ses \in [Sessions -> SesRec]
      /\ tabs \subseteq Sessions /\ built \in Nat
  BY <1>1, Typed, Numbers DEF LoopTurn, LoopDue
<1>3. ui.w # 0
  BY <1>1, <1>2 DEF ComponentState, NoUi
<1>4. PICK w \in Sessions : w = ui.w
  BY <1>3, EndedFacts
<1>5. w # 0 /\ w = built /\ dials + got = 0 /\ ~lock /\ \A v \in Sessions : Live(v) => v = w
  BY <1>3, <1>4, EndedFacts
<1>6. Live(w)
  BY <1>1, <1>2, <1>3, <1>5 DEF ComponentState
<1>7. SessionInv(w) /\ WizardState(w) /\ SenderState(w) /\ PromptState(w) /\ Justified(w)
  BY DEF IInv, SessionInv
<1>8. PICK step \in Steps : ses[w].subs = <<step>>
  BY <1>2, <1>4, <1>7 DEF WizardState
<1>9. Head(ses[w].subs) = step /\ Tail(ses[w].subs) = <<>> /\ <<step>> # <<>>
  BY <1>8
<1>10. ~ui.disabled /\ ui.cur \notin Outcomes
  BY <1>1, <1>3, <1>5, <1>6 DEF ComponentState
<1>11. UNCHANGED <<setup, conn, dials, spent, got, built, slots, up, down, back, store, stray>>
  BY DEF LoopTurn, sockVars, wireVars
<1> DEFINE over == step \in Outcomes
           r == IF over THEN Over(ses[w]) ELSE [ses[w] EXCEPT !.subs = <<>>]
<1>12. ses' = [ses EXCEPT ![w] = r]
  <2>1. ses' = [ses EXCEPT ![w] = IF over THEN Over(ses[w]) ELSE [ses[w] EXCEPT !.subs = Tail(ses[w].subs)]]
    BY <1>2, <1>4, <1>9 DEF LoopTurn
  <2>2. [ses[w] EXCEPT !.subs = Tail(ses[w].subs)] = [ses[w] EXCEPT !.subs = <<>>]
    BY <1>9
  <2> QED BY <2>1, <2>2
<1>13. /\ r \in SesRec /\ r.subs = <<>> /\ r.sender = ses[w].sender /\ r.slot = ses[w].slot
       /\ (r.saving = "pending" <=> ses[w].saving = "pending")
       /\ over => r.at = "over" /\ r.closed
       /\ r.accepted => /\ ses[w].accepted /\ r.known = ses[w].known /\ r.key = ses[w].key
                        /\ r.clicked = ses[w].clicked
                        /\ r.saving = ses[w].saving
       /\ ses[w].saving = "pending" => r.clicked = ses[w].clicked
       /\ ~over => r.at = "live" /\ r.closed = ses[w].closed /\ r.started = ses[w].started
  <2>1. CASE over
    <3>1. r = Over(ses[w])
      BY <2>1
    <3> HIDE DEF r
    <3>2. ses[w] \in SesRec
      BY <1>2
    <3> QED BY <2>1, <3>1, <3>2, OverFacts
  <2>2. CASE ~over
    <3>1. <<>> \in Seq(Steps)
      OBVIOUS
    <3> QED BY <1>2, <1>6, <2>2, <3>1 DEF SesRec, Live
  <2> QED BY <2>1, <2>2
<1>14. /\ ui' \in UiRec /\ ui'.w = w /\ ui'.cur = step /\ ~ui'.submitting
       /\ ui'.working = (~over /\ ses[w].started) /\ ui'.disabled = over
       /\ ui'.mounted = ui.mounted /\ ui'.closeWait = ui.closeWait /\ ui'.leaving = ui.leaving
       /\ ui'.cancelled = ui.cancelled /\ ui'.loop = IF over THEN "ended" ELSE "waiting"
  <2>1. ui' = [Current(ses[w], step) EXCEPT !.loop = IF over THEN "ended" ELSE "waiting"]
    BY <1>4, <1>9 DEF LoopTurn
  <2> DEFINE c == (~over /\ ses[w].started)  d == (ui.disabled \/ over)  l == IF over THEN "ended" ELSE "waiting"
  <2>2. Current(ses[w], step) = [ui EXCEPT !.cur = step, !.submitting = FALSE, !.working = c, !.disabled = d]
    BY <1>2 DEF Current
  <2>3. c \in BOOLEAN /\ d \in BOOLEAN /\ l \in {"waiting", "ended"} /\ d = over
    BY <1>10
  <2> HIDE DEF c, d, l, over
  <2>4. /\ ui' \in UiRec /\ ui'.w = ui.w /\ ui'.cur = step /\ ~ui'.submitting
       /\ ui'.working = c /\ ui'.disabled = d
       /\ ui'.mounted = ui.mounted /\ ui'.closeWait = ui.closeWait /\ ui'.leaving = ui.leaving
       /\ ui'.cancelled = ui.cancelled /\ ui'.loop = l
    BY <1>2, <1>8, <2>1, <2>2, <2>3 DEF UiRec, l
  <2> QED BY <1>4, <2>3, <2>4 DEF c, l
<1> HIDE DEF r
\* The window closes on a success.
<1>15. \/ step = "ok" /\ ui.mounted /\ inputting' = FALSE /\ lock' = FALSE /\ tabs' = tabs \cup {w}
       \/ step # "ok" /\ UNCHANGED <<inputting, lock, tabs>>
  <2>1. step = "ok" => ui.mounted
    <3>1. step = "ok" => ~ses[w].closed
      BY <1>6, <1>7, <1>8 DEF WizardState
    <3> QED BY <1>1, <1>2, <1>3, <1>5, <3>1 DEF ComponentState
  <2>2. IF step = "ok" /\ ui.mounted THEN inputting' = FALSE /\ lock' = FALSE /\ tabs' = tabs \cup {w}
        ELSE UNCHANGED <<inputting, lock, tabs>>
    BY <1>4, <1>9 DEF LoopTurn, Delivers
  <2> QED BY <2>1, <2>2
<1>16. TypeOK'
  <2>1. lock' \in BOOLEAN /\ inputting' \in BOOLEAN /\ tabs' \subseteq Sessions
    BY <1>1, <1>15 DEF TypeOK
  <2>2. ses' \in [Sessions -> SesRec]
    BY <1>2, <1>12, <1>13
  <2> QED BY <1>1, <1>11, <1>14, <2>1, <2>2 DEF TypeOK, SesRec, UiRec
<1>17. WireOK' /\ NoStrayFrame'
  BY <1>1, <1>11 DEF WireOK, IInv, NoStrayFrame
<1>18. LockState'
  BY <1>1, <1>5, <1>11, <1>15 DEF LockState
<1>19. /\ ses'[w] = r
       /\ \A v \in Sessions \ {w} : SessionInv(v)'
       /\ \A j \in Slots : slots[j].owner # w => SlotInv(j)'
  <2>1. \A v \in Sessions \ {w} : (v \in tabs' <=> v \in tabs) /\ ~Live(v)
    BY <1>5, <1>15
  <2> QED BY <1>11, <1>12, <1>13, <2>1, OthersKept
<1>20. /\ over => ~Live(w)' /\ \A s : ~AtStep(w, s)'
       /\ ~over => Live(w)' /\ \A s : AtStep(w, s)' <=> s = step
       /\ \A s : ~AtStep(w, s)
  BY <1>2, <1>4, <1>13, <1>14, <1>19 DEF AtStep, Live
<1>21. over <=> step \in {"ok", "error"}
  BY DEF Outcomes
<1>22. \A s : ses[w].subs = <<s>> <=> s = step
  BY <1>8
<1> HIDE DEF over
<1>23. ComponentState'
  <2>1. CASE over
    <3>1. ~Live(built)' /\ ses'[built'].closed
      BY <1>5, <1>11, <1>13, <1>19, <1>20, <2>1
    <3>2. ui'.cur \in Outcomes
      BY <1>14, <2>1 DEF over
    <3>3. ~ui'.working /\ ui'.disabled /\ ui'.loop = "ended"
      BY <1>14, <2>1
    <3>4. ~ui.mounted => ~inputting
      BY <1>1, <1>3 DEF ComponentState
    <3>5. ui.leaving => ui.cancelled
      BY <1>1, <1>3 DEF ComponentState
    <3>6. ui.cancelled => ui.leaving \/ ~inputting
      BY <1>1, <1>3 DEF ComponentState
    <3> QED BY <1>3, <1>4, <1>5, <1>11, <1>14, <1>15, <3>1, <3>2, <3>3, <3>4, <3>5, <3>6 DEF ComponentState
  <2>2. CASE ~over
    <3>1. Live(built)' /\ ~ses'[built'].closed
      BY <1>5, <1>6, <1>7, <1>11, <1>13, <1>19, <1>20, <1>21, <1>22, <2>2 DEF WizardState
    <3>2. ~ses[w].closed
      BY <1>6, <1>7, <1>21, <1>22, <2>2 DEF WizardState
    <3>3. ui'.cur \notin Outcomes /\ ui'.cur # "empty"
      BY <1>14, <2>2, StepNames DEF over
    <3>4. ~ui'.disabled /\ ui'.loop = "waiting" /\ UNCHANGED <<inputting, lock, tabs>>
      BY <1>14, <1>15, <1>21, <2>2
    <3>5. ses'[built'].subs = <<>>
      BY <1>5, <1>11, <1>13, <1>19
    <3>6. /\ ui.mounted /\ ui.closeWait /\ ~ui.leaving /\ (ui.cancelled => ui.leaving \/ ~inputting)
          /\ inputting
      BY <1>1, <1>2, <1>3, <1>5, <1>6, <1>9, <1>8, <3>2 DEF ComponentState
    <3> QED BY <1>3, <1>4, <1>5, <1>11, <1>14, <3>1, <3>3, <3>4, <3>5, <3>6 DEF ComponentState
  <2> QED BY <2>1, <2>2
<1>24. SessionInv(w)'
  <2>1. WizardState(w)'
    <3>1. ~(w > built') /\ w = built' /\ ses'[w].subs = <<>> /\ ui'.w = w
      BY <1>2, <1>5, <1>11, <1>13, <1>14, <1>19
    <3>2. ~over => ~ses'[w].closed
      BY <1>6, <1>7, <1>13, <1>19, <1>21, <1>22 DEF WizardState
    <3> QED BY <1>20, <3>1, <3>2 DEF WizardState
  <2>2. PromptState(w)'
    <3>1. CASE over
      BY <1>20, <3>1 DEF PromptState
    <3>2. CASE ~over
      <4>1. step = "initial" => ses'[w].sender = "none"
        BY <1>7, <1>13, <1>19, <1>22 DEF SenderState
      <4>2. step = "fingerprint" => ses'[w].saving # "pending"
        BY <1>6, <1>7, <1>13, <1>19, <1>20, <1>22 DEF SenderState
      <4>3. \A q \in Questions : q = step => ses[w].sender = "open" /\ ~IsTelnet
        BY <1>7, <1>22 DEF SenderState
      <4>4. \A q \in Questions : q = step => ui'.working /\ ses'[w].sender = "open" /\ ~IsTelnet'
        BY <1>6, <1>7, <1>11, <1>13, <1>14, <1>19, <3>2, <4>3 DEF SenderState, IsTelnet
      <4> QED BY <1>14, <1>20, <3>2, <4>1, <4>2, <4>4 DEF PromptState
    <3> QED BY <3>1, <3>2
  <2>3. Dull(w) => Dull(w)'
    <3>1. Dull(w) => step \notin Questions /\ step # "ok" /\ w \notin tabs /\ ses[w].saving # "pending"
      BY <1>22 DEF Dull
    <3>2. <<>> # <<"ok">> /\ \A q : <<>> # <<q>>
      OBVIOUS
    <3>3. \A q \in Questions : step \notin Questions => ~AtStep(w, q)'
      BY <1>20
    <3> QED BY <1>13, <1>15, <1>19, <3>1, <3>2, <3>3 DEF Dull
  <2>4. (Owns(w)' <=> Owns(w)) /\ (Going(w)' => Going(w))
    <3>1. Owns(w)' <=> Owns(w)
      BY <1>11, <1>13, <1>19 DEF Owns
    <3>2. Going(w)' => ~over
      BY <1>20 DEF Going
    <3>3. ~over => Going(w)
      BY <1>6, <1>21, <1>22 DEF Going
    <3> QED BY <3>1, <3>2, <3>3
  <2>5. SenderState(w)'
    <3>1. w \in tabs' => ~Live(w)'
      BY <1>6, <1>7, <1>15, <1>20, <1>21 DEF SenderState
    <3>2. IsTelnet' = IsTelnet /\ \A q : <<>> # <<q>>
      BY <1>11 DEF IsTelnet
    <3>3. ses[w].saving = "pending" => step = "error" /\ ses[w].clicked = "save"
      BY <1>6, <1>7, <1>20, <1>22 DEF SenderState
    <3>4. Live(w)' => ses'[w].started = ses[w].started
      BY <1>13, <1>19, <1>20
    <3>5. AtStep(w, "wait")' => ses[w].sender # "none"
      BY <1>7, <1>20, <1>22 DEF SenderState
    <3>6. ses'[w].sender = "none" => ses'[w].slot = NumSlots /\ ~ses'[w].accepted
      BY <1>7, <1>13, <1>19 DEF SenderState
    <3>7. Live(w)' /\ ses'[w].sender # "none" => ses'[w].started
      BY <1>6, <1>7, <1>13, <1>19, <3>4 DEF SenderState
    <3>8. ses'[w].sender = "none" \/ (ses'[w].sender = "open" /\ ~Owns(w)') => Dull(w)'
      BY <1>7, <1>13, <1>19, <2>3, <2>4 DEF SenderState
    <3>9. conn' = "up" /\ Going(w)' /\ ses'[w].sender # "none" => Owns(w)'
      BY <1>7, <1>11, <1>13, <1>19, <2>4 DEF SenderState
    <3>10. ses'[w].saving = "pending" => ses'[w].clicked = "save" /\ ~Live(w)'
      BY <1>13, <1>19, <1>20, <1>21, <3>3
    <3> QED BY <1>13, <1>19, <3>1, <3>2, <3>5, <3>6, <3>7, <3>8, <3>9, <3>10 DEF SenderState
  <2>6. Justified(w)'
    BY <1>7, <1>13, <1>19 DEF Justified
  <2> QED BY <2>1, <2>2, <2>5, <2>6 DEF SessionInv
<1>25. ASSUME NEW j \in Slots, slots[j].owner = w PROVE SlotInv(j)'
  <2>1. SlotInv(j) /\ SlotState(j)
    BY DEF IInv, SlotInv
  <2>2. built' >= built /\ built' \in Nat
    BY <1>2, <1>11
  <2>3. AskingFp(w)' => AskingFp(w)
    <3>1. <<>> # <<"fingerprint">>
      OBVIOUS
    <3> QED BY <1>13, <1>19, <1>20, <1>22, <3>1 DEF AskingFp
  <2>4. AskingCred(w)' => AskingCred(w)
    <3>1. <<>> # <<"credential">>
      OBVIOUS
    <3> QED BY <1>13, <1>19, <1>20, <1>22, <3>1 DEF AskingCred
  <2>5. Going(w) <=> step # "error"
    BY <1>6, <1>22 DEF Going
  <2>6. Going(w)' <=> ~over
    <3>1. <<>> # <<"error">>
      OBVIOUS
    <3> QED BY <1>13, <1>19, <1>20, <3>1 DEF Going
  <2>7. step = "ok" => slots[j].connected
    BY <1>5, <1>25, <2>1, <1>22 DEF SlotState
  <2>8. slots[j].connected => over
    BY <1>6, <1>21, <1>22, <1>25, <2>1 DEF SlotState
  <2>9. slots[j].initing => Dull(w)'
    <3>1. slots[j].initing => Dull(w)
      BY <1>25, <2>1 DEF SlotState
    <3>2. Dull(w) => step \notin Questions /\ step # "ok" /\ w \notin tabs /\ ses[w].saving # "pending"
      BY <1>22 DEF Dull
    <3>3. <<>> # <<"ok">> /\ \A q : <<>> # <<q>>
      OBVIOUS
    <3>4. \A q \in Questions : step \notin Questions => ~AtStep(w, q)'
      BY <1>20
    <3> QED BY <1>13, <1>15, <1>19, <3>1, <3>2, <3>3, <3>4 DEF Dull
  <2>10. slots[j].connected => w \in tabs' \/ ses[w].sender = "closed"
    BY <1>15, <1>21, <1>22, <1>25, <2>1 DEF SlotState
  <2>11. ~slots[j].connected => w \notin tabs'
    BY <1>5, <1>15, <1>25, <2>1, <2>7 DEF SlotState
  <2>12. slots[j].connected => ~Live(w)'
    BY <1>20, <2>8
  <2>13. ses'[w].subs # <<"ok">>
    BY <1>13, <1>19, <<>> # <<"ok">>
  <2> HIDE DEF SlotInv
  <2> QED BY <1>1, <1>11, <1>13, <1>19, <1>21, <1>25, <2>1, <2>2, <2>3, <2>4, <2>5, <2>6, <2>7, <2>9, <2>10, <2>11,
             <2>12, <2>13, SlotKept
<1> QED BY <1>16, <1>17, <1>18, <1>19, <1>23, <1>24, <1>25 DEF IInv
----------------------------------------------------------------------------
(* The buttons.                                                             *)

\* An open sender of a session that asks, or is in a tab, has a running command.
LEMMA OpenRuns ==
  ASSUME IInv, NEW w \in Sessions, ses[w].sender = "open", ~Dull(w)
  PROVE  \E i \in Slots :
           /\ slots[i].owner = w /\ ses[w].slot = i /\ ~slots[i].initing /\ ~slots[i].shut /\ conn = "up"
           /\ Running(i) /\ Told(i) /\ Asked(i) /\ Expected(i) /\ Fresh(i) /\ Cancelled(i) /\ SlotInv(i)
           /\ \A j \in Slots : slots[j].owner = w => j = i
<1>1. SenderState(w) /\ w # 0
  BY Numbers DEF IInv, SessionInv, Sessions
<1>2. Owns(w)
  BY <1>1 DEF SenderState
<1>3. PICK i \in Slots : i = ses[w].slot /\ slots[i].owner = w
  BY <1>2 DEF Owns
<1>4. \A j \in Slots : slots[j].owner = w => j = i
  BY <1>3, OwnSlot
<1>5. SlotInv(i) /\ SlotState(i)
  BY DEF IInv, SlotInv
<1>6. ~slots[i].initing
  BY <1>3, <1>5 DEF SlotState
<1>7. conn = "up" /\ ~slots[i].shut
  BY <1>1, <1>3, <1>5, <1>6 DEF SlotState
<1>8. Handshake(i)
  BY <1>5, <1>7 DEF SlotInv
<1>9. Running(i)
  BY <1>1, <1>3, <1>6, <1>8 DEF Handshake, Phase, Idle, Requested, Refused, Closed
<1> QED BY <1>1, <1>3, <1>4, <1>5, <1>6, <1>7, <1>8, <1>9 DEF Handshake

\* A running command whose session sends or closes.
LEMMA RunningKept ==
  ASSUME TypeOK, WireOK, NEW i \in Slots, NEW w \in Sessions, slots[i].owner = w, SlotInv(i), conn = "up",
         Running(i), Told(i), ~slots[i].initing,
         UNCHANGED <<conn, setup, slots>>, down'[i] = down[i], back'[i] = back[i], built' = built,
         ses'[w].slot = i, ses'[w].sender \in {"open", "closed"},
         slots[i].shut => ses'[w].sender = "closed",
         Sending(up'[i], ses'[w].sender = "closed", slots[i].shut),
         slots[i].connected =>
           /\ w \in tabs' \/ ses'[w].sender = "closed" \/ (ui'.w = w /\ ses'[w].subs = <<"ok">>)
           /\ ~Live(w)' \/ ses'[w].subs = <<"ok">>,
         ~slots[i].connected => w \notin tabs' /\ ses'[w].subs # <<"ok">>,
         Has(down[i], "fingerprint") => ~ses'[w].accepted,
         Asked(i)', Expected(i)', Cancelled(i)'
  PROVE  SlotInv(i)'
<1>1. w # 0 /\ w <= built
  <2>1. w # 0
    BY Numbers DEF Sessions
  <2> QED BY <2>1 DEF SlotInv, SlotState
<1>2. SlotState(i)'
  BY <1>1 DEF SlotState
<1>3. Sorted(down[i])'
  BY DEF SlotInv
<1>4. Told(i)'
  BY DEF Told, IsTelnet
<1>5. Running(i)'
  BY <1>1 DEF Running
<1>6. Fresh(i)'
  BY DEF Fresh
<1> QED BY <1>2, <1>3, <1>4, <1>5, <1>6 DEF SlotInv, Handshake, Phase

LEMMA InvSubmitInitial ==
  ASSUME IInv, SubmitInitial
  PROVE  IInv'
<1>1. TypeOK /\ WireOK /\ LockState /\ ComponentState
  BY DEF IInv
<1>2. Quiet /\ ui.mounted /\ ~ui.submitting /\ ~ui.disabled /\ ui.cur = "initial" /\ ui \in UiRec
      /\ ses \in [Sessions -> SesRec] /\ built \in Nat
  BY <1>1, Typed, Numbers DEF SubmitInitial, Clickable, MaySubmit
<1>3. PICK w \in Sessions : w = ui.w
  BY <1>2, EndedFacts
<1>4. w # 0 /\ w = built /\ dials + got = 0 /\ ~lock /\ \A v \in Sessions : Live(v) => v = w
  BY <1>2, <1>3, EndedFacts
<1>5. Live(w) /\ "initial" \notin Outcomes
  BY <1>1, <1>2, <1>3, <1>4 DEF ComponentState, Outcomes
<1>6. /\ ses[w].subs = <<>> /\ ~ses[w].closed /\ inputting /\ ui.closeWait /\ ~ui.leaving /\ ~ui.cancelled
      /\ ui.loop = "waiting"
  BY <1>2, <1>3, <1>5, QuietFacts
<1>7. AtStep(w, "initial")
  BY <1>2, <1>3, <1>5, <1>6 DEF AtStep
<1>8. SessionInv(w) /\ WizardState(w) /\ SenderState(w) /\ PromptState(w) /\ Justified(w)
  BY DEF IInv, SessionInv
<1>9. ses[w].sender = "none"
  BY <1>7, <1>8 DEF PromptState
<1>10. Dull(w) /\ ~ses[w].accepted /\ ses[w].slot = NumSlots /\ ~Owns(w)
  BY <1>9, DullStart
<1>11. UNCHANGED <<setup, conn, dials, spent, got, lock, inputting, built, tabs, down, back, store, stray>>
  BY DEF SubmitInitial, sockVars, homeVars
<1>12. conn # "none"
  BY <1>1, <1>6 DEF LockState
<1>13. CASE CanRequest
  <2> DEFINE s == WithStream(ses[w])
             r == [s EXCEPT !.subs = <<"wait">>]
  <2>1. FreeSlot \in Slots /\ FreeSlot \in 0 .. NumSlots
    BY <1>13, LeastSlot, Numbers DEF Slots
  <2>2. /\ s \in SesRec /\ s.at = "live" /\ s.closed = ses[w].closed /\ s.slot = FreeSlot /\ s.sender = "open"
        /\ s.saving = ses[w].saving /\ s.accepted = ses[w].accepted /\ s.subs = <<>> /\ s.started
    BY <1>2, <1>5, <1>6, <2>1 DEF WithStream, SesRec, Live
  <2> HIDE DEF s
  <2>3. "wait" \in Steps /\ "wait" # "none"
    BY StepNames
  <2>4. Pushed(s, "wait") = r
    BY <2>2, <2>3, PushedFacts
  <2>5. ses' = [ses EXCEPT ![w] = r] /\ Request(w) /\ ui' = [ui EXCEPT !.submitting = TRUE]
    <3>1. By(Ssh!Connect, Mosh!Connect, Telnet!Connect).step = "wait"
      BY <1>1, StartFacts
    <3>2. /\ ses' = [ses EXCEPT ![w] = Pushed(s, "wait")] /\ Request(w)
          /\ ui' = [ui EXCEPT !.submitting = TRUE]
      BY <1>2, <1>3, <1>13, <3>1 DEF SubmitInitial, s
    <3> QED BY <2>4, <3>2
  <2>6. /\ r \in SesRec /\ r.at = "live" /\ ~r.closed /\ r.slot = FreeSlot /\ r.sender = "open"
        /\ r.saving = ses[w].saving /\ ~r.accepted /\ r.subs = <<"wait">> /\ r.started
    <3>1. <<"wait">> \in Seq(Steps)
      BY <2>3
    <3> QED BY <1>6, <1>10, <2>2, <3>1 DEF SesRec
  <2> HIDE DEF r
  <2>7. \A v \in Sessions \ {w} : ~Live(v)
    BY <1>4
  <2>8. /\ slots' \in [Slots -> SlotRec] /\ up' \in [Slots -> UpSeq]
        /\ Owns(w)' /\ \A v \in Sessions \ {w} : Owns(v) => Owns(v)'
        /\ \A j \in Slots : SlotInv(j)'
    <3>1. built' >= built /\ built' \in Nat /\ w <= built'
      BY <1>2, <1>4, <1>11
    <3> QED BY <1>9, <1>11, <1>12, <1>13, <2>5, <2>6, <2>7, <3>1, RequestKept
  <2>9. ses' \in [Sessions -> SesRec] /\ ses'[w] = r /\ \A v \in Sessions \ {w} : ses'[v] = ses[v]
    BY <1>2, <2>5, <2>6
  <2>10. ASSUME NEW v \in Sessions \ {w} PROVE SessionInv(v)'
    <3>1. SessionInv(v)
      BY DEF IInv
    <3>2. built' >= built /\ built' \in Nat
      BY <1>2, <1>11
    <3> QED BY <1>1, <1>11, <2>7, <2>8, <2>9, <3>1, <3>2, SessionKept
  <2>11. /\ ui' \in UiRec /\ ui'.w = ui.w /\ ui'.loop = ui.loop /\ ui'.cur = ui.cur /\ ui'.submitting
         /\ ui'.working = ui.working /\ ui'.disabled = ui.disabled /\ ui'.mounted = ui.mounted
         /\ ui'.closeWait = ui.closeWait /\ ui'.leaving = ui.leaving /\ ui'.cancelled = ui.cancelled
    BY <1>2, <2>5 DEF UiRec
  <2>12. Live(w)' /\ \A t : ~AtStep(w, t)'
    BY <2>6, <2>9, <<"wait">> # <<>> DEF Live, AtStep
  <2>13. SessionInv(w)'
    <3>1. WizardState(w)'
      <4>1. ~(w > built') /\ w = built' /\ ui'.w = w
        <5>1. built' = built /\ built \in Nat /\ w = built
          BY <1>2, <1>4, <1>11
        <5>2. ui'.w = w
          BY <1>3, <2>11
        <5> QED BY <5>1, <5>2
      <4>2. ses'[w].subs = <<"wait">> /\ ~ses'[w].closed
        BY <2>6, <2>9
      <4> QED BY <2>3, <2>12, <4>1, <4>2 DEF WizardState
    <3>2. SenderState(w)'
      <4>1. \A q : q # "wait" => <<"wait">> # <<q>>
        OBVIOUS
      <4>2. w \notin tabs' /\ ses'[w].saving # "pending"
        BY <1>10, <1>11, <2>6, <2>9 DEF Dull
      <4> QED BY <2>6, <2>8, <2>9, <2>12, <4>1, <4>2 DEF SenderState, Questions
    <3>3. PromptState(w)' /\ Justified(w)'
      BY <2>6, <2>9, <2>12 DEF PromptState, Justified
    <3> QED BY <3>1, <3>2, <3>3 DEF SessionInv
  <2>14. TypeOK' /\ WireOK'
    BY <1>1, <1>11, <2>8, <2>9, <2>11 DEF TypeOK, WireOK, SesRec, UiRec, SlotRec, UpSeq
  <2>15. LockState' /\ NoStrayFrame'
    BY <1>1, <1>4, <1>11 DEF LockState, IInv, NoStrayFrame
  <2>16. ComponentState'
    <3>1. Live(built)' /\ ses'[built'].subs # <<>> /\ ~ses'[built'].closed
      BY <1>4, <1>11, <2>6, <2>9, <2>12, <<"wait">> # <<>>
    <3>2. ui'.cur \notin Outcomes
      BY <1>2, <1>5, <2>11
    <3> QED BY <1>2, <1>3, <1>4, <1>6, <1>11, <2>11, <3>1, <3>2 DEF ComponentState
  <2> QED BY <2>8, <2>10, <2>13, <2>14, <2>15, <2>16 DEF IInv
<1>14. CASE ~CanRequest
  <2> DEFINE r == [ses[w] EXCEPT !.started = TRUE]
  <2>1. ses' = [ses EXCEPT ![w] = r] /\ UNCHANGED <<ui, slots, up>>
    <3>1. ses' = [ses EXCEPT ![w].started = TRUE] /\ UNCHANGED <<ui, slots, up>>
      BY <1>3, <1>14 DEF SubmitInitial
    <3> QED BY <1>2, <3>1
  <2>2. /\ r \in SesRec /\ r.subs = ses[w].subs /\ r.closed = ses[w].closed /\ r.at = ses[w].at
        /\ r.sender = ses[w].sender /\ r.started
        /\ r.slot = ses[w].slot /\ r.saving = ses[w].saving /\ r.clicked = ses[w].clicked
        /\ r.accepted = ses[w].accepted /\ r.known = ses[w].known /\ r.key = ses[w].key
    <3>1. ses[w] \in SesRec
      BY <1>2
    <3>2. ASSUME NEW x \in SesRec, NEW y, y = [x EXCEPT !.started = TRUE]
          PROVE  /\ y \in SesRec /\ y.subs = x.subs /\ y.closed = x.closed /\ y.at = x.at
                 /\ y.sender = x.sender /\ y.started
                 /\ y.slot = x.slot /\ y.saving = x.saving /\ y.clicked = x.clicked
                 /\ y.accepted = x.accepted /\ y.known = x.known /\ y.key = x.key
      BY <3>2 DEF SesRec
    <3> QED BY <3>1, <3>2
  <2> HIDE DEF r
  <2>3. /\ ses' \in [Sessions -> SesRec] /\ ses'[w] = r
        /\ \A v \in Sessions \ {w} : SessionInv(v)'
        /\ \A j \in Slots : slots[j].owner # w => SlotInv(j)'
    BY <1>11, <2>1, <2>2, OthersKept
  <2>4. \A j \in Slots : slots[j].owner # w
    <3> SUFFICES ASSUME NEW j \in Slots PROVE slots[j].owner # w
      OBVIOUS
    <3>1. SlotState(j)
      BY DEF IInv, SlotInv
    <3> QED BY <1>4, <1>9, <3>1 DEF SlotState
  <2>5. (Live(w)' <=> Live(w)) /\ \A t : AtStep(w, t)' <=> AtStep(w, t)
    BY <2>1, <2>2, <2>3 DEF Live, AtStep
  <2>6. SessionInv(w)'
    <3>1. WizardState(w)'
      <4>1. ~(w > built') /\ w = built'
        BY <1>2, <1>4, <1>11
      <4>2. ses'[w].subs = ses[w].subs /\ ses'[w].closed = ses[w].closed /\ ui' = ui
        BY <2>1, <2>2, <2>3
      <4> QED BY <1>3, <1>5, <1>6, <2>5, <4>1, <4>2 DEF WizardState
    <3>2. (Dull(w)' <=> Dull(w)) /\ (Owns(w)' <=> Owns(w)) /\ (Going(w)' <=> Going(w)) /\ (IsTelnet' <=> IsTelnet)
      BY <1>11, <2>1, <2>2, <2>3, <2>5 DEF Dull, Owns, Going, IsTelnet
    <3>3. PromptState(w)' /\ Justified(w)'
      BY <1>8, <2>1, <2>2, <2>3, <2>5, <3>2 DEF PromptState, Justified
    <3>4. SenderState(w)'
      BY <1>8, <1>11, <2>2, <2>3, <2>5, <3>2 DEF SenderState
    <3> QED BY <3>1, <3>3, <3>4 DEF SessionInv
  <2>7. TypeOK' /\ WireOK'
    BY <1>1, <1>11, <2>1, <2>3 DEF TypeOK, WireOK, SesRec
  <2>8. LockState' /\ NoStrayFrame'
    BY <1>1, <1>11, <2>1 DEF LockState, IInv, NoStrayFrame
  <2>9. ComponentState'
    <3>1. (Live(built)' <=> Live(built)) /\ ses'[built'].subs = ses[built].subs /\ ses'[built'].closed = ses[built].closed
      BY <1>4, <1>11, <2>2, <2>3, <2>5
    <3> QED BY <1>1, <1>3, <1>4, <1>11, <2>1, <3>1 DEF ComponentState
  <2> QED BY <2>3, <2>4, <2>6, <2>7, <2>8, <2>9 DEF IInv
<1> QED BY <1>13, <1>14
\* An answer that leaves.
Replied(w, i, mark, b) ==
  \E r \in SesRec :
    /\ ses' = [ses EXCEPT ![w] = r] /\ up' = [up EXCEPT ![i] = <<b>>]
    /\ ui' = [ui EXCEPT !.submitting = TRUE]
    /\ r.subs = <<"wait">> /\ r.at = "live" /\ r.closed = mark.closed /\ r.started = mark.started
    /\ r.slot = mark.slot /\ r.saving = mark.saving /\ r.known = mark.known /\ r.key = mark.key
    /\ r.clicked = mark.clicked
    /\ r.sender = IF b = "close" THEN "closed" ELSE "open"
    /\ r.accepted <=> mark.accepted \/ b = "accept"

LEMMA ReplyFacts ==
  ASSUME TypeOK, WireOK, NEW w \in Sessions, NEW i \in Slots, ses[w].slot = i, ses[w].sender = "open",
         conn = "up", up[i] = <<>>, NEW mark \in SesRec, mark.at = "live", mark.subs = <<>>, mark.sender = "open",
         NEW b \in {"accept", "reject", "login", "close"}, NEW onThrow, Reply(w, b, mark, onThrow)
  PROVE  Replied(w, i, mark, b)
<1>1. ses \in [Sessions -> SesRec] /\ up \in [Slots -> UpSeq]
  BY Typed
<1> DEFINE a == (mark.accepted \/ b = "accept")
           d == IF b = "close" THEN "closed" ELSE "open"
           m == [mark EXCEPT !.accepted = a, !.sender = d]
           r == [m EXCEPT !.subs = <<"wait">>]
<1>2. a \in BOOLEAN /\ d \in {"open", "closed"}
  OBVIOUS
<1>3. "wait" \in Steps /\ "wait" # "none" /\ <<"wait">> \in Seq(Steps)
  BY StepNames
<1>4. /\ m \in SesRec /\ m.at = "live" /\ m.subs = <<>> /\ m.closed = mark.closed /\ m.started = mark.started
      /\ m.slot = mark.slot /\ m.saving = mark.saving /\ m.known = mark.known /\ m.key = mark.key
      /\ m.clicked = mark.clicked /\ m.sender = d /\ m.accepted = a
  <2> HIDE DEF a, d
  <2>1. ASSUME NEW y, y = [mark EXCEPT !.accepted = a, !.sender = d]
        PROVE  /\ y \in SesRec /\ y.at = "live" /\ y.subs = <<>> /\ y.closed = mark.closed /\ y.started = mark.started
               /\ y.slot = mark.slot /\ y.saving = mark.saving /\ y.known = mark.known /\ y.key = mark.key
               /\ y.clicked = mark.clicked /\ y.sender = d /\ y.accepted = a
    BY <1>2, <2>1 DEF SesRec
  <2> QED BY <2>1
<1>5. ses' = [ses EXCEPT ![w] = Pushed(m, "wait")] /\ ui' = [ui EXCEPT !.submitting = TRUE] /\ Put(ses[w], b)
  <2>1. mark.sender = "open"
    OBVIOUS
  <2> QED BY <2>1 DEF Reply, SendAllowed
<1> HIDE DEF m
<1>6. Pushed(m, "wait") = r
  BY <1>3, <1>4, PushedFacts
<1>7. /\ r \in SesRec /\ r.at = "live" /\ r.subs = <<"wait">> /\ r.closed = m.closed /\ r.started = m.started
      /\ r.slot = m.slot /\ r.saving = m.saving /\ r.known = m.known /\ r.key = m.key
      /\ r.clicked = m.clicked /\ r.sender = m.sender /\ r.accepted = m.accepted
  BY <1>3, <1>4 DEF SesRec
<1> HIDE DEF r
<1>8. up' = [up EXCEPT ![i] = <<b>>]
  <2>1. up' = [up EXCEPT ![i] = Append(up[i], b)]
    BY <1>5 DEF Put
  <2>2. Append(<<>>, b) = <<b>>
    OBVIOUS
  <2> QED BY <2>1, <2>2
<1>9. ses' = [ses EXCEPT ![w] = r]
  BY <1>5, <1>6
<1> QED BY <1>2, <1>4, <1>5, <1>7, <1>8, <1>9 DEF Replied

\* What a button of a prompt finds.
LEMMA PromptFacts ==
  ASSUME IInv, Quiet, ui.mounted, ~ui.disabled, NEW q \in Questions, ui.cur = q
  PROVE  \E w \in Sessions :
           /\ w = ui.w /\ w # 0 /\ w = built /\ dials + got = 0 /\ ~lock /\ Live(w)
           /\ \A v \in Sessions \ {w} : ~Live(v)
           /\ ses[w].subs = <<>> /\ ~ses[w].closed /\ inputting /\ ui.closeWait /\ ~ui.leaving /\ ~ui.cancelled
           /\ ui.loop = "waiting" /\ ui.cur \notin Outcomes
           /\ AtStep(w, q) /\ ses[w].sender = "open" /\ ~IsTelnet /\ ~Dull(w) /\ ses[w].started
           /\ (q = "credential" => ses[w].saving # "pending") /\ w \notin tabs
<1>1. ui.w # 0 /\ ui.w \in Sessions /\ ui.w = built /\ dials + got = 0 /\ ~lock
  BY EndedFacts
<1>2. PICK w \in Sessions : w = ui.w
  BY <1>1
<1>3. Live(w) /\ q \notin Outcomes
  <2>1. q \notin Outcomes
    BY DEF Outcomes, Questions
  <2> QED BY <1>1, <1>2, <2>1 DEF IInv, ComponentState
<1>4. /\ ses[w].subs = <<>> /\ ~ses[w].closed /\ inputting /\ ui.closeWait /\ ~ui.leaving /\ ~ui.cancelled
      /\ ui.loop = "waiting"
  BY <1>3, QuietFacts
<1>5. AtStep(w, q)
  BY <1>2, <1>3, <1>4 DEF AtStep
<1>6. PromptState(w) /\ SenderState(w)
  BY DEF IInv, SessionInv
<1>7. ses[w].sender = "open" /\ ~IsTelnet /\ ~Dull(w)
  BY <1>5, <1>6 DEF PromptState, Dull
<1>8. ses[w].started /\ w \notin tabs
  BY <1>3, <1>6, <1>7 DEF SenderState
<1>9. q = "credential" => ses[w].saving # "pending"
  BY <1>3, <1>4, <1>5, <1>6, <<>> # <<"error">> DEF SenderState, AtStep
<1>10. \A v \in Sessions \ {w} : ~Live(v)
  BY <1>3, OneLive
<1> QED BY <1>1, <1>2, <1>3, <1>4, <1>5, <1>7, <1>8, <1>9, <1>10

LEMMA InvAnswer ==
  ASSUME IInv, NEW go \in BOOLEAN, Answer(go)
  PROVE  IInv'
<1>1. TypeOK /\ WireOK /\ LockState /\ ComponentState
  BY DEF IInv
<1>2. /\ Quiet /\ ui.mounted /\ ~ui.submitting /\ ~ui.disabled /\ ui \in UiRec
      /\ ses \in [Sessions -> SesRec] /\ built \in Nat /\ up \in [Slots -> UpSeq]
  BY <1>1, Typed, Numbers DEF Answer, Clickable, MaySubmit
<1>3. PICK q \in Questions : ui.cur = q
  BY DEF Answer, Questions
<1>4. PICK w \in Sessions :
           /\ w = ui.w /\ w # 0 /\ w = built /\ dials + got = 0 /\ ~lock /\ Live(w)
           /\ \A v \in Sessions \ {w} : ~Live(v)
           /\ ses[w].subs = <<>> /\ ~ses[w].closed /\ inputting /\ ui.closeWait /\ ~ui.leaving /\ ~ui.cancelled
           /\ ui.loop = "waiting" /\ ui.cur \notin Outcomes
           /\ AtStep(w, q) /\ ses[w].sender = "open" /\ ~IsTelnet /\ ~Dull(w) /\ ses[w].started
           /\ (q = "credential" => ses[w].saving # "pending") /\ w \notin tabs
  BY <1>2, <1>3, PromptFacts
<1>5. PICK i \in Slots :
           /\ slots[i].owner = w /\ ses[w].slot = i /\ ~slots[i].initing /\ ~slots[i].shut /\ conn = "up"
           /\ Running(i) /\ Told(i) /\ Asked(i) /\ Expected(i) /\ Fresh(i) /\ Cancelled(i) /\ SlotInv(i)
           /\ \A j \in Slots : slots[j].owner = w => j = i
  BY <1>4, OpenRuns
<1>6. UNCHANGED <<setup, conn, dials, spent, got, lock, inputting, built, tabs, slots, down, back, store, stray>>
  BY DEF Answer, sockVars, homeVars
<1>7. SessionInv(w) /\ WizardState(w) /\ SenderState(w) /\ PromptState(w) /\ Justified(w)
  BY DEF IInv, SessionInv
<1>8. ses[w].saving # "pending"
  <2>1. CASE q = "fingerprint"
    BY <1>2, <1>4, <1>7, <2>1 DEF PromptState
  <2>2. CASE q = "credential"
    BY <1>4, <2>2
  <2> QED BY <2>1, <2>2 DEF Questions
<1>9. /\ q = "fingerprint" => back[i].fp = "asked" /\ ~ses[w].accepted /\ ~Has(down[i], "fingerprint") /\ up[i] = <<>>
      /\ q = "credential" => back[i].cred = "asked" /\ ~Has(down[i], "credential") /\ up[i] = <<>>
  BY <1>4, <1>5 DEF Asked, AskingFp, AskingCred
<1>10. /\ AnswerFingerprint(TRUE) = "accept" /\ AnswerFingerprint(FALSE) = "reject"
       /\ AnswerCredential(TRUE) = "login" /\ AnswerCredential(FALSE) = "close"
  BY <1>1, <1>4, AnswerFacts
<1>11. \E b \in {"accept", "reject", "login", "close"}, r \in SesRec :
           /\ ses' = [ses EXCEPT ![w] = r] /\ up' = [up EXCEPT ![i] = <<b>>]
           /\ ui' = [ui EXCEPT !.submitting = TRUE]
           /\ r.subs = <<"wait">> /\ r.at = "live" /\ ~r.closed /\ r.started
           /\ r.slot = i /\ r.saving = ses[w].saving /\ r.known = ses[w].known /\ r.key = ses[w].key
           /\ r.sender = IF b = "close" THEN "closed" ELSE "open"
           /\ r.accepted <=> ses[w].accepted \/ b = "accept"
           /\ b = "accept" => r.clicked = "continue"
           /\ b \in {"accept", "reject"} <=> q = "fingerprint"
           /\ b \in {"login", "close"} => r.clicked = ses[w].clicked
  <2>1. CASE q = "fingerprint"
    <3> DEFINE c == IF go THEN "continue" ELSE "cancel"
               mark == [ses[w] EXCEPT !.clicked = c]
               b == AnswerFingerprint(go)
    <3>1. Reply(w, b, mark, ~go)
      BY <1>3, <1>4, <2>1 DEF Answer
    <3>2. b \in {"accept", "reject"} /\ (b = "accept" => c = "continue")
      BY <1>10
    <3>3. /\ mark \in SesRec /\ mark.at = "live" /\ mark.subs = <<>> /\ mark.sender = "open" /\ mark.clicked = c
          /\ mark.closed = ses[w].closed /\ mark.started = ses[w].started /\ mark.slot = ses[w].slot
          /\ mark.saving = ses[w].saving /\ mark.known = ses[w].known /\ mark.key = ses[w].key
          /\ mark.accepted = ses[w].accepted
      <4>1. c \in {"continue", "cancel"}
        OBVIOUS
      <4> HIDE DEF c
      <4> QED BY <1>2, <1>4, <4>1 DEF SesRec, Live
    <3> HIDE DEF mark, b, c
    <3>4. up[i] = <<>> /\ b \in {"accept", "reject", "login", "close"}
      BY <1>9, <2>1, <3>2
    <3>5. Replied(w, i, mark, b)
      <4>1. TypeOK /\ WireOK /\ ses[w].slot = i /\ ses[w].sender = "open" /\ conn = "up"
        BY <1>1, <1>4, <1>5
      <4> DEFINE t == ~go
      <4>2. Reply(w, b, mark, t)
        BY <3>1
      <4> HIDE DEF t
      <4> QED BY <3>3, <3>4, <4>1, <4>2, ReplyFacts
    <3>6. b \notin {"login", "close"}
      BY <3>2
    <3>7. PICK r \in SesRec :
           /\ ses' = [ses EXCEPT ![w] = r] /\ up' = [up EXCEPT ![i] = <<b>>]
           /\ ui' = [ui EXCEPT !.submitting = TRUE]
           /\ r.subs = <<"wait">> /\ r.at = "live" /\ r.closed = mark.closed /\ r.started = mark.started
           /\ r.slot = mark.slot /\ r.saving = mark.saving /\ r.known = mark.known /\ r.key = mark.key
           /\ r.clicked = mark.clicked
           /\ r.sender = IF b = "close" THEN "closed" ELSE "open"
           /\ r.accepted <=> mark.accepted \/ b = "accept"
      BY <3>5 DEF Replied
    <3>8. /\ ~r.closed /\ r.started /\ r.slot = i /\ r.saving = ses[w].saving /\ r.known = ses[w].known
          /\ r.key = ses[w].key /\ (r.accepted <=> ses[w].accepted \/ b = "accept")
          /\ (b = "accept" => r.clicked = "continue")
      BY <1>4, <1>5, <3>2, <3>3, <3>7
    <3>9. (b \in {"accept", "reject"} <=> q = "fingerprint") /\ ~(b \in {"login", "close"})
      BY <2>1, <3>2, <3>6
    <3> QED BY <3>4, <3>7, <3>8, <3>9
  <2>2. CASE q = "credential"
    <3> DEFINE b == AnswerCredential(go)
    <3>1. Reply(w, b, ses[w], ~go)
      BY <1>3, <1>4, <2>2 DEF Answer
    <3>2. b \in {"login", "close"}
      BY <1>10
    <3>3. ses[w] \in SesRec /\ ses[w].at = "live" /\ ses[w].subs = <<>> /\ ses[w].sender = "open"
      BY <1>2, <1>4 DEF Live
    <3> HIDE DEF b
    <3>4. up[i] = <<>> /\ b \in {"accept", "reject", "login", "close"}
      BY <1>9, <2>2, <3>2
    <3>5. Replied(w, i, ses[w], b)
      <4>1. TypeOK /\ WireOK /\ ses[w].slot = i /\ ses[w].sender = "open" /\ conn = "up"
        BY <1>1, <1>4, <1>5
      <4> DEFINE t == ~go
      <4>2. Reply(w, b, ses[w], t)
        BY <3>1
      <4> HIDE DEF t
      <4> QED BY <3>3, <3>4, <4>1, <4>2, ReplyFacts
    <3>6. b \notin {"accept", "reject"} /\ q # "fingerprint"
      BY <2>2, <3>2
    <3> QED BY <1>4, <1>5, <2>2, <3>2, <3>3, <3>4, <3>5, <3>6 DEF Replied
  <2> QED BY <2>1, <2>2 DEF Questions
<1>12. PICK b \in {"accept", "reject", "login", "close"}, r \in SesRec :
           /\ ses' = [ses EXCEPT ![w] = r] /\ up' = [up EXCEPT ![i] = <<b>>]
           /\ ui' = [ui EXCEPT !.submitting = TRUE]
           /\ r.subs = <<"wait">> /\ r.at = "live" /\ ~r.closed /\ r.started
           /\ r.slot = i /\ r.saving = ses[w].saving /\ r.known = ses[w].known /\ r.key = ses[w].key
           /\ r.sender = IF b = "close" THEN "closed" ELSE "open"
           /\ r.accepted <=> ses[w].accepted \/ b = "accept"
           /\ b = "accept" => r.clicked = "continue"
           /\ b \in {"accept", "reject"} <=> q = "fingerprint"
           /\ b \in {"login", "close"} => r.clicked = ses[w].clicked
  BY <1>11
<1>13. up'[i] = <<b>> /\ up' \in [Slots -> UpSeq] /\ \A j \in Slots \ {i} : up'[j] = up[j]
  <2>1. <<b>> \in UpSeq
    BY DEF UpSeq
  <2> QED BY <1>2, <1>12, <2>1
<1>14. /\ ses' \in [Sessions -> SesRec] /\ ses'[w] = r
       /\ \A v \in Sessions \ {w} : SessionInv(v)'
       /\ \A j \in Slots : slots[j].owner # w => SlotInv(j)'
  <2>1. \A j \in Slots : slots[j].owner # w =>
           slots'[j] = slots[j] /\ up'[j] = up[j] /\ down'[j] = down[j] /\ back'[j] = back[j]
    BY <1>5, <1>6, <1>13
  <2>2. \A v \in Sessions \ {w} : (v \in tabs' <=> v \in tabs) /\ ~Live(v)
    BY <1>4, <1>6
  <2>3. UNCHANGED <<setup, conn, built>>
    BY <1>6
  <2> QED BY <1>12, <2>1, <2>2, <2>3, OthersKept
<1>15. /\ ui' \in UiRec /\ ui'.w = ui.w /\ ui'.loop = ui.loop /\ ui'.cur = ui.cur /\ ui'.submitting
       /\ ui'.working = ui.working /\ ui'.disabled = ui.disabled /\ ui'.mounted = ui.mounted
       /\ ui'.closeWait = ui.closeWait /\ ui'.leaving = ui.leaving /\ ui'.cancelled = ui.cancelled
  BY <1>2, <1>12 DEF UiRec
<1>16. Live(w)' /\ (\A t : ~AtStep(w, t)') /\ Owns(w)' /\ Going(w)' /\ \A s : s # "wait" => <<"wait">> # <<s>>
  <2>1. \A s : s # "wait" => <<"wait">> # <<s>>
    OBVIOUS
  <2>2. Owns(w)'
    BY <1>5, <1>6, <1>12, <1>14 DEF Owns
  <2>3. <<"wait">> # <<"error">> /\ <<"wait">> # <<>>
    OBVIOUS
  <2> QED BY <1>12, <1>14, <2>1, <2>2, <2>3 DEF Live, AtStep, Going
<1>17. SessionInv(w)'
  <2>1. WizardState(w)'
    <3>1. ~(w > built') /\ w = built'
      BY <1>2, <1>4, <1>6
    <3>2. ui'.w = w
      BY <1>4, <1>15
    <3> QED BY <1>12, <1>14, <1>16, <3>1, <3>2, StepNames DEF WizardState
  <2>2. SenderState(w)'
    BY <1>4, <1>6, <1>8, <1>12, <1>14, <1>16 DEF SenderState, Questions
  <2>3. PromptState(w)'
    BY <1>16 DEF PromptState
  <2>4. Justified(w)'
    BY <1>7, <1>9, <1>12, <1>14 DEF Justified
  <2> QED BY <2>1, <2>2, <2>3, <2>4 DEF SessionInv
<1>18. SlotInv(i)'
  <2>1. back'[i] = back[i] /\ down'[i] = down[i] /\ slots'[i].owner = w
    BY <1>5, <1>6
  <2>2. ~slots[i].connected
    BY <1>4, <1>5, <<>> # <<"ok">> DEF SlotInv, SlotState
  <2>3. ~AskingFp(w)' /\ ~AskingCred(w)'
    BY <1>8, <1>12, <1>14, <1>16 DEF AskingFp, AskingCred, Questions
  <2>4. Head(<<b>>) = b
    OBVIOUS
  <2>5. back[i].fp # "yes" => back[i].cred = "unasked"
    BY <1>5 DEF Told
  <2>6. Has(down[i], "fingerprint") => back[i].fp = "asked"
    BY <1>5 DEF Told
  <2>7. q = "credential" => back[i].fp = "yes" /\ ~Has(down[i], "fingerprint")
    BY <1>9, <2>5, <2>6
  <2>8. Has(down[i], "fingerprint") => ~ses'[w].accepted
    BY <1>5, <1>9, <1>12, <1>14, <2>7 DEF Questions
  <2>9. Asked(i)'
    <3>1. Has(down[i], "fingerprint") \/ back[i].fp = "unasked" => ~ses'[w].accepted
      <4>1. Has(down[i], "fingerprint") \/ back[i].fp = "unasked" => ~ses[w].accepted
        BY <1>5 DEF Asked
      <4> QED BY <1>9, <1>12, <1>14, <4>1
    <3>2. b \in {"accept", "reject"} => back[i].fp = "asked" /\ ~Has(down[i], "fingerprint")
      BY <1>9, <1>12
    <3>3. b \in {"login"} => back[i].cred = "asked" /\ ~Has(down[i], "credential")
      BY <1>9, <1>12 DEF Questions
    <3>4. ses'[w].sender = "closed" => back[i].fp # "unasked" /\ back[i].cred # "unasked"
      BY <1>9, <1>12, <1>14, <2>7 DEF Questions
    <3> QED BY <1>13, <2>1, <2>3, <2>4, <3>1, <3>2, <3>3, <3>4 DEF Asked, HeadIn
  <2>10. Expected(i)'
    <3>1. Has(down[i], "close") /\ Going(w) /\ ses[w].sender = "open" /\ ~slots[i].connected =>
             Has(down[i], "failed") \/ Has(down[i], "connected")
      BY <1>5 DEF Expected
    <3>2. Going(w)
      BY <1>4, <<>> # <<"error">> DEF Going
    <3> QED BY <1>4, <1>16, <2>1, <2>2, <3>1, <3>2 DEF Expected
  <2>11. Cancelled(i)'
    <3>1. ses'[w].sender = "closed" => b = "close" /\ q = "credential"
      BY <1>12, <1>14 DEF Questions
    <3>2. ~IsTelnet'
      BY <1>4, <1>6 DEF IsTelnet
    <3> QED BY <1>9, <2>1, <2>7, <3>1, <3>2 DEF Cancelled
  <2>12. Sending(up'[i], ses'[w].sender = "closed", slots[i].shut)
    BY <1>5, <1>12, <1>13, <1>14 DEF Sending
  <2>13. ses'[w].sender \in {"open", "closed"} /\ ses'[w].slot = i /\ ses'[w].subs = <<"wait">>
    BY <1>12, <1>14
  <2>14. UNCHANGED <<conn, setup, slots>> /\ built' = built /\ w \notin tabs' /\ ses'[w].subs # <<"ok">> /\ ~slots[i].shut
    BY <1>4, <1>5, <1>6, <1>16, <2>13
  <2> QED BY <1>1, <1>5, <2>1, <2>2, <2>8, <2>9, <2>10, <2>11, <2>12, <2>13, <2>14, RunningKept
<1>19. TypeOK' /\ WireOK'
  BY <1>1, <1>6, <1>13, <1>14, <1>15 DEF TypeOK, WireOK, SesRec, UiRec, UpSeq
<1>20. LockState' /\ NoStrayFrame'
  BY <1>1, <1>4, <1>6 DEF LockState, IInv, NoStrayFrame
<1>21. ComponentState'
  <2>1. Live(built)' /\ ses'[built'].subs # <<>> /\ ~ses'[built'].closed
    BY <1>4, <1>6, <1>12, <1>14, <1>16, <<"wait">> # <<>>
  <2> QED BY <1>2, <1>4, <1>6, <1>15, <2>1 DEF ComponentState
<1>22. \A v \in Sessions : SessionInv(v)'
  BY <1>14, <1>17
<1>23. \A j \in Slots : SlotInv(j)'
  BY <1>5, <1>14, <1>18
<1> QED BY <1>19, <1>20, <1>21, <1>22, <1>23 DEF IInv
\* A component of which at most the submitting mark is released.
LEMMA ComponentKept ==
  ASSUME IInv, UNCHANGED <<built, inputting, conn>>, ui.w = 0 => ui' = ui,
         ui'.w = ui.w, ui'.loop = ui.loop, ui'.cur = ui.cur, ui'.submitting => ui.submitting,
         ui'.working = ui.working, ui'.disabled = ui.disabled, ui'.mounted = ui.mounted,
         ui'.closeWait = ui.closeWait, ui'.leaving = ui.leaving, ui'.cancelled = ui.cancelled,
         built # 0 =>
           /\ Live(built)' <=> Live(built)
           /\ ses[built].closed => ses'[built].closed
           /\ Live(built) => (ses'[built].closed => ses[built].closed)
           /\ ses[built].subs # <<>> => ses'[built].subs # <<>>,
         ui.mounted => inputting
  PROVE  ComponentState'
<1>1. ComponentState /\ (inputting => built # 0)
  BY DEF IInv, LockState
<1>2. CASE ui.w = 0
  <2>1. ui' = NoUi
    BY <1>1, <1>2 DEF ComponentState
  <2> QED BY <1>1, <1>2, <2>1 DEF ComponentState, Live
<1>3. CASE ui.w # 0
  <2>1. built # 0 /\ ui.w = built
    BY <1>1, <1>3 DEF ComponentState
  <2>2. /\ Live(built)' <=> Live(built)
        /\ ses[built].closed => ses'[built].closed
        /\ ses[built].subs # <<>> => ses'[built].subs # <<>>
    BY <2>1
  <2> QED BY <1>1, <1>3, <2>1, <2>2 DEF ComponentState, Live
<1> QED BY <1>2, <1>3

\* A session that is over keeps little to account for.
LEMMA OverSession ==
  ASSUME NEW w \in Sessions, ~Live(w)', ses'[w].subs = <<>>, w \in Nat, built' \in Nat, w <= built',
         ses'[w].sender = "none" => ses'[w].slot = NumSlots /\ ~ses'[w].accepted,
         ses'[w].sender = "none" \/ (ses'[w].sender = "open" /\ ~Owns(w)') =>
           ses'[w].saving # "pending" /\ w \notin tabs',
         ses'[w].saving = "pending" => ses'[w].clicked = "save",
         Justified(w)'
  PROVE  SessionInv(w)'
<1>1. \A s : ~AtStep(w, s)'
  BY DEF AtStep
<1>2. \A s : <<>> # <<s>>
  OBVIOUS
<1>3. WizardState(w)' /\ PromptState(w)'
  BY <1>1, <1>2 DEF WizardState, PromptState
<1>4. ses'[w].saving # "pending" /\ w \notin tabs' => Dull(w)'
  BY <1>1, <1>2 DEF Dull
<1>5. SenderState(w)'
  BY <1>1, <1>2, <1>4 DEF SenderState, Going
<1> QED BY <1>3, <1>5 DEF SessionInv

\* runAction releases the prompt that the click was made on.
LEMMA ReleasedFacts ==
  ASSUME IInv, NEW w \in Sessions
  PROVE  LET u == Released(w) IN
         /\ u \in UiRec /\ u.w = ui.w /\ u.loop = ui.loop /\ u.cur = ui.cur /\ (u.submitting => ui.submitting)
         /\ u.working = ui.working /\ u.disabled = ui.disabled /\ u.mounted = ui.mounted
         /\ u.closeWait = ui.closeWait /\ u.leaving = ui.leaving /\ u.cancelled = ui.cancelled
         /\ ~Live(w) => u = ui
         /\ AtStep(w, "fingerprint") => ~u.submitting
<1>1. TypeOK /\ WireOK /\ ComponentState
  BY DEF IInv
<1>2. ui \in UiRec /\ w # 0
  BY <1>1, Typed, Numbers DEF Sessions
<1>3. ~Live(w) /\ ui.w = w => ui.cur \in Outcomes
  BY <1>1, <1>2 DEF ComponentState
<1>4. AtStep(w, "fingerprint") => ui.w = w /\ ui.cur = "fingerprint" /\ ~ui.disabled
  BY <1>1, <1>2 DEF ComponentState, AtStep
<1>5. "fingerprint" \notin Outcomes
  BY DEF Outcomes
<1>6. CASE ui.w = w /\ ui.cur = "fingerprint" /\ ~ui.disabled
  <2>1. Released(w) = [ui EXCEPT !.submitting = FALSE]
    BY <1>6 DEF Released
  <2>2. ASSUME NEW u, u = [ui EXCEPT !.submitting = FALSE]
        PROVE  /\ u \in UiRec /\ u.w = ui.w /\ u.loop = ui.loop /\ u.cur = ui.cur /\ ~u.submitting
               /\ u.working = ui.working /\ u.disabled = ui.disabled /\ u.mounted = ui.mounted
               /\ u.closeWait = ui.closeWait /\ u.leaving = ui.leaving /\ u.cancelled = ui.cancelled
    BY <1>2, <2>2 DEF UiRec
  <2> QED BY <1>3, <1>5, <1>6, <2>1, <2>2
<1>7. CASE ~(ui.w = w /\ ui.cur = "fingerprint" /\ ~ui.disabled)
  <2>1. Released(w) = ui
    BY <1>7 DEF Released
  <2> QED BY <1>2, <1>4, <1>7, <2>1
<1> QED BY <1>6, <1>7

LEMMA InvSave ==
  ASSUME IInv, Save
  PROVE  IInv'
<1>1. TypeOK /\ WireOK /\ LockState /\ ComponentState
  BY DEF IInv
<1>2. /\ Quiet /\ ui.mounted /\ ~ui.submitting /\ ~ui.disabled /\ ui \in UiRec /\ ui.cur = "fingerprint"
      /\ ses \in [Sessions -> SesRec] /\ built \in Nat /\ up \in [Slots -> UpSeq]
  BY <1>1, Typed, Numbers DEF Save, Clickable, MaySubmit
<1>3. "fingerprint" \in Questions
  BY DEF Questions
<1>4. PICK w \in Sessions :
           /\ w = ui.w /\ w # 0 /\ w = built /\ dials + got = 0 /\ ~lock /\ Live(w)
           /\ \A v \in Sessions \ {w} : ~Live(v)
           /\ ses[w].subs = <<>> /\ ~ses[w].closed /\ inputting /\ ui.closeWait /\ ~ui.leaving /\ ~ui.cancelled
           /\ ui.loop = "waiting" /\ ui.cur \notin Outcomes
           /\ AtStep(w, "fingerprint") /\ ses[w].sender = "open" /\ ~IsTelnet /\ ~Dull(w) /\ ses[w].started
           /\ w \notin tabs
  BY <1>2, <1>3, PromptFacts
<1>5. PICK i \in Slots :
           /\ slots[i].owner = w /\ ses[w].slot = i /\ ~slots[i].initing /\ ~slots[i].shut /\ conn = "up"
           /\ Asked(i) /\ SlotInv(i)
           /\ \A j \in Slots : slots[j].owner = w => j = i
  BY <1>4, OpenRuns
<1>6. UNCHANGED <<setup, conn, dials, spent, got, lock, inputting, built, tabs, slots, up, down, back, store, stray>>
  BY DEF Save, sockVars, homeVars, wireVars
<1>7. SessionInv(w) /\ WizardState(w) /\ SenderState(w) /\ PromptState(w) /\ Justified(w)
  BY DEF IInv, SessionInv
<1>8. ~ses[w].accepted
  BY <1>4, <1>5 DEF Asked, AskingFp
<1> DEFINE r == [ses[w] EXCEPT !.saving = "pending", !.clicked = "save"]
<1>9. ses' = [ses EXCEPT ![w] = r] /\ ui' = [ui EXCEPT !.submitting = TRUE]
  <2>1. ses' = [ses EXCEPT ![w].saving = "pending", ![w].clicked = "save"] /\ ui' = [ui EXCEPT !.submitting = TRUE]
    BY <1>4 DEF Save
  <2> QED BY <1>2, <2>1
<1>10. /\ r \in SesRec /\ r.subs = <<>> /\ ~r.closed /\ r.at = "live" /\ r.sender = "open" /\ r.started
       /\ r.slot = i /\ r.saving = "pending" /\ r.clicked = "save" /\ ~r.accepted
  <2>1. ses[w] \in SesRec
    BY <1>2
  <2>2. ASSUME NEW x \in SesRec, NEW y, y = [x EXCEPT !.saving = "pending", !.clicked = "save"]
        PROVE  /\ y \in SesRec /\ y.subs = x.subs /\ y.closed = x.closed /\ y.at = x.at /\ y.sender = x.sender
               /\ y.started = x.started /\ y.slot = x.slot /\ y.saving = "pending" /\ y.clicked = "save"
               /\ y.accepted = x.accepted
    BY <2>2 DEF SesRec
  <2> HIDE DEF r
  <2>3. /\ r \in SesRec /\ r.subs = ses[w].subs /\ r.closed = ses[w].closed /\ r.at = ses[w].at
        /\ r.sender = ses[w].sender /\ r.started = ses[w].started /\ r.slot = ses[w].slot
        /\ r.saving = "pending" /\ r.clicked = "save" /\ r.accepted = ses[w].accepted
    BY <2>1, <2>2 DEF r
  <2> QED BY <1>4, <1>5, <1>8, <2>3 DEF Live
<1> HIDE DEF r
<1>11. /\ ses' \in [Sessions -> SesRec] /\ ses'[w] = r
       /\ \A v \in Sessions \ {w} : SessionInv(v)'
       /\ \A j \in Slots : slots[j].owner # w => SlotInv(j)'
  <2>1. \A v \in Sessions \ {w} : (v \in tabs' <=> v \in tabs) /\ ~Live(v)
    BY <1>4, <1>6
  <2> QED BY <1>6, <1>9, <1>10, <2>1, OthersKept
<1>12. /\ ui' \in UiRec /\ ui'.w = ui.w /\ ui'.loop = ui.loop /\ ui'.cur = ui.cur /\ ui'.submitting
       /\ ui'.working = ui.working /\ ui'.disabled = ui.disabled /\ ui'.mounted = ui.mounted
       /\ ui'.closeWait = ui.closeWait /\ ui'.leaving = ui.leaving /\ ui'.cancelled = ui.cancelled
  BY <1>2, <1>9 DEF UiRec
<1>13. Live(w)' /\ (\A t : AtStep(w, t)' <=> AtStep(w, t)) /\ (\A t : AtStep(w, t) <=> t = "fingerprint")
       /\ Owns(w)' /\ Going(w)' /\ Going(w) /\ (\A s : <<>> # <<s>>)
  <2>1. \A s : <<>> # <<s>>
    OBVIOUS
  <2>2. Owns(w)'
    BY <1>5, <1>6, <1>10, <1>11 DEF Owns
  <2>3. Live(w)' /\ Going(w)' /\ Going(w)
    BY <1>4, <1>10, <1>11, <2>1 DEF Live, Going
  <2>4. (\A t : AtStep(w, t) <=> t = "fingerprint")
    BY <1>2, <1>4 DEF AtStep
  <2>5. \A t : AtStep(w, t)' <=> AtStep(w, t)
    BY <1>4, <1>10, <1>11, <1>12, <2>3 DEF AtStep
  <2> QED BY <2>1, <2>2, <2>3, <2>4, <2>5
<1>14. SessionInv(w)'
  <2>1. WizardState(w)'
    <3>1. ~(w > built') /\ w = built'
      BY <1>2, <1>4, <1>6
    <3>2. ui'.w = w
      BY <1>4, <1>12
    <3> QED BY <1>10, <1>11, <1>13, <3>1, <3>2 DEF WizardState
  <2>2. SenderState(w)'
    BY <1>4, <1>6, <1>10, <1>11, <1>13 DEF SenderState
  <2>3. PromptState(w)'
    <3>1. PromptState(w) /\ IsTelnet' = IsTelnet /\ ui'.working
      BY <1>3, <1>4, <1>6, <1>7, <1>12 DEF IsTelnet, PromptState
    <3> QED BY <1>4, <1>10, <1>11, <1>12, <1>13, <3>1 DEF PromptState, Questions
  <2>4. Justified(w)'
    BY <1>10, <1>11 DEF Justified
  <2> QED BY <2>1, <2>2, <2>3, <2>4 DEF SessionInv
<1>15. SlotInv(i)'
  <2>1. ~slots[i].connected
    BY <1>4, <1>5, <<>> # <<"ok">> DEF SlotInv, SlotState
  <2>2. AskingFp(w) /\ (AskingCred(w)' => AskingCred(w))
    BY <1>4, <1>10, <1>11, <1>13 DEF AskingFp, AskingCred
  <2>3. ses'[w].subs # <<"ok">> /\ w \notin tabs' /\ ~ses'[w].accepted
    BY <1>4, <1>6, <1>10, <1>11, <1>13
  <2>4. built' >= built /\ built' \in Nat
    BY <1>2, <1>6
  <2> QED BY <1>1, <1>4, <1>5, <1>6, <1>10, <1>11, <1>13, <2>1, <2>2, <2>3, <2>4, SlotKept
<1>16. TypeOK' /\ WireOK'
  BY <1>1, <1>6, <1>11, <1>12 DEF TypeOK, WireOK, SesRec, UiRec
<1>17. LockState' /\ NoStrayFrame'
  BY <1>1, <1>4, <1>6 DEF LockState, IInv, NoStrayFrame
<1>18. ComponentState'
  <2>1. Live(built)' /\ ~ses'[built'].closed /\ ui'.cur # "empty" /\ built' = w
    BY <1>2, <1>4, <1>6, <1>10, <1>11, <1>12, <1>13
  <2> QED BY <1>2, <1>4, <1>6, <1>12, <2>1 DEF ComponentState
<1> QED BY <1>5, <1>11, <1>14, <1>15, <1>16, <1>17, <1>18 DEF IInv
\* A fingerprint that is being saved: the session, and the screen if it is still up.
LEMMA SavingFacts ==
  ASSUME IInv, Quiet, NEW w \in Sessions, ses[w].saving = "pending"
  PROVE  /\ ses[w].subs = <<>> /\ ~Dull(w) /\ ses[w].clicked = "save" /\ ses[w].sender # "none"
         /\ Live(w) => /\ AtStep(w, "fingerprint") /\ ses[w].sender = "open" /\ ~IsTelnet /\ ses[w].started
                       /\ ui.w = w /\ w = built /\ ~ses[w].closed /\ ui.working
                       /\ \A v \in Sessions \ {w} : ~Live(v)
<1>1. SenderState(w) /\ PromptState(w)
  BY DEF IInv, SessionInv
<1>2. ses[w].subs = <<>> /\ ~Dull(w) /\ ses[w].clicked = "save" /\ ses[w].sender # "none"
  <2>1. ses[w].subs = <<>>
    BY QuietFacts
  <2>2. ~Dull(w)
    BY DEF Dull
  <2> QED BY <1>1, <2>1, <2>2 DEF SenderState
<1>3. ASSUME Live(w)
      PROVE  /\ AtStep(w, "fingerprint") /\ ses[w].sender = "open" /\ ~IsTelnet /\ ses[w].started
             /\ ui.w = w /\ w = built /\ ~ses[w].closed /\ ui.working
             /\ \A v \in Sessions \ {w} : ~Live(v)
  <2>1. AtStep(w, "fingerprint")
    BY <1>1, <1>2, <1>3, <<>> # <<"error">> DEF SenderState
  <2>2. ses[w].sender = "open" /\ ~IsTelnet /\ ui.working
    BY <1>1, <2>1 DEF PromptState, Questions
  <2>3. ses[w].started
    BY <1>1, <1>2, <1>3 DEF SenderState
  <2>4. ui.w = w /\ w = built /\ ~ses[w].closed
    BY <1>3, QuietFacts
  <2>5. \A v \in Sessions \ {w} : ~Live(v)
    BY <1>3, OneLive
  <2> QED BY <2>1, <2>2, <2>3, <2>4, <2>5
<1> QED BY <1>2, <1>3

\* Saving ends without anything being sent.
LEMMA SavingEnds ==
  ASSUME IInv, Quiet, NEW w \in Sessions, ses[w].saving = "pending", NEW r \in SesRec,
         ses' = [ses EXCEPT ![w] = r], ui' = Released(w),
         UNCHANGED <<setup, conn, inputting, built, tabs, slots, up, down, back>>,
         r.at = ses[w].at, r.subs = <<>>, r.slot = ses[w].slot, r.sender = ses[w].sender, r.saving # "pending",
         ses[w].closed => r.closed, Live(w) => r.closed = ses[w].closed /\ r.started = ses[w].started,
         r.accepted => ses[w].accepted, Justified(w)'
  PROVE  /\ ses' \in [Sessions -> SesRec] /\ ComponentState'
         /\ \A v \in Sessions : SessionInv(v)'
         /\ \A j \in Slots : SlotInv(j)'
<1>1. TypeOK /\ WireOK
  BY DEF IInv
<1>2. built \in 0 .. MaxSessions /\ built \in Nat /\ w \in Nat /\ w # 0
  BY <1>1, Typed, Numbers DEF Sessions
<1>3. /\ ses[w].subs = <<>> /\ ~Dull(w) /\ ses[w].clicked = "save" /\ ses[w].sender # "none"
      /\ Live(w) => /\ AtStep(w, "fingerprint") /\ ses[w].sender = "open" /\ ~IsTelnet /\ ses[w].started
                    /\ ui.w = w /\ w = built /\ ~ses[w].closed /\ ui.working
                    /\ \A v \in Sessions \ {w} : ~Live(v)
  BY SavingFacts
<1>4. /\ ui' \in UiRec /\ ui'.w = ui.w /\ ui'.loop = ui.loop /\ ui'.cur = ui.cur /\ (ui'.submitting => ui.submitting)
      /\ ui'.working = ui.working /\ ui'.disabled = ui.disabled /\ ui'.mounted = ui.mounted
      /\ ui'.closeWait = ui.closeWait /\ ui'.leaving = ui.leaving /\ ui'.cancelled = ui.cancelled
      /\ (~Live(w) => ui' = ui)
      /\ (AtStep(w, "fingerprint") => ~ui'.submitting)
  BY ReleasedFacts
<1>5. /\ ses' \in [Sessions -> SesRec] /\ ses'[w] = r
      /\ \A v \in Sessions \ {w} : ses'[v] = ses[v] /\ SessionInv(v)'
      /\ \A j \in Slots : slots[j].owner # w => SlotInv(j)'
  <2>1. \A v \in Sessions \ {w} : (v \in tabs' <=> v \in tabs) /\ (Live(v) => ui' = ui /\ inputting' = inputting)
    BY <1>3, <1>4
  <2> QED BY <2>1, OthersKept
<1>6. (Live(w)' <=> Live(w)) /\ (\A t : AtStep(w, t)' <=> AtStep(w, t)) /\ (Owns(w)' <=> Owns(w))
      /\ (Going(w)' <=> Going(w))
  <2>1. Live(w)' <=> Live(w)
    BY <1>5 DEF Live
  <2>2. \A t : AtStep(w, t)' <=> AtStep(w, t)
    BY <1>3, <1>4, <1>5, <2>1 DEF AtStep
  <2>3. Owns(w)' <=> Owns(w)
    BY <1>5 DEF Owns
  <2>4. Going(w)' <=> Going(w)
    BY <1>3, <1>5, <2>1 DEF Going
  <2> QED BY <2>1, <2>2, <2>3, <2>4
<1>7. SenderState(w) /\ WizardState(w) /\ PromptState(w)
  BY DEF IInv, SessionInv
<1>8. IsTelnet' = IsTelnet /\ \A s : <<>> # <<s>>
  BY DEF IsTelnet
<1>9. SessionInv(w)'
  <2>1. CASE Live(w)
    <3>1. WizardState(w)'
      <4>1. ~(w > built') /\ w = built' /\ ui'.w = w /\ ~ses'[w].closed
        BY <1>2, <1>3, <1>4, <1>5, <2>1
      <4> QED BY <1>5, <4>1 DEF WizardState
    <3>2. \A t : AtStep(w, t)' <=> t = "fingerprint"
      BY <1>3, <1>6, <2>1 DEF AtStep
    <3>3. PromptState(w)'
      BY <1>3, <1>4, <1>5, <1>8, <2>1, <3>2 DEF PromptState
    <3>4. SenderState(w)'
      <4>1. Live(w)' /\ ses'[w].started /\ w \notin tabs'
        BY <1>3, <1>5, <1>6, <1>7, <2>1 DEF SenderState
      <4>2. Owns(w)'
        BY <1>3, <1>6, <1>7, <2>1 DEF SenderState
      <4> QED BY <1>3, <1>5, <1>8, <2>1, <3>2, <4>1, <4>2 DEF SenderState
    <3> QED BY <3>1, <3>3, <3>4 DEF SessionInv
  <2>2. CASE ~Live(w)
    <3>1. w <= built'
      <4>1. w > built => ses[w].saving = NoSession.saving
        BY <1>7 DEF WizardState
      <4> QED BY <1>2, <4>1 DEF NoSession
    <3>2. ses'[w].sender # "none" /\ ~(ses'[w].sender = "open" /\ ~Owns(w)')
      BY <1>3, <1>5, <1>6, <1>7 DEF SenderState
    <3> QED BY <1>2, <1>5, <1>6, <2>2, <3>1, <3>2, OverSession
  <2> QED BY <2>1, <2>2
<1>10. ASSUME NEW j \in Slots, slots[j].owner = w PROVE SlotInv(j)'
  <2>1. SlotInv(j) /\ SlotState(j)
    BY DEF IInv, SlotInv
  <2>2. AskingFp(w) /\ (AskingCred(w)' => AskingCred(w))
    BY <1>3, <1>5, <1>6, <1>8 DEF AskingFp, AskingCred
  <2>3. slots[j].connected => /\ w \in tabs' \/ ses[w].sender = "closed"
                              /\ ~Live(w)'
    BY <1>2, <1>3, <1>6, <1>8, <1>10, <2>1 DEF SlotState
  <2>4. ~slots[j].connected => w \notin tabs'
    BY <1>2, <1>10, <2>1 DEF SlotState
  <2>5. ses'[w].subs # <<"ok">> /\ ~slots[j].initing
    <3>1. ~slots[j].initing
      BY <1>3, <1>10, <2>1 DEF SlotState
    <3>2. ses'[w].subs = <<>>
      BY <1>5
    <3> QED BY <3>1, <3>2, <<>> # <<"ok">>
  <2>6. built' >= built /\ built' \in Nat
    BY <1>2
  <2>7. ses'[w].accepted => ses[w].accepted
    BY <1>5
  <2> QED BY <1>1, <1>2, <1>5, <1>6, <1>10, <2>1, <2>2, <2>3, <2>4, <2>5, <2>6, <2>7, SlotKept
<1>11. ComponentState'
  <2>1. ui.w = 0 => ui' = ui
    BY <1>2, <1>3, <1>4
  <2>2. ui.mounted => inputting
    BY QuietFacts
  <2>3. ASSUME built # 0
        PROVE  /\ Live(built)' <=> Live(built)
               /\ ses[built].closed => ses'[built].closed
               /\ Live(built) => (ses'[built].closed => ses[built].closed)
               /\ ses[built].subs # <<>> => ses'[built].subs # <<>>
    <3>1. built \in Sessions /\ built' = built
      BY <1>2, <2>3, Numbers DEF Sessions
    <3>2. CASE built = w
      BY <1>3, <1>5, <1>6, <3>1, <3>2
    <3>3. CASE built # w
      BY <1>5, <3>1, <3>3 DEF Live
    <3> QED BY <3>2, <3>3
  <2> QED BY <1>4, <2>1, <2>2, <2>3, ComponentKept
<1> QED BY <1>5, <1>9, <1>10, <1>11

\* A wizard that is over keeps nothing but its sender once nothing is being saved.
LEMMA SettledFacts ==
  ASSUME NEW s \in SesRec, s.subs = <<>>, s.saving # "pending"
  PROVE  LET r == Settled(s) IN
         /\ r \in SesRec /\ r.at = s.at /\ r.subs = <<>> /\ r.slot = s.slot /\ r.sender = s.sender
         /\ r.saving # "pending" /\ (s.closed => r.closed)
         /\ s.at = "live" => r = s
         /\ r.accepted => r = s
<1>1. CASE s.at = "over"
  <2>1. Settled(s) = Over(s)
    BY <1>1 DEF Settled
  <2> QED BY <1>1, <2>1, OverFacts
<1>2. CASE s.at # "over"
  BY <1>2 DEF Settled
<1> QED BY <1>1, <1>2

LEMMA InvSaveFailed ==
  ASSUME IInv, NEW w \in Sessions, SaveFailed(w)
  PROVE  IInv'
<1>1. TypeOK /\ WireOK /\ LockState
  BY DEF IInv
<1>2. Quiet /\ ses[w].saving = "pending" /\ ses \in [Sessions -> SesRec]
  BY <1>1, Typed DEF SaveFailed
<1>3. UNCHANGED <<setup, conn, dials, spent, got, lock, inputting, built, tabs, slots, up, down, back, store, stray>>
  BY DEF SaveFailed, sockVars, homeVars, wireVars
<1>4. ses[w].subs = <<>>
  BY <1>2, SavingFacts
<1>5. PICK s : s = [ses[w] EXCEPT !.saving = "no"]
  OBVIOUS
<1>6. /\ s \in SesRec /\ s.at = ses[w].at /\ s.subs = <<>> /\ s.slot = ses[w].slot /\ s.sender = ses[w].sender
      /\ s.saving = "no" /\ s.closed = ses[w].closed /\ s.started = ses[w].started
      /\ s.accepted = ses[w].accepted /\ s.known = ses[w].known /\ s.key = ses[w].key /\ s.clicked = ses[w].clicked
  BY <1>2, <1>4, <1>5 DEF SesRec
<1>7. PICK r : r = Settled(s)
  OBVIOUS
<1>8. ses' = [ses EXCEPT ![w] = r] /\ ui' = Released(w)
  BY <1>5, <1>7 DEF SaveFailed, AfterFailedSave
<1>9. /\ r \in SesRec /\ r.at = s.at /\ r.subs = <<>> /\ r.slot = s.slot /\ r.sender = s.sender
      /\ r.saving # "pending" /\ (s.closed => r.closed) /\ (s.at = "live" => r = s) /\ (r.accepted => r = s)
  BY <1>6, <1>7, SettledFacts
<1>10. ses'[w] = r
  BY <1>2, <1>8
<1>11. Justified(w)'
  <2>1. Justified(w)
    BY DEF IInv, SessionInv
  <2> QED BY <1>2, <1>6, <1>9, <1>10, <2>1 DEF Justified
<1>12. /\ ses' \in [Sessions -> SesRec] /\ ComponentState'
       /\ \A v \in Sessions : SessionInv(v)'
       /\ \A j \in Slots : SlotInv(j)'
  BY <1>2, <1>3, <1>6, <1>8, <1>9, <1>11, SavingEnds DEF Live
<1>13. ui' \in UiRec /\ ui'.w = ui.w
  BY <1>8, ReleasedFacts
<1>14. TypeOK' /\ WireOK'
  BY <1>1, <1>3, <1>12, <1>13 DEF TypeOK, WireOK, SesRec, UiRec
<1>15. LockState' /\ NoStrayFrame'
  BY <1>1, <1>3, <1>13 DEF LockState, IInv, NoStrayFrame
<1> QED BY <1>12, <1>14, <1>15 DEF IInv

LEMMA InvSaveDone ==
  ASSUME IInv, NEW w \in Sessions, SaveDone(w)
  PROVE  IInv'
<1>1. TypeOK /\ WireOK /\ LockState
  BY DEF IInv
<1>2. /\ Quiet /\ ses[w].saving = "pending" /\ ses \in [Sessions -> SesRec] /\ up \in [Slots -> UpSeq]
      /\ built \in 0 .. MaxSessions /\ built \in Nat /\ w \in Nat /\ w # 0
  BY <1>1, Typed, Numbers DEF SaveDone, Sessions
<1>3. UNCHANGED <<setup, conn, dials, spent, got, lock, inputting, built, tabs, slots, down, back, stray>>
  BY DEF SaveDone, sockVars, homeVars
<1>4. /\ ses[w].subs = <<>> /\ ~Dull(w) /\ ses[w].clicked = "save" /\ ses[w].sender # "none"
      /\ Live(w) => /\ AtStep(w, "fingerprint") /\ ses[w].sender = "open" /\ ~IsTelnet /\ ses[w].started
                    /\ ui.w = w /\ w = built /\ ~ses[w].closed /\ ui.working
                    /\ \A v \in Sessions \ {w} : ~Live(v)
  BY <1>2, SavingFacts
<1>5. ui' = Released(w)
  BY DEF SaveDone
<1>6. /\ ui' \in UiRec /\ ui'.w = ui.w /\ ui'.loop = ui.loop /\ ui'.cur = ui.cur /\ (ui'.submitting => ui.submitting)
      /\ ui'.working = ui.working /\ ui'.disabled = ui.disabled /\ ui'.mounted = ui.mounted
      /\ ui'.closeWait = ui.closeWait /\ ui'.leaving = ui.leaving /\ ui'.cancelled = ui.cancelled
      /\ (~Live(w) => ui' = ui)
  BY <1>5, ReleasedFacts
<1>7. store' \in Keys \cup {"none"}
  <2>1. store' = ses[w].key /\ ses[w] \in SesRec
    BY <1>2 DEF SaveDone
  <2> QED BY <2>1 DEF SesRec
<1>8. LockState' /\ NoStrayFrame'
  BY <1>1, <1>3, <1>6 DEF LockState, IInv, NoStrayFrame
<1>9. CASE ses[w].sender = "open"
  <2>1. PICK i \in Slots :
           /\ slots[i].owner = w /\ ses[w].slot = i /\ ~slots[i].initing /\ ~slots[i].shut /\ conn = "up"
           /\ Running(i) /\ Told(i) /\ Asked(i) /\ Expected(i) /\ Fresh(i) /\ Cancelled(i) /\ SlotInv(i)
           /\ \A j \in Slots : slots[j].owner = w => j = i
    BY <1>4, <1>9, OpenRuns
  <2>2. back[i].fp = "asked" /\ ~ses[w].accepted /\ ~Has(down[i], "fingerprint") /\ up[i] = <<>>
    BY <1>2, <1>9, <2>1 DEF Asked, AskingFp
  <2>3. ~IsTelnet
    BY <2>1, <2>2 DEF Told
  <2>4. AnswerFingerprint(TRUE) = "accept"
    BY <1>1, <2>3, AnswerFacts
  <2>5. PICK s : s = [ses[w] EXCEPT !.saving = "saved", !.accepted = TRUE]
    OBVIOUS
  <2>6. /\ s \in SesRec /\ s.at = ses[w].at /\ s.subs = <<>> /\ s.slot = ses[w].slot /\ s.sender = "open"
        /\ s.saving = "saved" /\ s.closed = ses[w].closed /\ s.started = ses[w].started
        /\ s.clicked = ses[w].clicked /\ s.accepted
    BY <1>2, <1>4, <1>9, <2>5 DEF SesRec
  <2>7. "wait" \in Steps /\ "wait" # "none"
    BY StepNames
  <2>8. PICK r : r = Pushed(s, "wait")
    OBVIOUS
  <2>9. /\ r \in SesRec
        /\ s.at # "live" => r = s
        /\ s.at = "live" => r = [s EXCEPT !.subs = <<"wait">>]
    BY <2>6, <2>7, <2>8, PushedFacts
  <2>10. /\ r \in SesRec /\ r.at = ses[w].at /\ r.slot = i /\ r.sender = "open"
         /\ r.saving = "saved" /\ r.closed = ses[w].closed /\ r.started = ses[w].started
         /\ r.clicked = "save" /\ r.accepted
         /\ (Live(w) => r.subs = <<"wait">>) /\ (~Live(w) => r.subs = <<>>)
    <3>1. CASE s.at = "live"
      <4>1. /\ r.at = s.at /\ r.slot = s.slot /\ r.sender = s.sender /\ r.saving = s.saving /\ r.closed = s.closed
            /\ r.started = s.started /\ r.clicked = s.clicked /\ r.accepted = s.accepted /\ r.subs = <<"wait">>
        BY <2>6, <2>9, <3>1 DEF SesRec
      <4> QED BY <1>4, <2>1, <2>6, <2>9, <3>1, <4>1 DEF Live
    <3>2. CASE s.at # "live"
      BY <1>4, <2>1, <2>6, <2>9, <3>2 DEF Live
    <3> QED BY <3>1, <3>2
  <2>11. ses' = [ses EXCEPT ![w] = r] /\ up' = [up EXCEPT ![i] = <<"accept">>]
    <3>1. SendAllowed(ses[w])
      BY <1>9 DEF SendAllowed
    <3>2. /\ Put(ses[w], "accept")
          /\ ses' = [ses EXCEPT ![w] = Pushed([ses[w] EXCEPT !.saving = "saved", !.accepted = TRUE], "wait")]
      BY <1>2, <2>4, <3>1 DEF SaveDone
    <3>3. Append(up[i], "accept") = <<"accept">>
      BY <2>2, SendAnswer
    <3> QED BY <2>1, <2>5, <2>8, <3>2, <3>3 DEF Put
  <2>12. up'[i] = <<"accept">> /\ up' \in [Slots -> UpSeq] /\ \A j \in Slots \ {i} : up'[j] = up[j]
    <3>1. <<"accept">> \in UpSeq
      BY DEF UpSeq
    <3> QED BY <1>2, <2>11, <3>1
  <2>13. /\ ses' \in [Sessions -> SesRec] /\ ses'[w] = r
         /\ \A v \in Sessions \ {w} : ses'[v] = ses[v] /\ SessionInv(v)'
         /\ \A j \in Slots : slots[j].owner # w => SlotInv(j)'
    <3>1. \A j \in Slots : slots[j].owner # w =>
             slots'[j] = slots[j] /\ up'[j] = up[j] /\ down'[j] = down[j] /\ back'[j] = back[j]
      BY <1>3, <2>1, <2>12
    <3>2. \A v \in Sessions \ {w} : (v \in tabs' <=> v \in tabs) /\ (Live(v) => ui' = ui /\ inputting' = inputting)
      BY <1>3, <1>4, <1>6
    <3> QED BY <1>3, <2>10, <2>11, <3>1, <3>2, OthersKept
  <2>14. (Live(w)' <=> Live(w)) /\ (\A t : ~AtStep(w, t)' \/ ~Live(w)) /\ Owns(w)' /\ (Going(w)' <=> Going(w))
         /\ \A s1 : s1 # "wait" => <<"wait">> # <<s1>>
    <3>1. Live(w)' <=> Live(w)
      BY <2>10, <2>13 DEF Live
    <3>2. \A t : ~AtStep(w, t)' \/ ~Live(w)
      BY <2>10, <2>13, <<"wait">> # <<>> DEF AtStep
    <3>3. Owns(w)'
      BY <1>3, <2>1, <2>10, <2>13 DEF Owns
    <3>4. Going(w)' <=> Going(w)
      BY <1>4, <2>10, <2>13, <3>1, <<"wait">> # <<"error">>, <<>> # <<"error">> DEF Going
    <3>5. \A s1 : s1 # "wait" => <<"wait">> # <<s1>>
      OBVIOUS
    <3> QED BY <3>1, <3>2, <3>3, <3>4, <3>5
  <2>15. Justified(w)'
    BY <2>10, <2>13 DEF Justified
  <2>16. SessionInv(w)'
    <3>1. CASE Live(w)
      <4>1. WizardState(w)'
        <5>1. ~(w > built') /\ w = built' /\ ui'.w = w /\ ~ses'[w].closed /\ Live(w)'
          BY <1>2, <1>3, <1>4, <1>6, <2>10, <2>13, <2>14, <3>1
        <5> QED BY <2>7, <2>10, <2>13, <3>1, <5>1 DEF WizardState
      <4>2. SenderState(w)'
        <5>1. w \notin tabs'
          BY <1>3, <3>1 DEF IInv, SessionInv, SenderState
        <5> QED BY <1>4, <2>10, <2>13, <2>14, <3>1, <5>1 DEF SenderState, Questions
      <4>3. PromptState(w)'
        BY <2>14, <3>1 DEF PromptState
      <4> QED BY <2>15, <4>1, <4>2, <4>3 DEF SessionInv
    <3>2. CASE ~Live(w)
      <4>1. w <= built'
        <5>1. SlotState(i)
          BY <2>1 DEF SlotInv
        <5> QED BY <1>2, <1>3, <2>1, <5>1 DEF SlotState
      <4> QED BY <1>2, <1>3, <2>10, <2>13, <2>14, <2>15, <3>2, <4>1, OverSession
    <3> QED BY <3>1, <3>2
  <2>17. SlotInv(i)'
    <3>1. back'[i] = back[i] /\ down'[i] = down[i] /\ slots'[i] = slots[i] /\ slots'[i].owner = w
      BY <1>3, <2>1
    <3>2. slots[i].connected => w \in tabs' /\ ~Live(w)'
      BY <1>2, <1>3, <1>4, <1>9, <2>1, <2>14, <<>> # <<"ok">> DEF SlotInv, SlotState
    <3>3. ~slots[i].connected => w \notin tabs'
      BY <1>2, <1>3, <2>1 DEF SlotInv, SlotState
    <3>4. \A t \in Questions \cup {"ok"} : ses'[w].subs # <<t>>
      <4>1. \A t : <<>> # <<t>>
        OBVIOUS
      <4>2. ses'[w].subs = <<>> \/ ses'[w].subs = <<"wait">>
        BY <2>10, <2>13
      <4>3. "wait" \notin Questions \cup {"ok"}
        BY DEF Questions
      <4> QED BY <2>14, <4>1, <4>2, <4>3
    <3>5. \A t : ~AtStep(w, t)'
      <4>1. ~Live(w) => \A t : ~AtStep(w, t)'
        BY <2>14 DEF AtStep
      <4> QED BY <2>14, <4>1
    <3>6. ~AskingFp(w)' /\ ~AskingCred(w)'
      BY <2>10, <2>13, <3>4, <3>5 DEF AskingFp, AskingCred, Questions
    <3>7. Asked(i)'
      BY <2>2, <2>10, <2>12, <2>13, <3>1, <3>6, Head(<<"accept">>) = "accept" DEF Asked, HeadIn
    <3>8. Expected(i)'
      BY <1>9, <2>1, <2>10, <2>13, <2>14, <3>1 DEF Expected
    <3>9. Cancelled(i)'
      BY <2>10, <2>13, <3>1 DEF Cancelled
    <3>10. Sending(up'[i], ses'[w].sender = "closed", slots[i].shut)
      BY <2>1, <2>10, <2>12, <2>13 DEF Sending
    <3>11. ses'[w].slot = i /\ ses'[w].sender \in {"open", "closed"} /\ ses'[w].subs # <<"ok">>
      BY <2>10, <2>13, <3>4
    <3> QED BY <1>1, <1>3, <2>1, <2>2, <3>1, <3>2, <3>3, <3>7, <3>8, <3>9, <3>10, <3>11, RunningKept
  <2>18. ComponentState'
    <3>1. ui.w = 0 => ui' = ui
      BY <1>2, <1>4, <1>6
    <3>2. ui.mounted => inputting
      BY <1>2, QuietFacts
    <3>3. ASSUME built # 0
          PROVE  /\ Live(built)' <=> Live(built)
                 /\ ses[built].closed => ses'[built].closed
                 /\ Live(built) => (ses'[built].closed => ses[built].closed)
                 /\ ses[built].subs # <<>> => ses'[built].subs # <<>>
      <4>1. built \in Sessions /\ built' = built
        BY <1>2, <1>3, <3>3, Numbers DEF Sessions
      <4>2. CASE built = w
        BY <1>4, <2>10, <2>13, <2>14, <4>1, <4>2
      <4>3. CASE built # w
        BY <2>13, <4>1, <4>3 DEF Live
      <4> QED BY <4>2, <4>3
    <3> QED BY <1>3, <1>6, <3>1, <3>2, <3>3, ComponentKept
  <2>19. TypeOK' /\ WireOK'
    BY <1>1, <1>3, <1>6, <1>7, <2>12, <2>13 DEF TypeOK, WireOK, SesRec, UiRec, UpSeq
  <2> QED BY <1>8, <2>1, <2>13, <2>16, <2>17, <2>18, <2>19 DEF IInv
<1>10. CASE ses[w].sender # "open"
  <2>1. PICK s : s = [ses[w] EXCEPT !.saving = "saved"]
    OBVIOUS
  <2>2. /\ s \in SesRec /\ s.at = ses[w].at /\ s.subs = <<>> /\ s.slot = ses[w].slot /\ s.sender = ses[w].sender
        /\ s.saving = "saved" /\ s.closed = ses[w].closed /\ s.started = ses[w].started
        /\ s.accepted = ses[w].accepted /\ s.clicked = ses[w].clicked
    <3>1. ses[w] \in SesRec /\ ses[w].subs = <<>>
      BY <1>2, <1>4
    <3> QED BY <2>1, <3>1 DEF SesRec
  <2>3. PICK r : r = Settled(s)
    OBVIOUS
  <2>4. /\ ses' = [ses EXCEPT ![w] = r] /\ up' = up
    BY <1>2, <1>10, <2>1, <2>3 DEF SaveDone, SendAllowed
  <2>5. /\ r \in SesRec /\ r.at = s.at /\ r.subs = <<>> /\ r.slot = s.slot /\ r.sender = s.sender
        /\ r.saving # "pending" /\ (s.closed => r.closed) /\ (s.at = "live" => r = s) /\ (r.accepted => r = s)
    BY <2>2, <2>3, SettledFacts
  <2>6. ses'[w] = r
    BY <1>2, <2>4
  <2>7. Justified(w)'
    BY <1>4, <2>2, <2>5, <2>6 DEF Justified
  <2>8. /\ ses' \in [Sessions -> SesRec] /\ ComponentState'
        /\ \A v \in Sessions : SessionInv(v)'
        /\ \A j \in Slots : SlotInv(j)'
    BY <1>2, <1>3, <1>5, <2>2, <2>4, <2>5, <2>7, SavingEnds DEF Live
  <2>9. TypeOK' /\ WireOK'
    BY <1>1, <1>3, <1>6, <1>7, <2>4, <2>8 DEF TypeOK, WireOK, SesRec, UiRec
  <2> QED BY <1>8, <2>8, <2>9 DEF IInv
<1> QED BY <1>9, <1>10

LEMMA InvCloseTab ==
  ASSUME IInv, NEW w \in Sessions, CloseTab(w)
  PROVE  IInv'
<1>1. TypeOK /\ WireOK /\ LockState /\ ComponentState
  BY DEF IInv
<1>2. /\ Quiet /\ w \in tabs /\ ses \in [Sessions -> SesRec] /\ up \in [Slots -> UpSeq]
      /\ built \in 0 .. MaxSessions /\ built \in Nat /\ w \in Nat /\ w # 0 /\ tabs' = tabs \ {w}
  BY <1>1, Typed, Numbers DEF CloseTab, Sessions
<1>3. UNCHANGED <<setup, conn, dials, spent, got, lock, inputting, built, ui, slots, down, back, store, stray>>
  BY DEF CloseTab, sockVars
<1>4. SenderState(w) /\ WizardState(w) /\ Justified(w)
  BY DEF IInv, SessionInv
<1>5. ~Dull(w) /\ ~Live(w) /\ ses[w].subs = <<>> /\ ses[w].sender # "none"
  BY <1>2, <1>4 DEF Dull, SenderState, WizardState
<1>6. LockState' /\ NoStrayFrame'
  BY <1>1, <1>3 DEF LockState, IInv, NoStrayFrame
<1>7. CASE ses[w].sender = "open"
  <2>1. PICK i \in Slots :
           /\ slots[i].owner = w /\ ses[w].slot = i /\ ~slots[i].initing /\ ~slots[i].shut /\ conn = "up"
           /\ Running(i) /\ Told(i) /\ Asked(i) /\ Expected(i) /\ Fresh(i) /\ Cancelled(i) /\ SlotInv(i)
           /\ \A j \in Slots : slots[j].owner = w => j = i
    BY <1>5, <1>7, OpenRuns
  <2>2. PICK r : r = [ses[w] EXCEPT !.sender = "closed"]
    OBVIOUS
  <2>3. /\ r \in SesRec /\ r.at = ses[w].at /\ r.subs = <<>> /\ r.slot = i /\ r.sender = "closed"
        /\ r.saving = ses[w].saving /\ r.closed = ses[w].closed /\ r.started = ses[w].started
        /\ r.accepted = ses[w].accepted /\ r.known = ses[w].known /\ r.key = ses[w].key /\ r.clicked = ses[w].clicked
    <3>1. ses[w] \in SesRec /\ ses[w].subs = <<>> /\ ses[w].slot = i
      BY <1>2, <1>5, <2>1
    <3> QED BY <2>2, <3>1 DEF SesRec
  <2>4. ses' = [ses EXCEPT ![w] = r] /\ up' = [up EXCEPT ![i] = Append(up[i], "close")]
    <3>1. ses' = [ses EXCEPT ![w].sender = "closed"] /\ Put(ses[w], "close")
      BY <1>7 DEF CloseTab
    <3> QED BY <1>2, <2>1, <2>2, <3>1 DEF Put
  <2>5. /\ up'[i] = Append(up[i], "close") /\ up' \in [Slots -> UpSeq]
        /\ \A j \in Slots \ {i} : up'[j] = up[j]
    <3>1. Append(up[i], "close") \in UpSeq
      BY <1>2 DEF UpSeq
    <3> QED BY <1>2, <2>4, <3>1
  <2>6. /\ ses' \in [Sessions -> SesRec] /\ ses'[w] = r
        /\ \A v \in Sessions \ {w} : ses'[v] = ses[v] /\ SessionInv(v)'
        /\ \A j \in Slots : slots[j].owner # w => SlotInv(j)'
    <3>1. \A j \in Slots : slots[j].owner # w =>
             slots'[j] = slots[j] /\ up'[j] = up[j] /\ down'[j] = down[j] /\ back'[j] = back[j]
      BY <1>3, <2>1, <2>5
    <3> QED BY <1>2, <1>3, <2>3, <2>4, <3>1, OthersKept
  <2>7. ~Live(w)' /\ Owns(w)'
    BY <1>3, <1>5, <2>1, <2>3, <2>6 DEF Live, Owns
  <2>8. SessionInv(w)'
    <3>1. w <= built'
      BY <1>2, <1>3, <2>1 DEF SlotInv, SlotState
    <3>2. Justified(w)'
      BY <1>4, <2>3, <2>6 DEF Justified
    <3>3. ses[w].saving = "pending" => ses[w].clicked = "save"
      BY <1>4 DEF SenderState
    <3> QED BY <1>2, <1>3, <2>3, <2>6, <2>7, <3>1, <3>2, <3>3, OverSession
  <2>9. SlotInv(i)'
    <3>1. back'[i] = back[i] /\ down'[i] = down[i] /\ slots'[i] = slots[i] /\ slots'[i].owner = w
      BY <1>3, <2>1
    <3>2. slots[i].connected
      BY <1>2, <2>1 DEF SlotInv, SlotState
    <3>3. Sending(up[i], FALSE, FALSE)
      <4>1. slots[i] \in SlotRec /\ ~slots[i].shut /\ (ses[w].sender = "closed") = FALSE
        BY <1>1, <1>7, <2>1, Typed
      <4>2. slots[i].shut = FALSE
        BY <4>1 DEF SlotRec
      <4>3. Sending(up[i], ses[w].sender = "closed", slots[i].shut)
        BY <2>1 DEF Running
      <4> QED BY <4>1, <4>2, <4>3
    <3>4. Sending(up'[i], TRUE, FALSE) /\ (HeadIn(up'[i], {"accept", "reject"}) => HeadIn(up[i], {"accept", "reject"}))
          /\ (HeadIn(up'[i], {"login"}) => HeadIn(up[i], {"login"}))
      BY <2>5, <3>3, SendClose DEF HeadIn
    <3>5. ~Going(w)'
      BY <2>7 DEF Going
    <3>6. Asked(i)'
      BY <2>1, <2>3, <2>6, <3>1, <3>4, <3>5 DEF Asked
    <3>7. Expected(i)'
      BY <2>3, <2>6, <3>1, <3>5 DEF Expected
    <3>8. Cancelled(i)'
      BY <3>1, <3>5 DEF Cancelled
    <3>9. Has(down[i], "fingerprint") => ~ses'[w].accepted
      BY <2>1, <2>3, <2>6 DEF Fresh
    <3>10. Sending(up'[i], ses'[w].sender = "closed", slots[i].shut)
      <4>1. slots[i] \in SlotRec /\ ~slots[i].shut /\ (ses'[w].sender = "closed") = TRUE
        BY <1>1, <2>1, <2>3, <2>6, Typed
      <4>2. slots[i].shut = FALSE
        BY <4>1 DEF SlotRec
      <4> QED BY <3>4, <4>1, <4>2
    <3> QED BY <1>1, <1>3, <2>1, <2>3, <2>6, <2>7, <3>1, <3>2, <3>6, <3>7, <3>8, <3>9, <3>10, RunningKept
  <2>10. ComponentState'
    <3>1. ui.mounted => inputting
      BY <1>2, QuietFacts
    <3>2. ASSUME built # 0
          PROVE  /\ Live(built)' <=> Live(built)
                 /\ ses[built].closed => ses'[built].closed
                 /\ Live(built) => (ses'[built].closed => ses[built].closed)
                 /\ ses[built].subs # <<>> => ses'[built].subs # <<>>
      <4>1. built \in Sessions /\ built' = built
        BY <1>2, <1>3, <3>2, Numbers DEF Sessions
      <4>2. CASE built = w
        BY <1>5, <2>3, <2>6, <2>7, <4>1, <4>2
      <4>3. CASE built # w
        BY <2>6, <4>1, <4>3 DEF Live
      <4> QED BY <4>2, <4>3
    <3> QED BY <1>3, <3>1, <3>2, ComponentKept
  <2>11. TypeOK' /\ WireOK'
    BY <1>1, <1>2, <1>3, <2>5, <2>6 DEF TypeOK, WireOK, SesRec, UpSeq
  <2> QED BY <1>6, <2>1, <2>6, <2>8, <2>9, <2>10, <2>11 DEF IInv
<1>8. CASE ses[w].sender # "open"
  <2>1. UNCHANGED <<ses, up>>
    BY <1>8 DEF CloseTab
  <2>2. built' >= built /\ built' \in Nat
    BY <1>2, <1>3
  <2>3. ASSUME NEW v \in Sessions PROVE SessionInv(v)'
    <3>1. SessionInv(v)
      BY DEF IInv
    <3>2. Owns(v) => Owns(v)'
      BY <1>3, <2>1 DEF Owns
    <3> QED BY <1>1, <1>2, <1>3, <2>1, <2>2, <3>1, <3>2, SessionKept
  <2>4. ASSUME NEW j \in Slots PROVE SlotInv(j)'
    <3>1. SlotInv(j) /\ SlotState(j)
      BY DEF IInv, SlotInv
    <3>2. CASE slots[j].owner = w
      <4>1. ~slots[j].initing
        BY <1>5, <3>1, <3>2 DEF SlotState
      <4>2. \A t : ~AtStep(w, t) /\ ~AtStep(w, t)'
        BY <1>5, <2>1 DEF AtStep, Live
      <4>3. (AskingFp(w)' => AskingFp(w)) /\ (AskingCred(w)' => AskingCred(w)) /\ (Going(w)' <=> Going(w)) /\ ~Live(w)'
        BY <1>5, <2>1, <4>2 DEF AskingFp, AskingCred, Going, Live
      <4>4. slots[j].connected => ses[w].sender = "closed"
        BY <1>2, <1>5, <1>8, <2>1, <3>1, <3>2 DEF SesRec
      <4>5. ses'[w].subs # <<"ok">>
        BY <1>5, <2>1, <<>> # <<"ok">>
      <4> QED BY <1>1, <1>2, <1>3, <2>1, <2>2, <3>1, <3>2, <4>1, <4>3, <4>4, <4>5, SlotKept
    <3>3. CASE slots[j].owner # w
      BY <1>2, <1>3, <2>1, <2>2, <3>3, SlotUntouched
    <3> QED BY <3>2, <3>3
  <2>5. ComponentState' /\ TypeOK' /\ WireOK'
    BY <1>1, <1>2, <1>3, <2>1 DEF ComponentState, Live, TypeOK, WireOK
  <2> QED BY <1>6, <2>3, <2>4, <2>5 DEF IInv
<1> QED BY <1>7, <1>8
----------------------------------------------------------------------------
(* The stream of a session.                                                 *)

\* What a frame finds that arrives.
Arrived(i, w, f) ==
  /\ w = slots[i].owner /\ w # 0 /\ w \in Nat /\ w <= built /\ conn = "up"
  /\ f = Head(down[i]) /\ f \in FrameRec /\ Has(down[i], f.body)
  /\ Tail(down[i]) \in Seq(FrameRec) /\ Sorted(Tail(down[i]))
  /\ \A b : Has(Tail(down[i]), b) <=> Has(down[i], b) /\ b # f.body
  /\ \A b : Has(Tail(down[i]), b) => Rank(f.body) < Rank(b)
  /\ SlotState(i) /\ Phase(i) /\ Fresh(i) /\ Cancelled(i)
  /\ Running(i) => Told(i) /\ Asked(i) /\ Expected(i)
  /\ WizardState(w) /\ PromptState(w) /\ SenderState(w) /\ Justified(w)
  /\ ses[w].slot = i /\ ses[w].sender # "none" /\ ses[w].subs = <<>>
  /\ Live(w) => w = built /\ ui.w = w /\ ~ses[w].closed /\ Going(w) /\ ses[w].started /\ w \notin tabs
  /\ Going(w) => Live(w)

LEMMA ArrivesFacts ==
  ASSUME IInv, NEW i \in Slots, NEW bodies, Arrives(i, bodies)
  PROVE  \E w \in Sessions, f \in FrameRec : Arrived(i, w, f) /\ f.body \in bodies
<1>1. TypeOK /\ WireOK
  BY DEF IInv
<1>2. Quiet /\ conn = "up" /\ down[i] # <<>> /\ Head(down[i]).body \in bodies /\ slots[i].owner # 0
  BY DEF Arrives
<1>3. PICK w \in Sessions : w = slots[i].owner
  BY <1>2, OwnerTyped
<1>4. w # 0 /\ w \in Nat
  BY Numbers DEF Sessions
<1>5. SlotInv(i) /\ SlotState(i) /\ Handshake(i) /\ Sorted(down[i]) /\ down[i] \in Seq(FrameRec)
  BY <1>1, <1>2, Typed DEF IInv, SlotInv
<1>6. PICK f \in FrameRec : f = Head(down[i])
  BY <1>2, <1>5, TakeOne
<1>7. /\ Has(down[i], f.body) /\ Tail(down[i]) \in Seq(FrameRec) /\ Sorted(Tail(down[i]))
      /\ \A b : Has(Tail(down[i]), b) <=> Has(down[i], b) /\ b # f.body
      /\ \A b : Has(Tail(down[i]), b) => Rank(f.body) < Rank(b)
  BY <1>2, <1>5, <1>6, TakeOne
<1>8. w <= built /\ ses[w].slot = i /\ ses[w].sender # "none"
  BY <1>3, <1>4, <1>5 DEF SlotState
<1>9. WizardState(w) /\ PromptState(w) /\ SenderState(w) /\ Justified(w)
  BY DEF IInv, SessionInv
<1>10. ses[w].subs = <<>>
  BY <1>2, QuietFacts
<1>11. ASSUME Live(w)
       PROVE  w = built /\ ui.w = w /\ ~ses[w].closed /\ Going(w) /\ ses[w].started /\ w \notin tabs
  <2>1. w = built /\ ui.w = w /\ ~ses[w].closed
    BY <1>2, <1>11, QuietFacts
  <2>2. Going(w)
    BY <1>10, <1>11, <<>> # <<"error">> DEF Going
  <2>3. ses[w].started /\ w \notin tabs
    BY <1>8, <1>9, <1>11 DEF SenderState
  <2> QED BY <2>1, <2>2, <2>3
<1>12. Going(w) => Live(w)
  BY DEF Going
<1>13. Phase(i) /\ Fresh(i) /\ Cancelled(i) /\ (Running(i) => Told(i) /\ Asked(i) /\ Expected(i))
  BY <1>3, <1>4, <1>5 DEF Handshake
<1>14. Arrived(i, w, f)
  BY <1>2, <1>3, <1>4, <1>5, <1>6, <1>7, <1>8, <1>9, <1>10, <1>11, <1>12, <1>13 DEF Arrived
<1> QED BY <1>2, <1>6, <1>14

\* The step changes one slot and its session.
LEMMA ReceivedStep ==
  ASSUME IInv, Quiet, NEW i \in Slots, NEW w \in Sessions, w = slots[i].owner,
         NEW r \in SesRec, NEW x \in SlotRec, NEW y \in UpSeq, NEW q \in Seq(FrameRec),
         ses' = [ses EXCEPT ![w] = r], slots' = [slots EXCEPT ![i] = x],
         up' = [up EXCEPT ![i] = y], down' = [down EXCEPT ![i] = q],
         UNCHANGED <<setup, conn, dials, spent, got, lock, inputting, built, tabs, ui, back, store, stray>>,
         r.at = ses[w].at, r.closed = ses[w].closed,
         ses[w].subs = <<>>, SessionInv(w)', SlotInv(i)'
  PROVE  IInv'
<1>1. TypeOK /\ WireOK /\ LockState
  BY DEF IInv
<1>2. /\ ses \in [Sessions -> SesRec] /\ slots \in [Slots -> SlotRec] /\ up \in [Slots -> UpSeq]
      /\ down \in [Slots -> Seq(FrameRec)] /\ built \in 0 .. MaxSessions
  BY <1>1, Typed
<1>3. /\ \A j \in Slots \ {i} : slots'[j] = slots[j] /\ up'[j] = up[j] /\ down'[j] = down[j]
      /\ slots' \in [Slots -> SlotRec] /\ up' \in [Slots -> UpSeq] /\ down' \in [Slots -> Seq(FrameRec)]
  BY <1>2
<1>4. /\ ses' \in [Sessions -> SesRec] /\ ses'[w] = r
      /\ \A v \in Sessions \ {w} : ses'[v] = ses[v] /\ SessionInv(v)'
      /\ \A j \in Slots : slots[j].owner # w => SlotInv(j)'
  <2>1. \A j \in Slots : slots[j].owner # w =>
           slots'[j] = slots[j] /\ up'[j] = up[j] /\ down'[j] = down[j] /\ back'[j] = back[j]
    BY <1>3
  <2> QED BY <2>1, OthersKept
<1>5. \A j \in Slots : slots[j].owner = w => j = i
  BY OwnSlot
<1>6. \A j \in Slots : SlotInv(j)'
  BY <1>4, <1>5
<1>7. \A v \in Sessions : SessionInv(v)'
  BY <1>4
<1>8. ComponentState'
  <2>1. ui.mounted => inputting
    BY QuietFacts
  <2>2. ASSUME built # 0
        PROVE  /\ Live(built)' <=> Live(built)
               /\ ses[built].closed => ses'[built].closed
               /\ Live(built) => (ses'[built].closed => ses[built].closed)
               /\ ses[built].subs # <<>> => ses'[built].subs # <<>>
    <3>1. built \in Sessions /\ built' = built
      BY <1>2, <2>2, Numbers DEF Sessions
    <3>2. CASE built = w
      BY <1>4, <3>1, <3>2 DEF Live
    <3>3. CASE built # w
      BY <1>4, <3>1, <3>3 DEF Live
    <3> QED BY <3>2, <3>3
  <2> QED BY <2>1, <2>2, ComponentKept
<1>9. TypeOK' /\ WireOK'
  BY <1>1, <1>3, <1>4 DEF TypeOK, WireOK, SesRec, SlotRec, UpSeq
<1>10. LockState' /\ NoStrayFrame'
  BY <1>1 DEF LockState, IInv, NoStrayFrame
<1> QED BY <1>6, <1>7, <1>8, <1>9, <1>10 DEF IInv

\* A wizard to which a step has been resolved.
LEMMA DueSession ==
  ASSUME NEW w \in Sessions, Live(w)', w \in Nat, built' \in Nat, w = built', ui'.w = w, ~ses'[w].closed \/ ses'[w].subs = <<"error">>,
         NEW step \in Steps \ {"initial"}, ses'[w].subs = <<step>>, ses'[w].sender # "none",
         ses'[w].started, w \notin tabs', Owns(w)' \/ (ses'[w].sender = "closed" /\ step = "error") \/ (Dull(w)' /\ step = "error"),
         step \in Questions => ses'[w].sender = "open" /\ ~IsTelnet',
         ses'[w].saving = "pending" => ses'[w].clicked = "save" /\ step = "error",
         Justified(w)'
  PROVE  SessionInv(w)' /\ \A t : ~AtStep(w, t)'
<1>1. \A t : ~AtStep(w, t)'
  BY <<step>> # <<>> DEF AtStep
<1>2. \A t : <<step>> = <<t>> <=> t = step
  OBVIOUS
<1>3. WizardState(w)'
  <2>1. ~(w > built')
    OBVIOUS
  <2> QED BY <2>1 DEF WizardState
<1>4. PromptState(w)'
  BY <1>1 DEF PromptState
<1>5. Going(w)' => step # "error"
  BY <1>2 DEF Going
<1>6. SenderState(w)'
  BY <1>1, <1>2, <1>5 DEF SenderState
<1> QED BY <1>1, <1>3, <1>4, <1>6 DEF SessionInv

LEMMA InvReceiveInitial ==
  ASSUME IInv, NEW i \in Slots, ReceiveInitial(i)
  PROVE  IInv'
<1>1. TypeOK /\ WireOK /\ Quiet
  BY DEF IInv, ReceiveInitial, Arrives
<1>2. PICK w \in Sessions, f \in FrameRec : Arrived(i, w, f) /\ f.body \in {"started", "refused"}
  <2>1. Arrives(i, {"started", "refused"})
    BY DEF ReceiveInitial
  <2> QED BY <2>1, ArrivesFacts
<1>3. /\ w = slots[i].owner /\ w # 0 /\ w \in Nat /\ w <= built /\ conn = "up"
      /\ f = Head(down[i]) /\ Has(down[i], f.body)
      /\ ses[w].slot = i /\ ses[w].subs = <<>>
  BY <1>2 DEF Arrived
<1>4. UNCHANGED <<setup, conn, dials, spent, got, lock, inputting, built, tabs, ui, up, back, store, stray>>
  BY DEF ReceiveInitial, sockVars, homeVars
<1>5. /\ slots[i].initing /\ Dull(w) /\ ~slots[i].shut /\ ~slots[i].connected
      /\ ses[w].sender = "open" /\ ~ses[w].accepted /\ Going(w) /\ Live(w)
  BY <1>2, <1>3 DEF ReceiveInitial, Arrived, SlotState, Fresh
<1>6. w = built /\ ui.w = w /\ ~ses[w].closed /\ ses[w].started /\ w \notin tabs /\ ses[w].saving # "pending"
  BY <1>2, <1>5 DEF Arrived, Dull
<1>7. /\ ses \in [Sessions -> SesRec] /\ slots \in [Slots -> SlotRec] /\ up \in [Slots -> UpSeq]
      /\ ses[w] \in SesRec /\ slots[i] \in SlotRec /\ up[i] \in UpSeq /\ down \in [Slots -> Seq(FrameRec)]
  BY <1>1, Typed
<1>8. PICK q \in Seq(FrameRec) : q = Tail(down[i])
  BY <1>2 DEF Arrived
<1>9. /\ Sorted(q) /\ (\A b : Has(q, b) <=> Has(down[i], b) /\ b # f.body)
  BY <1>2, <1>8 DEF Arrived
<1>10. down' = [down EXCEPT ![i] = q] /\ up' = [up EXCEPT ![i] = up[i]]
  <2>1. down' = [down EXCEPT ![i] = Tail(down[i])]
    BY DEF ReceiveInitial, Arrives
  <2>2. up' = [up EXCEPT ![i] = up[i]]
    BY <1>4, <1>7
  <2> QED BY <1>8, <2>1, <2>2
<1>11. CASE f.body = "started"
  <2>1. PICK x : x = [slots[i] EXCEPT !.initing = FALSE]
    OBVIOUS
  <2>2. x \in SlotRec /\ x.owner = w /\ ~x.initing /\ ~x.shut /\ ~x.connected /\ x.shut = slots[i].shut
    BY <1>3, <1>5, <1>7, <2>1 DEF SlotRec
  <2>3. "wait" \in Steps \ {"initial"} /\ "wait" # "none" /\ "wait" # "error" /\ "wait" \notin Questions
    BY StepNames DEF Questions
  <2>4. PICK r : r = [ses[w] EXCEPT !.subs = <<"wait">>]
    OBVIOUS
  <2>5. Pushed(ses[w], "wait") = r /\ r \in SesRec
    <3>1. ses[w] \in SesRec /\ ses[w].at = "live" /\ ses[w].subs = <<>> /\ "wait" \in Steps \cup {"none"}
      BY <1>3, <1>5, <1>7, <2>3, <2>4 DEF Live
    <3>2. Pushed(ses[w], "wait") \in SesRec /\ Pushed(ses[w], "wait") = [ses[w] EXCEPT !.subs = <<"wait">>]
      BY <3>1, <2>3, <2>4, PushedFacts
    <3> QED BY <2>3, <2>4, <3>2
  <2>6. /\ r.subs = <<"wait">> /\ r.at = ses[w].at /\ r.closed = ses[w].closed /\ r.sender = "open"
        /\ r.started = ses[w].started /\ r.slot = ses[w].slot /\ r.accepted = ses[w].accepted
        /\ r.saving = ses[w].saving
    BY <1>5, <1>7, <2>4 DEF SesRec
  <2>7. ses' = [ses EXCEPT ![w] = r] /\ slots' = [slots EXCEPT ![i] = x]
    <3>1. OnInitial(TRUE) = "wait"
      BY <1>1, OutcomeFacts
    <3>2. (Head(down[i]).body = "started") = TRUE
      BY <1>3, <1>11
    <3>3. ses' = [ses EXCEPT ![w] = Pushed(ses[w], OnInitial(TRUE))]
      BY <1>3, <1>7, <3>2 DEF ReceiveInitial, Resolve
    <3>4. slots' = [slots EXCEPT ![i] = [slots[i] EXCEPT !.initing = FALSE]]
      BY <1>7, <3>2 DEF ReceiveInitial
    <3> QED BY <2>1, <2>5, <3>1, <3>3, <3>4
  <2>8. ses'[w] = r /\ slots'[i] = x /\ up'[i] = up[i] /\ down'[i] = q
    BY <1>7, <1>10, <2>7
  <2>9. Live(w)' /\ Owns(w)' /\ Going(w)'
    BY <1>3, <1>5, <2>2, <2>6, <2>8, <<"wait">> # <<"error">> DEF Live, Owns, Going
  <2>10. Justified(w)'
    BY <1>5, <2>6, <2>8 DEF Justified
  <2>11. SessionInv(w)' /\ \A t : ~AtStep(w, t)'
    BY <1>3, <1>4, <1>5, <1>6, <2>3, <2>6, <2>8, <2>9, <2>10, DueSession
  <2>12. SlotInv(i)'
    <3>1. Running(i)
      <4>1. ~Refused(i)
        <5>1. Refused(i) => Head(down[i]) = Frame("refused")
          BY DEF Refused
        <5> QED BY <1>3, <1>11, <5>1, FrameTyped DEF Frame
      <4> QED BY <1>2, <1>3, <1>5, <1>9, <4>1, HasNone DEF Arrived, Phase, Idle, Requested, Closed
    <3>2. Told(i) /\ Asked(i) /\ Expected(i) /\ Fresh(i) /\ Cancelled(i)
      BY <1>2, <3>1 DEF Arrived
    <3>3. \A b : b # "started" => (Has(q, b) <=> Has(down[i], b))
      BY <1>9, <1>11
    <3>4. ~Has(q, "started")
      BY <1>9, <1>11
    <3>5. Running(i)'
      BY <1>3, <1>4, <1>5, <2>2, <2>6, <2>8, <3>1, <3>3, <3>4 DEF Running
    <3>6. Told(i)'
      BY <1>4, <1>5, <2>2, <2>8, <3>2, <3>3 DEF Told, IsTelnet
    <3>7. \A s : s # "wait" => <<"wait">> # <<s>>
      OBVIOUS
    <3>8. ~AskingFp(w)' /\ ~AskingCred(w)'
      BY <1>6, <2>6, <2>8, <2>11, <3>7 DEF AskingFp, AskingCred
    <3>9. Asked(i)'
      BY <1>3, <1>4, <1>5, <2>2, <2>6, <2>8, <3>2, <3>3, <3>8 DEF Asked
    <3>10. Expected(i)'
      BY <1>3, <1>4, <1>5, <2>2, <2>6, <2>8, <2>9, <3>2, <3>3 DEF Expected
    <3>11. Fresh(i)' /\ Cancelled(i)'
      BY <1>5, <2>2, <2>6, <2>8 DEF Fresh, Cancelled
    <3>12. SlotState(i)'
      BY <1>3, <1>4, <1>6, <2>2, <2>6, <2>8, <3>7 DEF SlotState
    <3> QED BY <1>9, <2>8, <3>5, <3>6, <3>9, <3>10, <3>11, <3>12 DEF SlotInv, Handshake, Phase
  <2> QED BY <1>1, <1>3, <1>4, <1>7, <1>10, <2>2, <2>5, <2>6, <2>7, <2>11, <2>12, ReceivedStep
<1>12. CASE f.body = "refused"
  <2>1. PICK r : r = [ses[w] EXCEPT !.subs = <<"error">>]
    OBVIOUS
  <2>2. "error" \in Steps \ {"initial"} /\ "error" # "none" /\ "error" \notin Questions
    BY StepNames DEF Questions
  <2>3. Pushed(ses[w], "error") = r /\ r \in SesRec
    <3>1. ses[w] \in SesRec /\ ses[w].at = "live" /\ ses[w].subs = <<>> /\ "error" \in Steps \cup {"none"}
      BY <1>3, <1>5, <1>7, <2>1, <2>2 DEF Live
    <3>2. Pushed(ses[w], "error") \in SesRec /\ Pushed(ses[w], "error") = [ses[w] EXCEPT !.subs = <<"error">>]
      BY <3>1, <2>1, <2>2, PushedFacts
    <3> QED BY <2>1, <2>2, <3>2
  <2>4. /\ r.subs = <<"error">> /\ r.at = ses[w].at /\ r.closed = ses[w].closed /\ r.sender = "open"
        /\ r.started = ses[w].started /\ r.slot = ses[w].slot /\ r.accepted = ses[w].accepted
        /\ r.saving = ses[w].saving
    BY <1>5, <1>7, <2>1 DEF SesRec
  <2>5. ses' = [ses EXCEPT ![w] = r] /\ slots' = [slots EXCEPT ![i] = FreeStream]
    <3>1. OnInitial(FALSE) = "error"
      BY <1>1, OutcomeFacts
    <3>2. (Head(down[i]).body = "started") = FALSE
      BY <1>3, <1>12
    <3>3. ses' = [ses EXCEPT ![w] = Pushed(ses[w], OnInitial(FALSE))]
      BY <1>3, <1>7, <3>2 DEF ReceiveInitial, Resolve
    <3>4. slots' = [slots EXCEPT ![i] = FreeStream]
      BY <1>7, <3>2 DEF ReceiveInitial
    <3> QED BY <2>3, <3>1, <3>3, <3>4
  <2>6. ses'[w] = r /\ slots'[i] = FreeStream /\ up'[i] = up[i] /\ down'[i] = q
    BY <1>7, <1>10, <2>5
  <2>7. Live(w)'
    BY <1>5, <2>4, <2>6 DEF Live
  <2>8. Dull(w)'
    <3>1. \A t : ~AtStep(w, t)'
      BY <2>4, <2>6, <<"error">> # <<>> DEF AtStep
    <3>2. <<"error">> # <<"ok">> /\ \A t \in Questions : <<"error">> # <<t>>
      BY DEF Questions
    <3> QED BY <1>4, <1>6, <2>4, <2>6, <3>1, <3>2 DEF Dull
  <2>9. Justified(w)'
    BY <1>5, <2>4, <2>6 DEF Justified
  <2>10. SessionInv(w)'
    BY <1>3, <1>4, <1>5, <1>6, <2>2, <2>4, <2>6, <2>7, <2>8, <2>9, DueSession
  <2>11. SlotInv(i)'
    <3>1. Refused(i)
      BY <1>2, <1>3, <1>5, <1>12, HasNone DEF Arrived, Phase, Idle, Requested, Closed, Running
    <3>2. q = <<>> /\ up[i] = <<>> /\ back[i] = FreeBack
      BY <1>8, <3>1 DEF Refused
    <3>3. Idle(i)' /\ slots'[i].owner = 0
      BY <1>4, <2>6, <3>2 DEF Idle, FreeStream
    <3>4. SlotState(i)'
      BY <1>3, <1>4, <2>6, <3>3 DEF SlotState, FreeStream
    <3>5. ~Running(i)'
      BY <3>3 DEF Running
    <3> QED BY <1>9, <2>6, <3>3, <3>4, <3>5 DEF SlotInv, Handshake, Phase
  <2> QED BY <1>1, <1>3, <1>4, <1>7, <1>10, <2>3, <2>4, <2>5, <2>10, <2>11, FreeTyped, ReceivedStep
<1> QED BY <1>2, <1>11, <1>12

LEMMA InvReceiveTick ==
  ASSUME IInv, NEW i \in Slots, ReceiveTick(i)
  PROVE  IInv'
<1>1. TypeOK /\ WireOK /\ Quiet
  BY DEF IInv, ReceiveTick, Arrives
<1> DEFINE Ticks == {"hook", "fingerprint", "credential", "connected", "failed"}
<1>2. PICK w \in Sessions, f \in FrameRec : Arrived(i, w, f) /\ f.body \in Ticks
  <2>1. Arrives(i, Ticks)
    BY DEF ReceiveTick
  <2> HIDE DEF Ticks
  <2> QED BY <2>1, ArrivesFacts
<1>3. /\ w = slots[i].owner /\ w # 0 /\ w \in Nat /\ w <= built /\ conn = "up"
      /\ f = Head(down[i]) /\ Has(down[i], f.body)
      /\ ses[w].slot = i /\ ses[w].subs = <<>> /\ ses[w].sender # "none"
  BY <1>2 DEF Arrived
<1>4. UNCHANGED <<setup, conn, dials, spent, got, lock, inputting, built, tabs, ui, back, store, stray>>
  BY DEF ReceiveTick, sockVars, homeVars
<1>5. ~slots[i].initing /\ ~slots[i].shut /\ Accepts(i, f.body)
  BY <1>3 DEF ReceiveTick
<1>6. /\ ses \in [Sessions -> SesRec] /\ slots \in [Slots -> SlotRec] /\ up \in [Slots -> UpSeq]
      /\ down \in [Slots -> Seq(FrameRec)]
      /\ ses[w] \in SesRec /\ slots[i] \in SlotRec /\ up[i] \in UpSeq /\ f.key \in Keys \cup {"none"}
  BY <1>1, Typed DEF FrameRec
<1>7. PICK q \in Seq(FrameRec) : q = Tail(down[i])
  BY <1>2 DEF Arrived
<1>8. /\ Sorted(q) /\ (\A b : Has(q, b) <=> Has(down[i], b) /\ b # f.body)
      /\ (\A b : Has(q, b) => Rank(f.body) < Rank(b))
  BY <1>2, <1>7 DEF Arrived
<1>9. PICK show, answer : show = Shows(w, f) /\ answer = AutoAnswer(w, f)
  OBVIOUS
<1>10. /\ ~slots[i].connected
       /\ f.body \in Questions => ~IsTelnet
       /\ f.body = "hook" => show = "wait" /\ answer = "none"
       /\ f.body = "fingerprint" =>
            \/ show = "wait" /\ answer = "accept" /\ ses[w].known = f.key
            \/ show = "fingerprint" /\ answer = "none"
       /\ f.body = "credential" =>
            \/ show = "wait" /\ answer = "login"
            \/ show = "credential" /\ answer = "none"
       /\ f.body = "connected" => show = "ok" /\ answer = "none"
       /\ f.body = "failed" => show = "error" /\ answer = "none"
  BY <1>1, <1>2, <1>5, <1>9, TickFacts
<1>11. /\ show \in Steps \ {"initial"} /\ show # "none" /\ answer \in {"none", "accept", "login"}
       /\ (show = "ok" <=> f.body = "connected") /\ (show = "error" <=> f.body = "failed")
       /\ (show \in Questions => f.body = show /\ answer = "none")
       /\ (answer = "accept" => f.body = "fingerprint") /\ (answer = "login" => f.body = "credential")
  BY <1>2, <1>10, StepNames DEF Questions
\* Where the command stands.
<1>12. Running(i) \/ Closed(i)
  BY <1>2, <1>3, <1>5 DEF Arrived, Phase, Idle, Requested, Refused
<1>13. answer # "none" => ses[w].sender = "open"
  BY <1>3, <1>9 DEF ReceiveTick, SendAllowed
<1>14. /\ Fresh(i) /\ Cancelled(i) /\ (Running(i) => Told(i) /\ Asked(i) /\ Expected(i))
       /\ SlotState(i) /\ WizardState(w) /\ PromptState(w) /\ SenderState(w) /\ Justified(w)
  BY <1>2 DEF Arrived
<1>15. /\ Live(w) => w = built /\ ui.w = w /\ ~ses[w].closed /\ Going(w) /\ ses[w].started /\ w \notin tabs
       /\ Going(w) => Live(w)
  BY <1>2 DEF Arrived
<1>16. Closed(i) => ses[w].sender = "closed"
  BY <1>3 DEF Closed
\* A question finds a wizard that has not asked it and an empty way back.
<1>17. f.body \in Questions /\ ses[w].sender = "open" => up[i] = <<>>
  <2> SUFFICES ASSUME f.body \in Questions, ses[w].sender = "open" PROVE up[i] = <<>>
    OBVIOUS
  <2>1. Running(i)
    BY <1>12, <1>16
  <2>2. slots[i].shut = FALSE /\ (ses[w].sender = "closed") = FALSE
    BY <1>5, <1>6 DEF SlotRec
  <2>3. Sending(up[i], FALSE, FALSE)
    BY <1>3, <2>1, <2>2 DEF Running
  <2>4. up[i] \in {<<>>, <<"accept">>, <<"reject">>, <<"login">>}
    BY <2>3 DEF Sending
  <2>5. Told(i) /\ Asked(i)
    BY <1>14, <2>1
  <2>6. ~HeadIn(up[i], {"accept", "reject"})
    <3>1. CASE f.body = "fingerprint"
      BY <1>3, <2>5, <3>1 DEF Asked
    <3>2. CASE f.body = "credential"
      BY <1>3, <2>5, <3>2 DEF Asked, Told
    <3> QED BY <3>1, <3>2 DEF Questions
  <2>7. ~HeadIn(up[i], {"login"})
    <3>1. CASE f.body = "fingerprint"
      BY <1>3, <2>5, <3>1 DEF Asked, Told
    <3>2. CASE f.body = "credential"
      BY <1>3, <2>5, <3>2 DEF Asked
    <3> QED BY <3>1, <3>2 DEF Questions
  <2> QED BY <2>4, <2>6, <2>7 DEF HeadIn
\* While a fingerprint is being saved, only a failure can come.
<1>18. ses[w].saving = "pending" /\ ses[w].sender = "open" => f.body = "failed"
  <2> SUFFICES ASSUME ses[w].saving = "pending", ses[w].sender = "open" PROVE f.body = "failed"
    OBVIOUS
  <2>1. Running(i)
    BY <1>12, <1>16
  <2>2. Told(i) /\ Asked(i)
    BY <1>14, <2>1
  <2>3. AskingFp(w)
    BY DEF AskingFp
  <2>4. back[i].fp = "asked" /\ ~Has(down[i], "fingerprint")
    BY <1>3, <2>2, <2>3 DEF Asked
  <2> QED BY <1>2, <1>3, <2>2, <2>4 DEF Told
<1>19. Live(w) /\ ses[w].saving = "pending" => ses[w].sender = "open" /\ ses[w].clicked = "save"
  BY <1>1, SavingFacts
\* The session.
<1> DEFINE k == IF f.body = "fingerprint" THEN f.key ELSE ses[w].key
           a == (ses[w].accepted \/ answer = "accept")
<1>20. k \in Keys \cup {"none"} /\ a \in BOOLEAN
  BY <1>6 DEF SesRec
<1>21. /\ f.body = "fingerprint" => ~ses[w].accepted /\ k = f.key
       /\ f.body # "fingerprint" => a = ses[w].accepted /\ k = ses[w].key
  <2>1. f.body = "fingerprint" => ~ses[w].accepted
    BY <1>3, <1>14 DEF Fresh
  <2>2. ses[w].accepted \in BOOLEAN
    BY <1>6 DEF SesRec
  <2> QED BY <1>11, <2>1, <2>2
<1>22. a => \/ ses[w].known = k
            \/ ses[w].clicked = "continue"
            \/ ses[w].clicked = "save" /\ ses[w].saving = "saved"
  BY <1>10, <1>14, <1>21 DEF Justified
<1>23. PICK s : s = [ses[w] EXCEPT !.key = k, !.accepted = a]
  OBVIOUS
<1>24. ses' = [ses EXCEPT ![w] = Pushed(s, show)]
  BY <1>3, <1>6, <1>9, <1>23 DEF ReceiveTick
<1> HIDE DEF k, a
<1>25. /\ s \in SesRec /\ s.at = ses[w].at /\ s.subs = <<>> /\ s.slot = i /\ s.sender = ses[w].sender
       /\ s.saving = ses[w].saving /\ s.closed = ses[w].closed /\ s.started = ses[w].started
       /\ s.accepted = a /\ s.key = k /\ s.known = ses[w].known /\ s.clicked = ses[w].clicked
  <2>1. ses[w] \in SesRec /\ ses[w].subs = <<>> /\ ses[w].slot = i
    BY <1>3, <1>6
  <2> QED BY <1>20, <1>23, <2>1 DEF SesRec
<1>26. PICK r : r = Pushed(s, show)
  OBVIOUS
<1>27. /\ r \in SesRec /\ r.at = ses[w].at /\ r.slot = i /\ r.sender = ses[w].sender
       /\ r.saving = ses[w].saving /\ r.closed = ses[w].closed /\ r.started = ses[w].started
       /\ r.accepted = a /\ r.key = k /\ r.known = ses[w].known /\ r.clicked = ses[w].clicked
       /\ (Live(w) => r.subs = <<show>>) /\ (~Live(w) => r.subs = <<>>)
  <2>1. show \in Steps \cup {"none"} /\ show # "none"
    BY <1>11
  <2>2. r \in SesRec /\ (s.at # "live" => r = s) /\ (s.at = "live" => r = [s EXCEPT !.subs = <<show>>])
    BY <1>25, <1>26, <2>1, PushedFacts
  <2>3. CASE Live(w)
    <3>1. r = [s EXCEPT !.subs = <<show>>]
      BY <1>25, <2>2, <2>3 DEF Live
    <3>2. /\ r.at = s.at /\ r.slot = s.slot /\ r.sender = s.sender /\ r.saving = s.saving /\ r.closed = s.closed
          /\ r.started = s.started /\ r.accepted = s.accepted /\ r.key = s.key /\ r.known = s.known
          /\ r.clicked = s.clicked /\ r.subs = <<show>>
      BY <1>25, <3>1 DEF SesRec
    <3> QED BY <1>25, <2>2, <2>3, <3>2
  <2>4. CASE ~Live(w)
    BY <1>25, <2>2, <2>4 DEF Live
  <2> QED BY <2>3, <2>4
\* The stream and the way back.
<1> DEFINE c == (f.body = "connected")
<1>28. PICK x : x = [slots[i] EXCEPT !.connected = c]
  OBVIOUS
<1>29. x \in SlotRec /\ x.owner = w /\ ~x.initing /\ ~x.shut /\ x.shut = slots[i].shut /\ x.connected = c
  <2>1. c \in BOOLEAN
    OBVIOUS
  <2> HIDE DEF c
  <2> QED BY <1>3, <1>5, <1>6, <1>28, <2>1 DEF SlotRec
<1>30. slots' = [slots EXCEPT ![i] = x]
  <2>1. slots' = [slots EXCEPT ![i].connected = slots[i].connected \/ c]
    BY <1>3, <1>6 DEF ReceiveTick
  <2>2. (slots[i].connected \/ c) = c
    BY <1>10
  <2> HIDE DEF c
  <2> QED BY <1>6, <1>28, <2>1, <2>2
<1>31. PICK y \in UpSeq : /\ up' = [up EXCEPT ![i] = y]
                          /\ y = IF answer = "none" THEN up[i] ELSE <<answer>>
                          /\ answer # "none" => up[i] = <<>>
  <2>1. CASE answer = "none"
    <3>1. up' = up
      BY <1>3, <1>9, <2>1 DEF ReceiveTick
    <3> QED BY <1>6, <2>1, <3>1
  <2>2. CASE answer # "none"
    <3>1. Put(ses[w], answer)
      BY <1>3, <1>9, <2>2 DEF ReceiveTick
    <3>2. up' = [up EXCEPT ![i] = Append(up[i], answer)]
      BY <1>3, <3>1 DEF Put
    <3>3. up[i] = <<>>
      BY <1>11, <1>13, <1>17, <2>2 DEF Questions
    <3>4. Append(<<>>, answer) = <<answer>> /\ <<answer>> \in UpSeq
      BY <1>11, <2>2 DEF UpSeq
    <3> QED BY <2>2, <3>2, <3>3, <3>4
  <2> QED BY <2>1, <2>2
<1>32. ses' = [ses EXCEPT ![w] = r] /\ down' = [down EXCEPT ![i] = q]
  BY <1>7, <1>24, <1>26 DEF ReceiveTick, Arrives
<1>33. ses'[w] = r /\ slots'[i] = x /\ up'[i] = y /\ down'[i] = q
  BY <1>6, <1>30, <1>31, <1>32
<1>34. (Live(w)' <=> Live(w)) /\ Owns(w)' /\ (Going(w)' <=> Going(w) /\ show # "error") /\ (IsTelnet' <=> IsTelnet)
       /\ (\A t : <<show>> = <<t>> <=> t = show) /\ (\A t : <<>> # <<t>>)
  <2>1. (\A t : <<show>> = <<t>> <=> t = show) /\ (\A t : <<>> # <<t>>)
    OBVIOUS
  <2>2. Live(w)' <=> Live(w)
    BY <1>27, <1>33 DEF Live
  <2>3. Owns(w)'
    BY <1>27, <1>29, <1>33 DEF Owns
  <2>4. Going(w)' <=> Going(w) /\ show # "error"
    BY <1>15, <1>27, <1>33, <2>1, <2>2 DEF Going
  <2> QED BY <1>4, <2>1, <2>2, <2>3, <2>4 DEF IsTelnet
<1>35. Justified(w)'
  BY <1>22, <1>27, <1>33 DEF Justified
<1>36. \* A question reaches a wizard that can answer it.
       Live(w) /\ show \in Questions => ses[w].sender = "open" /\ ~IsTelnet
  <2> SUFFICES ASSUME Live(w), show \in Questions PROVE ses[w].sender = "open" /\ ~IsTelnet
    OBVIOUS
  <2>1. f.body \in Questions
    BY <1>11
  <2>2. ses[w].sender # "closed"
    BY <1>3, <1>14, <1>15, <2>1 DEF Cancelled, Questions
  <2> QED BY <1>3, <1>6, <1>10, <2>1, <2>2 DEF SesRec
<1>37. SessionInv(w)' /\ \A t : ~AtStep(w, t)'
  <2>1. CASE Live(w)
    <3>1. w = built' /\ built' \in Nat /\ ui'.w = w /\ ~ses'[w].closed /\ ses'[w].started /\ w \notin tabs'
      BY <1>3, <1>4, <1>15, <1>27, <1>33, <2>1
    <3>2. show \in Questions => ses'[w].sender = "open" /\ ~IsTelnet'
      BY <1>27, <1>33, <1>34, <1>36, <2>1
    <3>3. ses'[w].saving = "pending" => ses'[w].clicked = "save" /\ show = "error"
      BY <1>11, <1>18, <1>19, <1>27, <1>33, <2>1
    <3>4. ses'[w].subs = <<show>> /\ ses'[w].sender # "none" /\ Live(w)' /\ Owns(w)'
      BY <1>3, <1>27, <1>33, <1>34, <2>1
    <3>5. show \in Steps \ {"initial"} /\ w \in Nat
      BY <1>3, <1>11
    <3> QED BY <1>35, <3>1, <3>2, <3>3, <3>4, <3>5, DueSession
  <2>2. CASE ~Live(w)
    <3>1. \A t : ~AtStep(w, t)'
      BY <1>34, <2>2 DEF AtStep
    <3>2. ses[w].saving = "pending" => ses[w].clicked = "save"
      BY <1>14 DEF SenderState
    <3>3. w <= built' /\ built' \in Nat /\ w \in Nat
      BY <1>1, <1>3, <1>4, Typed, Numbers
    <3> QED BY <1>3, <1>27, <1>33, <1>34, <1>35, <2>2, <3>1, <3>2, <3>3, OverSession
  <2> QED BY <2>1, <2>2
\* The slot.
<1>38. SlotState(i)'
  <2>1. c => w \in tabs \/ ses[w].sender = "closed" \/ Live(w)
    <3>1. CASE Running(i)
      <4>1. c => Going(w) \/ ses[w].sender = "closed" \/ slots[i].connected
        BY <1>3, <1>14, <3>1 DEF Expected
      <4> QED BY <1>10, <1>15, <4>1
    <3>2. CASE Closed(i)
      BY <1>16, <3>2
    <3> QED BY <1>12, <3>1, <3>2
  <2>2. c => show = "ok"
    BY <1>11
  <2>3. ~c => show # "ok"
    BY <1>11
  <2>4. w \notin tabs
    BY <1>3, <1>10, <1>14 DEF SlotState
  <2>5. c => /\ ses'[w].sender = "closed" \/ (ui'.w = w /\ ses'[w].subs = <<"ok">>)
             /\ ~Live(w)' \/ ses'[w].subs = <<"ok">>
    BY <1>4, <1>15, <1>27, <1>33, <1>34, <2>1, <2>2, <2>4
  <2>6. ~c => w \notin tabs' /\ ses'[w].subs # <<"ok">>
    BY <1>4, <1>27, <1>33, <1>34, <2>3, <2>4
  <2>7. ses'[w].slot = i /\ ses'[w].sender # "none" /\ w <= built' /\ conn' = "up"
    BY <1>3, <1>4, <1>27, <1>33
  <2> HIDE DEF c
  <2> QED BY <1>3, <1>29, <1>33, <2>5, <2>6, <2>7 DEF SlotState
<1>39. Fresh(i)' /\ Cancelled(i)'
  <2>1. Has(q, "fingerprint") => ~ses'[w].accepted
    BY <1>8, <1>14, <1>3, <1>21, <1>27, <1>33 DEF Fresh
  <2>2. Going(w)' /\ ses'[w].sender = "closed" =>
          ~IsTelnet' /\ ~Has(q, "fingerprint") /\ ~Has(q, "credential")
    BY <1>3, <1>8, <1>14, <1>27, <1>33, <1>34 DEF Cancelled
  <2> QED BY <1>29, <1>33, <2>1, <2>2 DEF Fresh, Cancelled
<1>40. CASE Closed(i)
  <2>1. answer = "none"
    BY <1>13, <1>16, <1>40
  <2>2. y = up[i]
    BY <1>31, <2>1
  <2>3. \A b \in {"completed", "started", "refused", "close"} : Has(q, b) <=> Has(down[i], b)
    BY <1>2, <1>8
  <2>4. Closed(i)'
    BY <1>3, <1>4, <1>27, <1>29, <1>33, <1>40, <2>2, <2>3 DEF Closed
  <2>5. ~Running(i)'
    BY <1>4, <1>5, <1>40 DEF Running, Closed
  <2>6. SlotInv(i)'
    BY <1>8, <1>33, <1>38, <1>39, <2>4, <2>5 DEF SlotInv, Handshake, Phase
  <2> QED BY <1>1, <1>3, <1>4, <1>27, <1>29, <1>30, <1>31, <1>32, <1>37, <2>6, ReceivedStep
<1>41. CASE Running(i)
  <2>1. Told(i) /\ Asked(i) /\ Expected(i)
    BY <1>14, <1>41
  <2>2. \A b \in {"completed", "started", "refused", "close"} : Has(q, b) <=> Has(down[i], b)
    BY <1>2, <1>8
  <2>3. \A b : Has(q, b) => Has(down[i], b)
    BY <1>8
  <2>4. ~Has(q, "hook") /\ (f.body \in {"connected", "failed"} => ~Has(q, "connected"))
    <3>1. Rank(f.body) \in {2, 3, 4, 5} /\ Rank("hook") = 2 /\ Rank("connected") = 5
      BY <1>2, Ranks
    <3>2. f.body \in {"connected", "failed"} => Rank(f.body) = 5
      BY Ranks
    <3>3. ~(Rank(f.body) < 2) /\ ~(5 < 5)
      BY <3>1
    <3> QED BY <1>8, <3>1, <3>2, <3>3
  <2>5. Running(i)'
    <3>1. Sending(up[i], ses[w].sender = "closed", slots[i].shut)
      BY <1>3, <1>41 DEF Running
    <3>2. Sending(y, r.sender = "closed", x.shut)
      <4>1. CASE answer = "none"
        BY <1>27, <1>29, <1>31, <3>1, <4>1
      <4>2. CASE answer # "none"
        <5>1. ses[w].sender = "open" /\ y = <<answer>> /\ ~x.shut
          BY <1>13, <1>29, <1>31, <4>2
        <5> QED BY <1>11, <1>27, <4>2, <5>1 DEF Sending
      <4> QED BY <4>1, <4>2
    <3> QED BY <1>3, <1>4, <1>5, <1>29, <1>33, <1>41, <2>2, <3>2 DEF Running
  <2>6. Told(i)'
    BY <1>3, <1>4, <1>10, <1>29, <1>33, <1>34, <2>1, <2>3, <2>4, <1>8 DEF Told
  <2>7. Asked(i)'
    <3>1. Has(q, "fingerprint") \/ back[i].fp = "unasked" => ~ses'[w].accepted
      BY <1>3, <1>8, <1>11, <1>21, <1>27, <1>33, <2>1 DEF Asked, Told
    <3>2. HeadIn(y, {"accept", "reject"}) => back[i].fp = "asked" /\ ~Has(q, "fingerprint")
      <4>1. CASE answer = "none"
        BY <1>31, <2>1, <2>3, <4>1 DEF Asked
      <4>2. CASE answer # "none"
        <5>1. Head(<<answer>>) = answer /\ y = <<answer>>
          BY <1>31, <4>2
        <5> QED BY <1>3, <1>8, <1>11, <2>1, <4>2, <5>1 DEF HeadIn, Told
      <4> QED BY <4>1, <4>2
    <3>3. HeadIn(y, {"login"}) => back[i].cred = "asked" /\ ~Has(q, "credential")
      <4>1. CASE answer = "none"
        BY <1>31, <2>1, <2>3, <4>1 DEF Asked
      <4>2. CASE answer # "none"
        <5>1. Head(<<answer>>) = answer /\ y = <<answer>>
          BY <1>31, <4>2
        <5> QED BY <1>3, <1>8, <1>11, <2>1, <4>2, <5>1 DEF HeadIn, Told
      <4> QED BY <4>1, <4>2
    <3>4. AskingFp(w)' /\ ses'[w].sender = "open" =>
            back[i].fp = "asked" /\ ~ses'[w].accepted /\ ~Has(q, "fingerprint") /\ y = <<>>
      <4> SUFFICES ASSUME AskingFp(w)', ses'[w].sender = "open"
                   PROVE  back[i].fp = "asked" /\ ~ses'[w].accepted /\ ~Has(q, "fingerprint") /\ y = <<>>
        OBVIOUS
      <4>1. ses[w].sender = "open" /\ (show = "fingerprint" \/ ses[w].saving = "pending")
        BY <1>27, <1>33, <1>34, <1>37 DEF AskingFp
      <4>2. CASE show = "fingerprint"
        <5>1. f.body = "fingerprint" /\ answer = "none"
          BY <1>11, <4>2 DEF Questions
        <5>2. ~a
          BY <1>21, <5>1 DEF a
        <5> QED BY <1>3, <1>8, <1>17, <1>27, <1>31, <1>33, <2>1, <4>1, <5>1, <5>2 DEF Told, Questions
      <4>3. CASE ses[w].saving = "pending"
        <5>1. f.body = "failed"
          BY <1>18, <4>1, <4>3
        <5>2. AskingFp(w)
          BY <4>3 DEF AskingFp
        <5>3. back[i].fp = "asked" /\ ~ses[w].accepted /\ ~Has(down[i], "fingerprint") /\ up[i] = <<>>
          BY <1>3, <2>1, <4>1, <5>2 DEF Asked
        <5> QED BY <1>10, <1>21, <1>27, <1>31, <1>33, <2>3, <5>1, <5>3
      <4> QED BY <4>1, <4>2, <4>3
    <3>5. AskingCred(w)' /\ ses'[w].sender = "open" =>
            back[i].cred = "asked" /\ ~Has(q, "credential") /\ y = <<>>
      <4> SUFFICES ASSUME AskingCred(w)', ses'[w].sender = "open"
                   PROVE  back[i].cred = "asked" /\ ~Has(q, "credential") /\ y = <<>>
        OBVIOUS
      <4>1. ses[w].sender = "open" /\ show = "credential"
        BY <1>27, <1>33, <1>34, <1>37 DEF AskingCred
      <4>2. f.body = "credential" /\ answer = "none"
        BY <1>11, <4>1 DEF Questions
      <4> QED BY <1>3, <1>8, <1>17, <1>31, <2>1, <4>1, <4>2 DEF Told, Questions
    <3>6. Going(w)' /\ ses'[w].sender = "closed" => back[i].fp # "unasked" /\ back[i].cred # "unasked"
      BY <1>3, <1>27, <1>33, <1>34, <2>1 DEF Asked
    <3> QED BY <1>4, <1>29, <1>33, <3>1, <3>2, <3>3, <3>4, <3>5, <3>6 DEF Asked
  <2>8. Expected(i)'
    <3>1. back[i].at \in {"dialing", "connected"} \/ Has(q, "connected") =>
            Going(w)' \/ ses'[w].sender = "closed" \/ c
      <4>1. back[i].at \in {"dialing", "connected"} \/ Has(q, "connected") =>
              Going(w) \/ ses[w].sender = "closed"
        BY <1>3, <1>10, <2>1, <2>3 DEF Expected
      <4>2. show = "error" => ~(back[i].at \in {"dialing", "connected"} \/ Has(q, "connected"))
        BY <1>3, <1>11, <2>1, <2>4 DEF Told
      <4> QED BY <1>27, <1>33, <1>34, <4>1, <4>2
    <3>2. Has(q, "close") /\ Going(w)' /\ ses'[w].sender = "open" /\ ~c =>
            Has(q, "failed") \/ Has(q, "connected")
      BY <1>3, <1>8, <1>10, <1>11, <1>27, <1>33, <1>34, <2>1, <2>3 DEF Expected
    <3> QED BY <1>4, <1>29, <1>33, <3>1, <3>2 DEF Expected
  <2>9. SlotInv(i)'
    BY <1>8, <1>33, <1>38, <1>39, <2>5, <2>6, <2>7, <2>8 DEF SlotInv, Handshake, Phase
  <2> QED BY <1>1, <1>3, <1>4, <1>27, <1>29, <1>30, <1>31, <1>32, <1>37, <2>9, ReceivedStep
<1> QED BY <1>12, <1>40, <1>41

LEMMA InvReceiveClose ==
  ASSUME IInv, NEW i \in Slots, ReceiveClose(i)
  PROVE  IInv'
<1>1. TypeOK /\ WireOK /\ Quiet
  BY DEF IInv, ReceiveClose, Arrives
<1>2. PICK w \in Sessions, f \in FrameRec : Arrived(i, w, f) /\ f.body \in {"close"}
  <2>1. Arrives(i, {"close"})
    BY DEF ReceiveClose
  <2> QED BY <2>1, ArrivesFacts
<1>3. /\ w = slots[i].owner /\ w # 0 /\ w \in Nat /\ w <= built /\ conn = "up"
      /\ f = Head(down[i]) /\ f.body = "close" /\ Has(down[i], "close")
      /\ ses[w].slot = i /\ ses[w].subs = <<>> /\ ses[w].sender # "none"
  BY <1>2 DEF Arrived
<1>4. UNCHANGED <<setup, conn, dials, spent, got, lock, inputting, built, tabs, ui, back, store, stray>>
  BY DEF ReceiveClose, sockVars, homeVars
<1>5. /\ ses \in [Sessions -> SesRec] /\ slots \in [Slots -> SlotRec] /\ up \in [Slots -> UpSeq]
      /\ down \in [Slots -> Seq(FrameRec)]
      /\ ses[w] \in SesRec /\ slots[i] \in SlotRec /\ up[i] \in UpSeq
  BY <1>1, Typed
<1>6. PICK q \in Seq(FrameRec) : q = Tail(down[i])
  BY <1>2 DEF Arrived
<1>7. /\ Sorted(q) /\ (\A b : Has(q, b) <=> Has(down[i], b) /\ b # "close")
      /\ (\A b : Has(q, b) => Rank("close") < Rank(b))
  BY <1>2, <1>3, <1>6 DEF Arrived
<1>8. \A b \in Bodies \ {"completed"} : ~Has(q, b)
  <2>1. \A b \in Bodies \ {"completed"} : ~(Rank("close") < Rank(b))
    BY Ranks DEF Bodies
  <2> QED BY <1>7, <2>1
<1>9. \A b \in Bodies \ {"completed", "close"} : ~Has(down[i], b)
  BY <1>7, <1>8
<1>10. ~slots[i].shut /\ slots[i].shut = FALSE
  BY <1>5 DEF ReceiveClose, SlotRec
<1>11. ~slots[i].initing
  <2>1. ~Requested(i) /\ ~Idle(i)
    BY <1>3, HasNone DEF Requested, Idle
  <2>2. Refused(i) => Head(down[i]) = Frame("refused")
    BY DEF Refused
  <2>3. ~Refused(i)
    BY <1>3, <2>2, FrameTyped DEF Frame
  <2>4. ~Has(down[i], "started")
    BY <1>9 DEF Bodies
  <2> QED BY <1>2, <2>1, <2>3, <2>4 DEF Arrived, Phase, Running, Closed
<1>12. Running(i) \/ Closed(i)
  BY <1>2, <1>3, <1>11 DEF Arrived, Phase, Idle, Requested, Refused
<1>13. /\ Fresh(i) /\ Cancelled(i) /\ (Running(i) => Told(i) /\ Asked(i) /\ Expected(i))
       /\ SlotState(i) /\ SessionInv(w)
       /\ Live(w) => Going(w)
       /\ Going(w) => Live(w)
  BY <1>2 DEF Arrived, SessionInv
\* The end comes after the outcome.
<1>14. Live(w) => ses[w].sender = "closed"
  <2> SUFFICES ASSUME Live(w), ses[w].sender # "closed" PROVE FALSE
    OBVIOUS
  <2>1. Running(i) /\ ses[w].sender = "open"
    BY <1>3, <1>5, <1>12 DEF Closed, SesRec
  <2>2. ~slots[i].connected
    BY <1>3, <1>13, <<>> # <<"ok">> DEF SlotState
  <2>3. ~Has(down[i], "failed") /\ ~Has(down[i], "connected")
    BY <1>9 DEF Bodies
  <2> QED BY <1>3, <1>13, <2>1, <2>2, <2>3 DEF Expected
<1>15. PICK r : r = [ses[w] EXCEPT !.sender = "closed"]
  OBVIOUS
<1>16. /\ r \in SesRec /\ r.at = ses[w].at /\ r.subs = <<>> /\ r.slot = i /\ r.sender = "closed"
       /\ r.saving = ses[w].saving /\ r.closed = ses[w].closed /\ r.started = ses[w].started
       /\ r.accepted = ses[w].accepted /\ r.known = ses[w].known /\ r.key = ses[w].key /\ r.clicked = ses[w].clicked
       /\ (ses[w].sender = "closed" => r = ses[w])
  <2>1. ses[w] \in SesRec /\ ses[w].subs = <<>> /\ ses[w].slot = i
    BY <1>3, <1>5
  <2> QED BY <1>15, <2>1 DEF SesRec
<1>17. PICK x : x = [slots[i] EXCEPT !.shut = TRUE]
  OBVIOUS
<1>18. x \in SlotRec /\ x.owner = w /\ ~x.initing /\ x.shut = TRUE /\ x.connected = slots[i].connected
  BY <1>3, <1>5, <1>11, <1>17 DEF SlotRec
<1>19. PICK reply : reply = IF ses[w].sender = "open" THEN <<"close", "completed">> ELSE <<"completed">>
  OBVIOUS
<1>20. PICK y : y = up[i] \o reply
  OBVIOUS
<1>21. y \in UpSeq
  <2>1. reply \in UpSeq
    <3>1. <<"close", "completed">> \in UpSeq /\ <<"completed">> \in UpSeq
      BY DEF UpSeq
    <3>2. CASE ses[w].sender = "open"
      BY <1>19, <3>1, <3>2
    <3>3. CASE ses[w].sender # "open"
      BY <1>19, <3>1, <3>3
    <3> QED BY <3>2, <3>3
  <2> QED BY <1>5, <1>20, <2>1 DEF UpSeq
<1>22. /\ ses' = [ses EXCEPT ![w] = r] /\ slots' = [slots EXCEPT ![i] = x]
       /\ up' = [up EXCEPT ![i] = y] /\ down' = [down EXCEPT ![i] = q]
  <2>1. ses' = [ses EXCEPT ![w].sender = "closed"] /\ slots' = [slots EXCEPT ![i].shut = TRUE]
    BY <1>3 DEF ReceiveClose
  <2>2. up' = [up EXCEPT ![i] = up[i] \o reply]
    BY <1>3, <1>19 DEF ReceiveClose
  <2>3. down' = [down EXCEPT ![i] = Tail(down[i])]
    BY DEF ReceiveClose, Arrives
  <2> QED BY <1>5, <1>6, <1>15, <1>17, <1>20, <2>1, <2>2, <2>3
<1>23. ses'[w] = r /\ slots'[i] = x /\ up'[i] = y /\ down'[i] = q
  BY <1>5, <1>22
<1>24. (Live(w)' <=> Live(w)) /\ Owns(w)' /\ (Going(w)' <=> Going(w)) /\ (IsTelnet' <=> IsTelnet)
       /\ \A t : AtStep(w, t)' <=> AtStep(w, t)
  <2>1. Live(w)' <=> Live(w)
    BY <1>16, <1>23 DEF Live
  <2>2. \A t : AtStep(w, t)' <=> AtStep(w, t)
    BY <1>3, <1>4, <1>16, <1>23, <2>1 DEF AtStep
  <2>3. Owns(w)'
    BY <1>16, <1>18, <1>23 DEF Owns
  <2>4. Going(w)' <=> Going(w)
    BY <1>3, <1>16, <1>23, <2>1 DEF Going
  <2> QED BY <1>4, <2>1, <2>2, <2>3, <2>4 DEF IsTelnet
<1>25. SessionInv(w)'
  <2>1. CASE Live(w)
    <3>1. ses'[w] = ses[w] /\ Owns(w)' /\ built' \in Nat /\ built' >= built
      BY <1>1, <1>4, <1>14, <1>16, <1>23, <1>24, <2>1, Typed, Numbers
    <3> QED BY <1>1, <1>4, <1>13, <3>1, SessionKept
  <2>2. CASE ~Live(w)
    <3>1. Justified(w)'
      BY <1>13, <1>16, <1>23 DEF SessionInv, Justified
    <3>2. ses[w].saving = "pending" => ses[w].clicked = "save"
      BY <1>13 DEF SessionInv, SenderState
    <3>3. w <= built' /\ built' \in Nat
      BY <1>1, <1>3, <1>4, Typed, Numbers
    <3> QED BY <1>3, <1>16, <1>23, <1>24, <2>2, <3>1, <3>2, <3>3, OverSession
  <2> QED BY <2>1, <2>2
<1>26. SlotState(i)'
  <2>1. slots[i].connected => ~Live(w)'
    BY <1>3, <1>13, <1>24, <<>> # <<"ok">> DEF SlotState
  <2>2. ~slots[i].connected => w \notin tabs'
    BY <1>3, <1>4, <1>13 DEF SlotState
  <2> QED BY <1>3, <1>4, <1>16, <1>18, <1>23, <2>1, <2>2, <<>> # <<"ok">> DEF SlotState
<1>27. Fresh(i)' /\ Cancelled(i)'
  <2>1. ~Has(q, "fingerprint") /\ ~Has(q, "credential")
    BY <1>8 DEF Bodies
  <2>2. Going(w)' => ~IsTelnet'
    BY <1>3, <1>13, <1>14, <1>24 DEF Cancelled
  <2> QED BY <1>18, <1>23, <2>1, <2>2 DEF Fresh, Cancelled
<1>28. CASE Closed(i)
  <2>1. reply = <<"completed">> /\ up[i] = <<>>
    BY <1>3, <1>10, <1>19, <1>28 DEF Closed
  <2>2. y = <<"completed">>
    BY <1>20, <2>1
  <2>3. Has(q, "completed") /\ ~Has(q, "started") /\ ~Has(q, "refused") /\ ~Has(q, "close")
    BY <1>7, <1>8, <1>28 DEF Closed, Bodies
  <2>4. back[i].at = "closed"
    BY <1>10, <1>28 DEF Closed
  <2>5. Closed(i)'
    BY <1>3, <1>4, <1>16, <1>18, <1>23, <2>2, <2>3, <2>4 DEF Closed
  <2>6. ~Running(i)'
    BY <1>4, <2>4 DEF Running
  <2>7. SlotInv(i)'
    BY <1>7, <1>23, <1>26, <1>27, <2>5, <2>6 DEF SlotInv, Handshake, Phase
  <2> QED BY <1>1, <1>3, <1>4, <1>16, <1>18, <1>21, <1>22, <1>25, <2>7, ReceivedStep
<1>29. CASE Running(i)
  <2>1. Told(i) /\ Asked(i) /\ Expected(i)
    BY <1>13, <1>29
  <2>2. q = <<>>
    <3>1. ~Has(q, "completed")
      BY <1>7, <1>29 DEF Running
    <3> QED BY <1>8, <3>1, NothingLeft
  <2>3. \A b : ~Has(q, b)
    BY <2>2, HasNone
  <2>4. back[i].at = "ended"
    BY <1>3, <1>29 DEF Running
  <2>5. /\ Sending(y, TRUE, TRUE)
        /\ HeadIn(y, {"accept", "reject"}) => HeadIn(up[i], {"accept", "reject"})
        /\ HeadIn(y, {"login"}) => HeadIn(up[i], {"login"})
    <3>1. Sending(up[i], ses[w].sender = "closed", FALSE)
      BY <1>3, <1>10, <1>29 DEF Running
    <3>2. CASE ses[w].sender = "open"
      <4>1. (ses[w].sender = "closed") = FALSE
        BY <3>2
      <4>2. Sending(up[i], FALSE, FALSE) /\ y = up[i] \o <<"close", "completed">>
        BY <1>19, <1>20, <3>1, <3>2, <4>1
      <4> QED BY <4>2, SendClose DEF HeadIn
    <3>3. CASE ses[w].sender # "open"
      <4>1. (ses[w].sender = "closed") = TRUE
        BY <1>3, <1>5, <3>3 DEF SesRec
      <4>2. Sending(up[i], TRUE, FALSE) /\ y = up[i] \o <<"completed">>
        BY <1>19, <1>20, <3>1, <3>3, <4>1
      <4> QED BY <4>2, SendCompleted DEF HeadIn
    <3> QED BY <3>2, <3>3
  <2>6. Running(i)'
    <3>1. (r.sender = "closed") = TRUE
      BY <1>16
    <3> QED BY <1>3, <1>4, <1>16, <1>18, <1>23, <2>2, <2>3, <2>4, <2>5, <3>1 DEF Running
  <2>7. Told(i)'
    BY <1>4, <1>18, <1>23, <1>24, <2>1, <2>3, <2>4 DEF Told
  <2>8. Asked(i)'
    <3>1. Going(w)' => back[i].fp # "unasked" /\ back[i].cred # "unasked"
      BY <1>3, <1>13, <1>14, <1>24, <2>1 DEF Asked
    <3>2. back[i].fp = "unasked" => ~ses'[w].accepted
      BY <1>3, <1>16, <1>23, <2>1 DEF Asked
    <3> QED BY <1>3, <1>4, <1>16, <1>18, <1>23, <2>1, <2>3, <2>5, <3>1, <3>2 DEF Asked
  <2>9. Expected(i)'
    BY <1>16, <1>18, <1>23 DEF Expected
  <2>10. SlotInv(i)'
    BY <1>7, <1>23, <1>26, <1>27, <2>6, <2>7, <2>8, <2>9 DEF SlotInv, Handshake, Phase
  <2> QED BY <1>1, <1>3, <1>4, <1>16, <1>18, <1>21, <1>22, <1>25, <2>10, ReceivedStep
<1> QED BY <1>12, <1>28, <1>29

LEMMA InvReceiveCompleted ==
  ASSUME IInv, NEW i \in Slots, ReceiveCompleted(i)
  PROVE  IInv'
<1>1. TypeOK /\ WireOK /\ Quiet
  BY DEF IInv, ReceiveCompleted, Arrives
<1>2. PICK w \in Sessions, f \in FrameRec : Arrived(i, w, f) /\ f.body \in {"completed"}
  <2>1. Arrives(i, {"completed"})
    BY DEF ReceiveCompleted
  <2> QED BY <2>1, ArrivesFacts
<1>3. /\ w = slots[i].owner /\ w # 0 /\ w \in Nat /\ w <= built /\ conn = "up"
      /\ f = Head(down[i]) /\ f.body = "completed" /\ Has(down[i], "completed")
      /\ ses[w].slot = i /\ ses[w].subs = <<>> /\ ses[w].sender # "none"
  BY <1>2 DEF Arrived
<1>4. UNCHANGED <<setup, conn, dials, spent, got, lock, inputting, built, tabs, ui, up, back, store, stray>>
  BY DEF ReceiveCompleted, sockVars, homeVars
<1>5. /\ ses \in [Sessions -> SesRec] /\ slots \in [Slots -> SlotRec] /\ up \in [Slots -> UpSeq]
      /\ down \in [Slots -> Seq(FrameRec)]
      /\ ses[w] \in SesRec /\ slots[i] \in SlotRec /\ up[i] \in UpSeq
  BY <1>1, Typed
<1>6. PICK q \in Seq(FrameRec) : q = Tail(down[i])
  BY <1>2 DEF Arrived
<1>7. q = <<>>
  <2>1. \A b \in Bodies : ~(Rank("completed") < Rank(b))
    BY Ranks DEF Bodies
  <2>2. \A b : Has(q, b) => Rank("completed") < Rank(b)
    BY <1>2, <1>3, <1>6 DEF Arrived
  <2> QED BY <2>1, <2>2, NothingLeft
<1>8. slots[i].shut /\ ses[w].sender = "closed"
  BY <1>2, <1>3 DEF ReceiveCompleted, Arrived, SlotState
<1>9. Closed(i)
  <2>1. Refused(i) => Head(down[i]) = Frame("refused")
    BY DEF Refused
  <2>2. ~Refused(i)
    BY <1>3, <2>1, FrameTyped DEF Frame
  <2> QED BY <1>2, <1>3, <2>2, HasNone DEF Arrived, Phase, Idle, Requested, Running
<1>10. /\ Cancelled(i) /\ SlotState(i) /\ SessionInv(w)
       /\ Live(w) => w = built /\ ui.w = w /\ ~ses[w].closed /\ Going(w) /\ ses[w].started /\ w \notin tabs
  BY <1>2 DEF Arrived, SessionInv
<1>11. PICK step : step = OnCompleted(slots[i].connected)
  OBVIOUS
<1>12. step \in {"none", "error"} /\ (Live(w) => step = "error")
  <2>1. slots[i].connected \in BOOLEAN
    BY <1>5 DEF SlotRec
  <2>2. step = IF slots[i].connected \/ IsTelnet THEN "none" ELSE "error"
    BY <1>1, <1>11, <2>1, OutcomeFacts
  <2>3. Live(w) => ~slots[i].connected
    BY <1>3, <1>10, <<>> # <<"ok">> DEF SlotState
  <2>4. Live(w) => ~IsTelnet
    BY <1>3, <1>8, <1>10 DEF Cancelled
  <2> QED BY <2>2, <2>3, <2>4
<1>13. PICK r : r = Pushed(ses[w], step)
  OBVIOUS
<1>14. "error" \in Steps \ {"initial"} /\ "error" \notin Questions /\ "none" # "error"
  BY StepNames DEF Questions
<1>15. /\ r \in SesRec /\ r.at = ses[w].at /\ r.slot = i /\ r.sender = "closed"
       /\ r.saving = ses[w].saving /\ r.closed = ses[w].closed /\ r.started = ses[w].started
       /\ r.accepted = ses[w].accepted /\ r.known = ses[w].known /\ r.key = ses[w].key /\ r.clicked = ses[w].clicked
       /\ (Live(w) => r.subs = <<"error">>) /\ (~Live(w) => r.subs = <<>>)
  <2>1. ses[w] \in SesRec /\ step \in Steps \cup {"none"} /\ ses[w].subs = <<>>
    BY <1>3, <1>5, <1>12, <1>14
  <2>2. /\ r \in SesRec /\ (ses[w].at # "live" => r = ses[w])
        /\ (step # "none" /\ ses[w].at = "live" => r = [ses[w] EXCEPT !.subs = <<step>>])
    BY <1>13, <2>1, PushedFacts
  <2>3. CASE Live(w)
    <3>1. r = [ses[w] EXCEPT !.subs = <<"error">>]
      BY <1>12, <1>14, <2>2, <2>3 DEF Live
    <3>2. /\ r.at = ses[w].at /\ r.slot = ses[w].slot /\ r.sender = ses[w].sender
          /\ r.saving = ses[w].saving /\ r.closed = ses[w].closed /\ r.started = ses[w].started
          /\ r.accepted = ses[w].accepted /\ r.known = ses[w].known /\ r.key = ses[w].key
          /\ r.clicked = ses[w].clicked /\ r.subs = <<"error">>
      BY <2>1, <3>1 DEF SesRec
    <3> QED BY <1>3, <1>8, <2>2, <2>3, <3>2
  <2>4. CASE ~Live(w)
    BY <1>3, <1>8, <2>2, <2>4 DEF Live
  <2> QED BY <2>3, <2>4
<1>16. /\ ses' = [ses EXCEPT ![w] = r] /\ slots' = [slots EXCEPT ![i] = FreeStream]
       /\ up' = [up EXCEPT ![i] = up[i]] /\ down' = [down EXCEPT ![i] = q]
  <2>1. ses' = [ses EXCEPT ![w] = Pushed(ses[w], step)]
    BY <1>3, <1>5, <1>11 DEF ReceiveCompleted, Resolve
  <2>2. slots' = [slots EXCEPT ![i] = FreeStream] /\ down' = [down EXCEPT ![i] = Tail(down[i])]
    BY DEF ReceiveCompleted, Arrives
  <2>3. up' = [up EXCEPT ![i] = up[i]]
    BY <1>4, <1>5
  <2> QED BY <1>6, <1>13, <2>1, <2>2, <2>3
<1>17. ses'[w] = r /\ slots'[i] = FreeStream /\ up'[i] = up[i] /\ down'[i] = q
  BY <1>5, <1>16
<1>18. (Live(w)' <=> Live(w)) /\ Justified(w)'
  BY <1>10, <1>15, <1>17 DEF Live, SessionInv, Justified
<1>19. SessionInv(w)'
  <2>1. CASE Live(w)
    <3>1. w = built' /\ built' \in Nat /\ ui'.w = w /\ ~ses'[w].closed /\ ses'[w].started /\ w \notin tabs'
      BY <1>1, <1>4, <1>3, <1>10, <1>15, <1>17, <2>1, Typed, Numbers
    <3>2. ses[w].saving = "pending" => ses[w].clicked = "save"
      BY <1>10 DEF SessionInv, SenderState
    <3> QED BY <1>3, <1>14, <1>15, <1>17, <1>18, <2>1, <3>1, <3>2, DueSession
  <2>2. CASE ~Live(w)
    <3>1. ses[w].saving = "pending" => ses[w].clicked = "save"
      BY <1>10 DEF SessionInv, SenderState
    <3>2. w <= built' /\ built' \in Nat
      BY <1>1, <1>3, <1>4, Typed, Numbers
    <3> QED BY <1>3, <1>15, <1>17, <1>18, <2>2, <3>1, <3>2, OverSession
  <2> QED BY <2>1, <2>2
<1>20. SlotInv(i)'
  <2>1. /\ \/ up[i] = <<>> /\ back[i] = FreeBack
           \/ up[i] = <<"completed">> /\ back[i].at = "closed"
    BY <1>8, <1>9 DEF Closed
  <2>2. Idle(i)' /\ slots'[i].owner = 0
    BY <1>4, <1>7, <1>17, <2>1 DEF Idle, FreeStream
  <2>3. SlotState(i)'
    BY <1>3, <1>4, <1>17, <2>2 DEF SlotState, FreeStream
  <2>4. ~Running(i)'
    BY <2>2 DEF Running
  <2> QED BY <1>7, <1>17, <2>2, <2>3, <2>4, SortedNone DEF SlotInv, Handshake, Phase
<1> QED BY <1>1, <1>3, <1>4, <1>5, <1>15, <1>16, <1>19, <1>20, FreeTyped, ReceivedStep

----------------------------------------------------------------------------
(* Steps of the backend.                                                    *)

\* What the backend's steps leave alone.
LEMMA Still ==
  ASSUME UNCHANGED <<setup, ses, ui, slots, tabs>>
  PROVE  /\ IsTelnet' <=> IsTelnet
         /\ \A v : (Live(v)' <=> Live(v)) /\ (Going(v)' <=> Going(v)) /\ (Dull(v)' <=> Dull(v))
                   /\ (AskingFp(v)' <=> AskingFp(v)) /\ (AskingCred(v)' <=> AskingCred(v))
BY DEF IsTelnet, Live, Going, Dull, AskingFp, AskingCred, AtStep

LEMMA BackStep ==
  ASSUME IInv, NEW i \in Slots, conn = "up",
         NEW y \in UpSeq, NEW q \in Seq(FrameRec), NEW b \in BackRec,
         up' = [up EXCEPT ![i] = y], down' = [down EXCEPT ![i] = q], back' = [back EXCEPT ![i] = b],
         UNCHANGED unchangedButBackend, stray' = FALSE, Sorted(q), Handshake(i)'
  PROVE  IInv'
<1>1. TypeOK /\ WireOK /\ LockState /\ ComponentState
  BY DEF IInv
<1>2. UNCHANGED <<setup, conn, dials, spent, got, lock, inputting, built, tabs, ses, ui, slots, store>>
  BY DEF unchangedButBackend, sockVars, homeVars
<1>3. /\ up \in [Slots -> UpSeq] /\ down \in [Slots -> Seq(FrameRec)] /\ back \in [Slots -> BackRec]
      /\ built' \in Nat /\ built' >= built
  BY <1>1, <1>2, Typed, Numbers
<1>4. /\ up' \in [Slots -> UpSeq] /\ down' \in [Slots -> Seq(FrameRec)] /\ back' \in [Slots -> BackRec]
      /\ up'[i] = y /\ down'[i] = q /\ back'[i] = b
      /\ \A j \in Slots \ {i} : up'[j] = up[j] /\ down'[j] = down[j] /\ back'[j] = back[j]
  BY <1>3
<1>5. TypeOK' /\ WireOK' /\ NoStrayFrame'
  <2>1. WireOK'
    BY <1>4 DEF WireOK, UpSeq
  <2>2. TypeOK'
    <3>1. back' \in [Slots -> BackRec] /\ stray' \in BOOLEAN
      BY <1>4
    <3>2. TypeOK /\ UNCHANGED <<setup, conn, dials, spent, got, lock, inputting, built, tabs, ses, ui, slots, store>>
      BY <1>1, <1>2
    <3> QED BY <3>1, <3>2 DEF TypeOK, BackRec
  <2> QED BY <2>1, <2>2 DEF NoStrayFrame
<1>6. LockState' /\ ComponentState'
  <2>1. LockState'
    BY <1>1, <1>2 DEF LockState
  <2>2. ComponentState'
    BY <1>1, <1>2 DEF ComponentState, Live
  <2> QED BY <2>1, <2>2
<1>7. ASSUME NEW v \in Sessions PROVE SessionInv(v)'
  <2>1. SessionInv(v) /\ (Owns(v) => Owns(v)')
    BY <1>2 DEF IInv, Owns
  <2> QED BY <1>1, <1>2, <1>3, <2>1, SessionKept
<1>8. ASSUME NEW j \in Slots \ {i} PROVE SlotInv(j)'
  BY <1>2, <1>3, <1>4, <1>8, SlotUntouched
<1>9. SlotInv(i)'
  <2>1. SlotState(i)
    BY DEF IInv, SlotInv
  <2>2. \A v : (Live(v)' <=> Live(v)) /\ (Dull(v)' <=> Dull(v))
    BY <1>2, Still
  <2>3. SlotState(i)'
    BY <1>2, <2>1, <2>2 DEF SlotState
  <2> QED BY <1>4, <2>3 DEF SlotInv
<1> QED BY <1>5, <1>6, <1>7, <1>8, <1>9 DEF IInv

\* What a step of the backend finds.
LEMMA BackFacts ==
  ASSUME IInv, NEW i \in Slots, up[i] # <<>> \/ back[i].at # "free"
  PROVE  /\ conn = "up" /\ ~stray /\ SlotState(i) /\ Sorted(down[i]) /\ Handshake(i)
         /\ up \in [Slots -> UpSeq] /\ down \in [Slots -> Seq(FrameRec)] /\ back \in [Slots -> BackRec]
         /\ up[i] \in UpSeq /\ down[i] \in Seq(FrameRec) /\ back[i] \in BackRec /\ slots[i] \in SlotRec
         /\ slots[i].owner # 0 => slots[i].owner \in Sessions
<1>1. TypeOK /\ WireOK /\ SlotInv(i) /\ ~stray
  BY DEF IInv, NoStrayFrame
<1>2. SlotState(i) /\ Sorted(down[i]) /\ conn = "up"
  BY <1>1 DEF SlotInv, SlotState, FreeBack
<1> QED BY <1>1, <1>2, Typed, OwnerTyped DEF SlotInv

\* Only a running command dials, is connected or has ended.
LEMMA RunsNow ==
  ASSUME IInv, NEW i \in Slots, back[i].at \in {"dialing", "connected", "ended"}
  PROVE  Running(i) /\ Told(i) /\ Asked(i) /\ Expected(i) /\ Fresh(i) /\ Cancelled(i)
<1>1. Handshake(i)
  BY BackFacts
<1>2. Running(i)
  BY <1>1 DEF Handshake, Phase, Idle, Requested, Refused, Closed, FreeBack
<1> QED BY <1>1, <1>2 DEF Handshake, Running

\* The phase a frame of the browser belongs to.
LEMMA ReadPhase ==
  ASSUME IInv, NEW i \in Slots, up[i] # <<>>
  PROVE  /\ Head(up[i]) = "initial" => Requested(i) /\ up[i] = <<"initial">> /\ back[i] = FreeBack
         /\ Head(up[i]) \in {"accept", "reject", "login", "close"} => Running(i)
         /\ Head(up[i]) = "completed" =>
              \/ Idle(i) /\ up[i] = <<"completed">> /\ back[i].at = "closed"
              \/ Requested(i) /\ up[i] = <<"completed", "initial">> /\ back[i].at = "closed"
              \/ Closed(i) /\ slots[i].shut /\ up[i] = <<"completed">> /\ back[i].at = "closed"
<1>1. Handshake(i) /\ slots[i] \in SlotRec
  BY BackFacts
<1>2. CASE Idle(i)
  <2>1. up[i] = <<"completed">> /\ Head(<<"completed">>) = "completed"
    BY <1>2 DEF Idle
  <2> QED BY <1>2, <2>1 DEF Idle, FreeBack
<1>3. CASE Requested(i)
  <2>1. Head(<<"completed", "initial">>) = "completed" /\ Head(<<"initial">>) = "initial"
    OBVIOUS
  <2> QED BY <1>3, <2>1 DEF Requested
<1>4. CASE Refused(i)
  BY <1>4 DEF Refused
<1>5. CASE Running(i)
  <2>1. PICK closed \in BOOLEAN : closed = (ses[slots[i].owner].sender = "closed")
    OBVIOUS
  <2>2. slots[i].shut \in BOOLEAN /\ Sending(up[i], closed, slots[i].shut)
    BY <1>1, <1>5, <2>1 DEF Running, SlotRec
  <2> QED BY <1>5, <2>2, ReadSending
<1>6. CASE Closed(i)
  <2>1. up[i] = <<"completed">> /\ Head(<<"completed">>) = "completed" /\ slots[i].shut /\ back[i].at = "closed"
    BY <1>6 DEF Closed
  <2> QED BY <1>6, <2>1
<1> QED BY <1>1, <1>2, <1>3, <1>4, <1>5, <1>6 DEF Handshake, Phase

LEMMA InvBackBoot ==
  ASSUME IInv, NEW i \in Slots, BackBoot(i)
  PROVE  IInv'
<1>1. up[i] # <<>> /\ Head(up[i]) = "initial" /\ UNCHANGED unchangedButBackend
  BY DEF BackBoot
<1>2. Requested(i) /\ up[i] = <<"initial">> /\ back[i] = FreeBack
  BY <1>1, ReadPhase
<1>3. PICK w \in Sessions : w = slots[i].owner
  BY <1>1, <1>2, BackFacts DEF Requested
<1>4. /\ conn = "up" /\ ~stray /\ SlotState(i) /\ Handshake(i) /\ slots[i].initing /\ down[i] = <<>> /\ w # 0
      /\ up \in [Slots -> UpSeq] /\ down \in [Slots -> Seq(FrameRec)] /\ back \in [Slots -> BackRec]
      /\ slots[i] \in SlotRec
  BY <1>1, <1>2, <1>3, BackFacts DEF Requested
<1>5. /\ Dull(w) /\ ~slots[i].shut /\ slots[i].shut = FALSE /\ ~slots[i].connected
      /\ ses[w].sender = "open" /\ ~ses[w].accepted /\ Going(w)
  BY <1>3, <1>4 DEF SlotState, Handshake, Fresh, SlotRec
<1>6. UNCHANGED <<setup, conn, dials, spent, got, lock, inputting, built, tabs, ses, ui, slots, store>>
  BY <1>1 DEF unchangedButBackend, sockVars, homeVars
<1>7. /\ ~AskingFp(w)' /\ ~AskingCred(w)' /\ Going(w)'
  <2>1. ~AskingFp(w) /\ ~AskingCred(w)
    BY <1>5 DEF Dull, AskingFp, AskingCred, Questions
  <2> QED BY <1>5, <1>6, <2>1, Still
<1>8. back[i].at = "free" /\ up' = [up EXCEPT ![i] = <<>>] /\ stray' = FALSE
  <2>1. Tail(<<"initial">>) = <<>> /\ up' = [up EXCEPT ![i] = Tail(up[i])]
    BY <1>4 DEF BackBoot
  <2>2. back[i].at = "free"
    BY <1>2 DEF FreeBack
  <2> QED BY <1>2, <1>4, <2>1, <2>2 DEF BackBoot
<1>9. <<>> \in UpSeq
  BY DEF UpSeq
<1>10. ASSUME NEW f \in FrameRec, Sends(i, <<f>>)
       PROVE  /\ <<f>> \in Seq(FrameRec) /\ Sorted(<<f>>) /\ (\A b : Has(<<f>>, b) <=> b = f.body)
              /\ down' = [down EXCEPT ![i] = <<f>>]
  <2>1. <<>> \in Seq(FrameRec) /\ <<>> \o <<f>> = <<f>>
    OBVIOUS
  <2>2. Sorted(<<f>>) /\ (\A b : Has(<<f>>, b) <=> b = f.body)
    BY <2>1, HasNone, SortedNone, PutOne
  <2> QED BY <1>4, <1>10, <2>1, <2>2 DEF Sends
<1>11. CASE Sends(i, <<Frame("refused")>>) /\ UNCHANGED back
  <2>1. Frame("refused") \in FrameRec /\ Frame("refused").body = "refused"
    BY FrameTyped DEF Bodies
  <2>2. PICK q \in Seq(FrameRec) : q = <<Frame("refused")>>
    BY <1>10, <1>11, <2>1
  <2>3. Sorted(q) /\ (\A b : Has(q, b) <=> b = "refused") /\ down' = [down EXCEPT ![i] = q]
    BY <1>10, <1>11, <2>1, <2>2
  <2>4. up'[i] = <<>> /\ down'[i] = q /\ back'[i] = FreeBack
    BY <1>2, <1>4, <1>8, <1>11, <2>3
  <2>5. Refused(i)' /\ ~Running(i)'
    BY <1>3, <1>4, <1>6, <2>2, <2>4 DEF Refused, Running, FreeBack
  <2>6. Fresh(i)' /\ Cancelled(i)'
    <3>1. ~Has(q, "fingerprint")
      BY <2>3
    <3> QED BY <1>3, <1>5, <1>6, <1>7, <2>4, <3>1 DEF Fresh, Cancelled
  <2>7. Handshake(i)'
    BY <2>5, <2>6 DEF Handshake, Phase
  <2>8. FreeBack \in BackRec /\ back' = [back EXCEPT ![i] = FreeBack]
    BY <1>2, <1>4, <1>11, FreeTyped
  <2> QED BY <1>1, <1>4, <1>8, <1>9, <2>3, <2>7, <2>8, BackStep
<1>12. CASE Sends(i, <<Frame("started")>>) /\ back' = [back EXCEPT ![i] = [FreeBack EXCEPT !.at = "dialing"]]
  <2>1. Frame("started") \in FrameRec /\ Frame("started").body = "started"
    BY FrameTyped DEF Bodies
  <2>2. PICK q \in Seq(FrameRec) : q = <<Frame("started")>>
    BY <1>10, <1>12, <2>1
  <2>3. Sorted(q) /\ (\A b : Has(q, b) <=> b = "started") /\ down' = [down EXCEPT ![i] = q]
    BY <1>10, <1>12, <2>1, <2>2
  <2>4. PICK b : b = [FreeBack EXCEPT !.at = "dialing"]
    OBVIOUS
  <2>5. b \in BackRec /\ b.at = "dialing" /\ b.fp = "unasked" /\ b.cred = "unasked" /\ ~b.hooked
    BY <2>4 DEF FreeBack, BackRec
  <2>6. up'[i] = <<>> /\ down'[i] = q /\ back'[i] = b
    BY <1>4, <1>8, <1>12, <2>3, <2>4
  <2>7. Has(q, "started") /\ \A x \in Bodies \ {"started"} : ~Has(q, x)
    BY <2>3
  <2>8. ~Has(q, "refused") /\ ~Has(q, "hook") /\ ~Has(q, "fingerprint") /\ ~Has(q, "credential")
        /\ ~Has(q, "connected") /\ ~Has(q, "failed") /\ ~Has(q, "close") /\ ~Has(q, "completed")
    BY <2>7 DEF Bodies
  <2>9. Running(i)'
    <3>1. (ses[w].sender = "closed") = FALSE /\ Sending(<<>>, FALSE, FALSE)
      BY <1>5, SendAnswer
    <3> QED BY <1>3, <1>4, <1>5, <1>6, <2>5, <2>6, <2>7, <2>8, <3>1 DEF Running
  <2>10. Fresh(i)' /\ Cancelled(i)'
    BY <1>3, <1>5, <1>6, <1>7, <2>6, <2>8 DEF Fresh, Cancelled
  <2>11. Told(i)'
    BY <1>5, <1>6, <2>5, <2>6, <2>8 DEF Told
  <2>12. Asked(i)'
    BY <1>3, <1>5, <1>6, <1>7, <2>5, <2>6, <2>8 DEF Asked, HeadIn
  <2>13. Expected(i)'
    BY <1>3, <1>6, <1>7, <2>6, <2>8 DEF Expected
  <2>14. Handshake(i)'
    BY <2>9, <2>10, <2>11, <2>12, <2>13 DEF Handshake, Phase
  <2>15. back' = [back EXCEPT ![i] = b]
    BY <1>12, <2>4
  <2> QED BY <1>1, <1>4, <1>8, <1>9, <2>3, <2>5, <2>14, <2>15, BackStep
<1> QED BY <1>8, <1>11, <1>12 DEF BackBoot

\* A running slot as its backend's next step finds it.
Ready(i, w, b, q, u) ==
  /\ w \in Sessions /\ w = slots[i].owner /\ w # 0 /\ b = back[i] /\ q = down[i] /\ u = up[i]
  /\ b \in BackRec /\ q \in Seq(FrameRec) /\ u \in UpSeq /\ slots[i] \in SlotRec
  /\ conn = "up" /\ Sorted(q) /\ SlotState(i)
  /\ Running(i) /\ Told(i) /\ Asked(i) /\ Expected(i) /\ Fresh(i) /\ Cancelled(i)

LEMMA ReadyFacts ==
  ASSUME IInv, NEW i \in Slots, Running(i)
  PROVE  \E w, b, q, u : Ready(i, w, b, q, u)
<1>1. back[i].at \in {"dialing", "connected", "ended"} /\ slots[i].owner # 0
  BY DEF Running
<1>2. PICK w, b, q, u : w = slots[i].owner /\ b = back[i] /\ q = down[i] /\ u = up[i]
  OBVIOUS
<1> QED BY <1>1, <1>2, BackFacts, RunsNow DEF Ready

\* A step of a running backend that keeps its slot running.
LEMMA RunStep ==
  ASSUME IInv, NEW i \in Slots, Running(i), UNCHANGED unchangedButBackend, stray' = FALSE,
         NEW y \in UpSeq, NEW q \in Seq(FrameRec), NEW b \in BackRec, Sorted(q),
         up' = [up EXCEPT ![i] = y], down' = [down EXCEPT ![i] = q], back' = [back EXCEPT ![i] = b],
         Running(i)', Told(i)', Asked(i)', Expected(i)',
         Has(q, "fingerprint") => Has(down[i], "fingerprint") \/ back[i].fp = "unasked",
         Has(q, "credential") => Has(down[i], "credential") \/ back[i].cred = "unasked",
         ~IsTelnet \/ ~Has(q, "fingerprint")
  PROVE  IInv'
<1>1. PICK w, b0, q0, u0 : Ready(i, w, b0, q0, u0)
  BY ReadyFacts
<1>2. UNCHANGED <<setup, conn, dials, spent, got, lock, inputting, built, tabs, ses, ui, slots, store>>
  BY DEF unchangedButBackend, sockVars, homeVars
<1>3. (IsTelnet' <=> IsTelnet) /\ (Going(w)' <=> Going(w)) /\ down'[i] = q /\ slots' = slots /\ ses' = ses
  <2>1. down \in [Slots -> Seq(FrameRec)]
    BY Typed DEF IInv
  <2> QED BY <1>2, <2>1, Still
<1>4. Fresh(i)'
  <2>1. Has(q, "fingerprint") => ~ses[w].accepted
    BY <1>1 DEF Ready, Asked
  <2> QED BY <1>1, <1>3, <2>1 DEF Ready, Fresh
<1>5. Cancelled(i)'
  <2>1. Going(w) /\ ses[w].sender = "closed" => back[i].fp # "unasked" /\ back[i].cred # "unasked"
    BY <1>1 DEF Ready, Asked
  <2> QED BY <1>1, <1>3, <2>1 DEF Ready, Cancelled
<1>6. Handshake(i)'
  BY <1>4, <1>5 DEF Handshake, Phase
<1> QED BY <1>1, <1>6, BackStep DEF Ready

LEMMA InvBackHook ==
  ASSUME IInv, NEW i \in Slots, BackHook(i)
  PROVE  IInv'
<1>1. back[i].at = "dialing" /\ ~Waiting(i) /\ ~back[i].hooked /\ back[i].fp = "unasked"
  BY DEF BackHook, Dialing
<1>2. Running(i)
  BY <1>1, RunsNow
<1>3. PICK w, b0, q0, u : Ready(i, w, b0, q0, u)
  BY <1>2, ReadyFacts
<1>4. UNCHANGED <<unchangedButBackend, up, stray>>
  BY DEF BackHook
<1>5. UNCHANGED <<setup, conn, dials, spent, got, lock, inputting, built, tabs, ses, ui, slots, store>>
  BY <1>4 DEF unchangedButBackend, sockVars, homeVars
<1>6. PICK f \in FrameRec : f = Frame("hook") /\ f.body = "hook"
  BY FrameTyped DEF Bodies
<1>7. PICK q : q = q0 \o <<f>>
  OBVIOUS
<1>8. PICK b : b = [b0 EXCEPT !.hooked = TRUE]
  OBVIOUS
<1>9. /\ ~Has(q0, "hook") /\ ~Has(q0, "fingerprint") /\ ~Has(q0, "credential") /\ ~Has(q0, "connected")
      /\ ~Has(q0, "failed") /\ ~Has(q0, "close") /\ ~Has(q0, "completed")
  BY <1>1, <1>3 DEF Ready, Told, Running, Waiting
<1>10. q \in Seq(FrameRec) /\ Sorted(q) /\ \A x : Has(q, x) <=> Has(q0, x) \/ x = "hook"
  <2>1. \A x \in Bodies : Has(q0, x) => Rank(x) < Rank(f.body)
    BY <1>6, <1>9, Ranks DEF Bodies
  <2> QED BY <1>3, <1>6, <1>7, <2>1, PutOne DEF Ready
<1>11. /\ b \in BackRec /\ b.at = b0.at /\ b.fp = b0.fp /\ b.cred = b0.cred /\ b.hooked
  BY <1>3, <1>8 DEF Ready, BackRec
<1>12. /\ up' = [up EXCEPT ![i] = u] /\ down' = [down EXCEPT ![i] = q] /\ back' = [back EXCEPT ![i] = b]
       /\ up'[i] = u /\ down'[i] = q /\ back'[i] = b /\ stray' = FALSE /\ u \in UpSeq
       /\ up[i] = u /\ down[i] = q0 /\ back[i] = b0
  <2>1. /\ up \in [Slots -> UpSeq] /\ down \in [Slots -> Seq(FrameRec)] /\ back \in [Slots -> BackRec] /\ ~stray
    BY <1>1, BackFacts
  <2> QED BY <1>3, <1>4, <1>6, <1>7, <1>8, <2>1 DEF Ready, BackHook, Sends
<1>13. /\ (IsTelnet' <=> IsTelnet) /\ (Going(w)' <=> Going(w))
       /\ (AskingFp(w)' <=> AskingFp(w)) /\ (AskingCred(w)' <=> AskingCred(w))
  BY <1>5, Still
<1>14. Has(q, "hook") /\ \A x \in Bodies \ {"hook"} : Has(q, x) <=> Has(q0, x)
  BY <1>10
<1>15. /\ Has(q, "started") <=> Has(q0, "started")
       /\ ~Has(q, "fingerprint") /\ ~Has(q, "credential") /\ ~Has(q, "connected")
       /\ ~Has(q, "failed") /\ ~Has(q, "close") /\ ~Has(q, "completed")
       /\ Has(q, "refused") <=> Has(q0, "refused")
  BY <1>9, <1>14 DEF Bodies
<1>16. Running(i)'
  <2>1. ~slots[i].shut
    BY <1>1, <1>2 DEF Running
  <2> QED BY <1>2, <1>5, <1>11, <1>12, <1>15, <1>9, <2>1 DEF Running
<1>17. Told(i)'
  BY <1>1, <1>3, <1>5, <1>11, <1>12, <1>13, <1>14, <1>15 DEF Ready, Told
<1>18. Asked(i)'
  BY <1>3, <1>5, <1>9, <1>11, <1>12, <1>13, <1>15 DEF Ready, Asked
<1>19. Expected(i)'
  BY <1>3, <1>5, <1>11, <1>12, <1>13, <1>15, <1>9 DEF Ready, Expected
<1> QED BY <1>2, <1>4, <1>10, <1>11, <1>12, <1>15, <1>16, <1>17, <1>18, <1>19, RunStep

\* What a sending backend changes.
LEMMA SentFacts ==
  ASSUME IInv, NEW i \in Slots, NEW w, NEW b0, NEW q0, NEW u, Ready(i, w, b0, q0, u),
         UNCHANGED unchangedButBackend, UNCHANGED <<up, stray>>,
         NEW b \in BackRec, back' = [back EXCEPT ![i] = b],
         NEW q, down' = [down EXCEPT ![i] = q]
  PROVE  /\ UNCHANGED <<setup, conn, tabs, ses, ui, slots>>
         /\ (IsTelnet' <=> IsTelnet) /\ (Going(w)' <=> Going(w))
         /\ (AskingFp(w)' <=> AskingFp(w)) /\ (AskingCred(w)' <=> AskingCred(w))
         /\ up' = [up EXCEPT ![i] = u] /\ up'[i] = u /\ down'[i] = q /\ back'[i] = b /\ stray' = FALSE
         /\ up[i] = u /\ down[i] = q0 /\ back[i] = b0 /\ u \in UpSeq
<1>1. /\ up \in [Slots -> UpSeq] /\ down \in [Slots -> Seq(FrameRec)] /\ back \in [Slots -> BackRec] /\ ~stray
  BY Typed DEF IInv, NoStrayFrame
<1>2. UNCHANGED <<setup, conn, tabs, ses, ui, slots>>
  BY DEF unchangedButBackend, sockVars, homeVars
<1> QED BY <1>1, <1>2, Still DEF Ready

LEMMA InvBackAsk ==
  ASSUME IInv, NEW i \in Slots, BackAsk(i)
  PROVE  IInv'
<1>1. back[i].at = "dialing" /\ back[i].fp # "asked" /\ back[i].cred # "asked" /\ ~IsTelnet
  BY DEF BackAsk, Dialing, Waiting
<1>2. Running(i)
  BY <1>1, RunsNow
<1>3. PICK w, b0, q0, u : Ready(i, w, b0, q0, u)
  BY <1>2, ReadyFacts
<1>4. UNCHANGED unchangedButBackend /\ UNCHANGED <<up, stray>>
  BY DEF BackAsk
<1>5. /\ ~Has(q0, "fingerprint") /\ ~Has(q0, "credential") /\ ~Has(q0, "connected")
      /\ ~Has(q0, "failed") /\ ~Has(q0, "close") /\ ~Has(q0, "completed") /\ ~slots[i].shut
      /\ b0.at = "dialing"
  BY <1>1, <1>3 DEF Ready, Told, Running
<1>6. CASE /\ back[i].fp = "unasked"
           /\ \E k \in Keys : Sends(i, <<[body |-> "fingerprint", key |-> k]>>)
           /\ back' = [back EXCEPT ![i].fp = "asked"]
  <2>1. PICK f \in FrameRec : f.body = "fingerprint" /\ Sends(i, <<f>>)
    <3>1. PICK k \in Keys : Sends(i, <<[body |-> "fingerprint", key |-> k]>>)
      BY <1>6
    <3>2. [body |-> "fingerprint", key |-> k] \in FrameRec
      BY DEF FrameRec, Bodies
    <3> QED BY <3>1, <3>2
  <2>2. PICK q : q = q0 \o <<f>>
    OBVIOUS
  <2>3. PICK b : b = [b0 EXCEPT !.fp = "asked"]
    OBVIOUS
  <2>4. q \in Seq(FrameRec) /\ Sorted(q) /\ \A x : Has(q, x) <=> Has(q0, x) \/ x = "fingerprint"
    <3>1. \A x \in Bodies : Has(q0, x) => Rank(x) < Rank(f.body)
      BY <1>5, <2>1, Ranks DEF Bodies
    <3> QED BY <1>3, <2>1, <2>2, <3>1, PutOne DEF Ready
  <2>5. b \in BackRec /\ b.at = "dialing" /\ b.fp = "asked" /\ b.cred = b0.cred /\ b.hooked = b0.hooked
    BY <1>3, <1>5, <2>3 DEF Ready, BackRec
  <2>6. back' = [back EXCEPT ![i] = b] /\ down' = [down EXCEPT ![i] = q]
    BY <1>3, <1>6, <2>1, <2>2, <2>3 DEF Ready, Sends
  <2>7. /\ UNCHANGED <<setup, conn, tabs, ses, ui, slots>>
        /\ (IsTelnet' <=> IsTelnet) /\ (Going(w)' <=> Going(w))
        /\ (AskingFp(w)' <=> AskingFp(w)) /\ (AskingCred(w)' <=> AskingCred(w))
        /\ up' = [up EXCEPT ![i] = u] /\ up'[i] = u /\ down'[i] = q /\ back'[i] = b /\ stray' = FALSE
        /\ up[i] = u /\ down[i] = q0 /\ back[i] = b0 /\ u \in UpSeq
    BY <1>3, <1>4, <2>5, <2>6, SentFacts
  <2>8. Has(q, "fingerprint") /\ \A x \in Bodies \ {"fingerprint"} : Has(q, x) <=> Has(q0, x)
    BY <2>4
  <2>9. /\ Has(q, "started") <=> Has(q0, "started")
        /\ Has(q, "refused") <=> Has(q0, "refused")
        /\ Has(q, "hook") <=> Has(q0, "hook")
        /\ ~Has(q, "credential") /\ ~Has(q, "connected") /\ ~Has(q, "failed") /\ ~Has(q, "close") /\ ~Has(q, "completed")
    BY <1>5, <2>8 DEF Bodies
  <2>10. Running(i)'
    BY <1>2, <1>5, <2>5, <2>7, <2>9 DEF Running
  <2>11. Told(i)'
    BY <1>1, <1>3, <1>6, <2>5, <2>7, <2>8, <2>9 DEF Ready, Told
  <2>12. Asked(i)'
    <3>1. b0.fp = "unasked" /\ b0.cred # "asked" /\ Asked(i)
      BY <1>1, <1>3, <1>6 DEF Ready
    <3>2. ~HeadIn(u, {"accept", "reject"}) /\ ~HeadIn(u, {"login"})
      BY <2>7, <3>1 DEF Asked
    <3>3. ~(AskingFp(w) /\ ses[w].sender = "open") /\ ~(AskingCred(w) /\ ses[w].sender = "open")
          /\ ~(Going(w) /\ ses[w].sender = "closed") /\ ~ses[w].accepted
      BY <1>3, <2>7, <3>1 DEF Ready, Asked
    <3> QED BY <1>3, <2>7, <3>2, <3>3 DEF Ready, Asked
  <2>13. Expected(i)'
    BY <1>3, <1>5, <2>5, <2>7, <2>9 DEF Ready, Expected
  <2> QED BY <1>1, <1>2, <1>4, <1>6, <2>4, <2>5, <2>6, <2>7, <2>9, <2>10, <2>11, <2>12, <2>13, RunStep
<1>7. CASE /\ back[i].fp = "yes" /\ back[i].cred = "unasked"
           /\ Sends(i, <<Frame("credential")>>) /\ back' = [back EXCEPT ![i].cred = "asked"]
  <2>1. PICK f \in FrameRec : f.body = "credential" /\ f = Frame("credential")
    BY FrameTyped DEF Bodies
  <2>2. PICK q : q = q0 \o <<f>>
    OBVIOUS
  <2>3. PICK b : b = [b0 EXCEPT !.cred = "asked"]
    OBVIOUS
  <2>4. q \in Seq(FrameRec) /\ Sorted(q) /\ \A x : Has(q, x) <=> Has(q0, x) \/ x = "credential"
    <3>1. \A x \in Bodies : Has(q0, x) => Rank(x) < Rank(f.body)
      BY <1>5, <2>1, Ranks DEF Bodies
    <3> QED BY <1>3, <2>1, <2>2, <3>1, PutOne DEF Ready
  <2>5. b \in BackRec /\ b.at = "dialing" /\ b.fp = "yes" /\ b.cred = "asked" /\ b.hooked = b0.hooked
    BY <1>3, <1>5, <1>7, <2>3 DEF Ready, BackRec
  <2>6. back' = [back EXCEPT ![i] = b] /\ down' = [down EXCEPT ![i] = q]
    BY <1>3, <1>7, <2>1, <2>2, <2>3 DEF Ready, Sends
  <2>7. /\ UNCHANGED <<setup, conn, tabs, ses, ui, slots>>
        /\ (IsTelnet' <=> IsTelnet) /\ (Going(w)' <=> Going(w))
        /\ (AskingFp(w)' <=> AskingFp(w)) /\ (AskingCred(w)' <=> AskingCred(w))
        /\ up' = [up EXCEPT ![i] = u] /\ up'[i] = u /\ down'[i] = q /\ back'[i] = b /\ stray' = FALSE
        /\ up[i] = u /\ down[i] = q0 /\ back[i] = b0 /\ u \in UpSeq
    BY <1>3, <1>4, <2>5, <2>6, SentFacts
  <2>8. Has(q, "credential") /\ \A x \in Bodies \ {"credential"} : Has(q, x) <=> Has(q0, x)
    BY <2>4
  <2>9. /\ Has(q, "started") <=> Has(q0, "started")
        /\ Has(q, "refused") <=> Has(q0, "refused")
        /\ Has(q, "hook") <=> Has(q0, "hook")
        /\ ~Has(q, "fingerprint") /\ ~Has(q, "connected") /\ ~Has(q, "failed") /\ ~Has(q, "close") /\ ~Has(q, "completed")
    BY <1>5, <2>8 DEF Bodies
  <2>10. Running(i)'
    BY <1>2, <1>5, <2>5, <2>7, <2>9 DEF Running
  <2>11. Told(i)'
    BY <1>1, <1>3, <1>5, <1>7, <2>5, <2>7, <2>8, <2>9 DEF Ready, Told
  <2>12. Asked(i)'
    <3>1. b0.fp = "yes" /\ b0.cred = "unasked" /\ Asked(i)
      BY <1>3, <1>7 DEF Ready
    <3>2. ~HeadIn(u, {"accept", "reject"}) /\ ~HeadIn(u, {"login"})
      BY <2>7, <3>1 DEF Asked
    <3>3. ~(AskingFp(w) /\ ses[w].sender = "open") /\ ~(AskingCred(w) /\ ses[w].sender = "open")
          /\ ~(Going(w) /\ ses[w].sender = "closed")
      BY <1>3, <2>7, <3>1 DEF Ready, Asked
    <3> QED BY <1>3, <2>5, <2>7, <2>9, <3>2, <3>3 DEF Ready, Asked
  <2>13. Expected(i)'
    BY <1>3, <1>5, <2>5, <2>7, <2>9 DEF Ready, Expected
  <2> QED BY <1>1, <1>2, <1>4, <1>7, <2>4, <2>5, <2>6, <2>7, <2>9, <2>10, <2>11, <2>12, <2>13, RunStep
<1> QED BY <1>6, <1>7 DEF BackAsk

LEMMA InvBackConnected ==
  ASSUME IInv, NEW i \in Slots, BackConnected(i)
  PROVE  IInv'
<1>1. back[i].at = "dialing" /\ back[i].fp # "asked" /\ back[i].cred # "asked" /\ (IsTelnet \/ back[i].fp = "yes")
  BY DEF BackConnected, Dialing, Waiting
<1>2. Running(i)
  BY <1>1, RunsNow
<1>3. PICK w, b0, q0, u : Ready(i, w, b0, q0, u)
  BY <1>2, ReadyFacts
<1>4. UNCHANGED unchangedButBackend /\ UNCHANGED <<up, stray>>
  BY DEF BackConnected
<1>5. /\ ~Has(q0, "fingerprint") /\ ~Has(q0, "credential") /\ ~Has(q0, "connected")
      /\ ~Has(q0, "failed") /\ ~Has(q0, "close") /\ ~Has(q0, "completed") /\ ~slots[i].shut
      /\ b0.at = "dialing"
  BY <1>1, <1>3 DEF Ready, Told, Running
<1>6. PICK f \in FrameRec : f.body = "connected" /\ f = Frame("connected")
  BY FrameTyped DEF Bodies
<1>7. PICK q : q = q0 \o <<f>>
  OBVIOUS
<1>8. PICK b : b = [b0 EXCEPT !.at = "connected"]
  OBVIOUS
<1>9. q \in Seq(FrameRec) /\ Sorted(q) /\ \A x : Has(q, x) <=> Has(q0, x) \/ x = "connected"
  <2>1. \A x \in Bodies : Has(q0, x) => Rank(x) < Rank(f.body)
    BY <1>5, <1>6, Ranks DEF Bodies
  <2> QED BY <1>3, <1>6, <1>7, <2>1, PutOne DEF Ready
<1>10. b \in BackRec /\ b.at = "connected" /\ b.fp = b0.fp /\ b.cred = b0.cred /\ b.hooked = b0.hooked
  BY <1>3, <1>8 DEF Ready, BackRec
<1>11. back' = [back EXCEPT ![i] = b] /\ down' = [down EXCEPT ![i] = q]
  BY <1>3, <1>6, <1>7, <1>8 DEF BackConnected, Ready, Sends
<1>12. /\ UNCHANGED <<setup, conn, tabs, ses, ui, slots>>
       /\ (IsTelnet' <=> IsTelnet) /\ (Going(w)' <=> Going(w))
       /\ (AskingFp(w)' <=> AskingFp(w)) /\ (AskingCred(w)' <=> AskingCred(w))
       /\ up' = [up EXCEPT ![i] = u] /\ up'[i] = u /\ down'[i] = q /\ back'[i] = b /\ stray' = FALSE
       /\ up[i] = u /\ down[i] = q0 /\ back[i] = b0 /\ u \in UpSeq
  BY <1>3, <1>4, <1>10, <1>11, SentFacts
<1>13. Has(q, "connected") /\ \A x \in Bodies \ {"connected"} : Has(q, x) <=> Has(q0, x)
  BY <1>9
<1>14. /\ Has(q, "started") <=> Has(q0, "started")
       /\ Has(q, "refused") <=> Has(q0, "refused")
       /\ Has(q, "hook") <=> Has(q0, "hook")
       /\ ~Has(q, "fingerprint") /\ ~Has(q, "credential") /\ ~Has(q, "failed") /\ ~Has(q, "close") /\ ~Has(q, "completed")
  BY <1>5, <1>13 DEF Bodies
<1>15. Running(i)'
  BY <1>2, <1>5, <1>10, <1>12, <1>14 DEF Running
<1>16. Told(i)'
  BY <1>1, <1>3, <1>5, <1>10, <1>12, <1>13, <1>14 DEF Ready, Told
<1>17. Asked(i)'
  BY <1>3, <1>5, <1>10, <1>12, <1>14 DEF Ready, Asked
<1>18. Expected(i)'
  BY <1>3, <1>5, <1>10, <1>12, <1>14 DEF Ready, Expected
<1> QED BY <1>2, <1>4, <1>9, <1>10, <1>11, <1>12, <1>14, <1>15, <1>16, <1>17, <1>18, RunStep

LEMMA InvBackFailed ==
  ASSUME IInv, NEW i \in Slots, BackFailed(i)
  PROVE  IInv'
<1>1. back[i].at = "dialing"
  BY DEF BackFailed
<1>2. Running(i)
  BY <1>1, RunsNow
<1>3. PICK w, b0, q0, u : Ready(i, w, b0, q0, u)
  BY <1>2, ReadyFacts
<1>4. UNCHANGED unchangedButBackend /\ UNCHANGED <<up, stray>>
  BY DEF BackFailed
<1>5. /\ ~Has(q0, "connected") /\ ~Has(q0, "failed") /\ ~Has(q0, "close") /\ ~Has(q0, "completed")
      /\ ~slots[i].shut /\ b0.at = "dialing"
  BY <1>1, <1>3 DEF Ready, Told, Running
<1>6. PICK f \in FrameRec, g \in FrameRec :
        f.body = "failed" /\ f = Frame("failed") /\ g.body = "close" /\ g = Frame("close")
  BY FrameTyped DEF Bodies
<1>7. PICK q : q = q0 \o <<f, g>>
  OBVIOUS
<1>8. PICK b : b = [b0 EXCEPT !.at = "ended"]
  OBVIOUS
<1>9. q \in Seq(FrameRec) /\ Sorted(q) /\ \A x : Has(q, x) <=> Has(q0, x) \/ x = "failed" \/ x = "close"
  <2>1. (\A x \in Bodies : Has(q0, x) => Rank(x) < Rank(f.body)) /\ Rank(f.body) < Rank(g.body)
    BY <1>5, <1>6, Ranks DEF Bodies
  <2> QED BY <1>3, <1>6, <1>7, <2>1, PutTwo DEF Ready
<1>10. b \in BackRec /\ b.at = "ended" /\ b.fp = b0.fp /\ b.cred = b0.cred /\ b.hooked = b0.hooked
  BY <1>3, <1>8 DEF Ready, BackRec
<1>11. back' = [back EXCEPT ![i] = b] /\ down' = [down EXCEPT ![i] = q]
  BY <1>3, <1>6, <1>7, <1>8 DEF BackFailed, Ready, Sends
<1>12. /\ UNCHANGED <<setup, conn, tabs, ses, ui, slots>>
       /\ (IsTelnet' <=> IsTelnet) /\ (Going(w)' <=> Going(w))
       /\ (AskingFp(w)' <=> AskingFp(w)) /\ (AskingCred(w)' <=> AskingCred(w))
       /\ up' = [up EXCEPT ![i] = u] /\ up'[i] = u /\ down'[i] = q /\ back'[i] = b /\ stray' = FALSE
       /\ up[i] = u /\ down[i] = q0 /\ back[i] = b0 /\ u \in UpSeq
  BY <1>3, <1>4, <1>10, <1>11, SentFacts
<1>13. Has(q, "failed") /\ Has(q, "close") /\ \A x \in Bodies \ {"failed", "close"} : Has(q, x) <=> Has(q0, x)
  BY <1>9
<1>14. /\ Has(q, "started") <=> Has(q0, "started")
       /\ Has(q, "refused") <=> Has(q0, "refused")
       /\ Has(q, "hook") <=> Has(q0, "hook")
       /\ Has(q, "fingerprint") <=> Has(q0, "fingerprint")
       /\ Has(q, "credential") <=> Has(q0, "credential")
       /\ ~Has(q, "connected") /\ ~Has(q, "completed")
  BY <1>5, <1>13 DEF Bodies
<1>15. Running(i)'
  BY <1>2, <1>5, <1>10, <1>12, <1>13, <1>14 DEF Running
<1>16. Told(i)'
  BY <1>1, <1>3, <1>5, <1>10, <1>12, <1>14 DEF Ready, Told
<1>17. Asked(i)'
  BY <1>3, <1>5, <1>10, <1>12, <1>14 DEF Ready, Asked
<1>18. Expected(i)'
  BY <1>10, <1>12, <1>13, <1>14 DEF Expected
<1>19. IsTelnet => ~Has(q, "fingerprint")
  BY <1>3, <1>12, <1>14 DEF Ready, Told
<1> QED BY <1>2, <1>4, <1>9, <1>10, <1>11, <1>12, <1>14, <1>15, <1>16, <1>17, <1>18, <1>19, RunStep

LEMMA InvBackEnded ==
  ASSUME IInv, NEW i \in Slots, BackEnded(i)
  PROVE  IInv'
<1>1. back[i].at = "connected"
  BY DEF BackEnded
<1>2. Running(i)
  BY <1>1, RunsNow
<1>3. PICK w, b0, q0, u : Ready(i, w, b0, q0, u)
  BY <1>2, ReadyFacts
<1>4. UNCHANGED unchangedButBackend /\ UNCHANGED <<up, stray>>
  BY DEF BackEnded
<1>5. /\ ~Has(q0, "failed") /\ ~Has(q0, "close") /\ ~Has(q0, "completed") /\ ~slots[i].shut
      /\ b0.at = "connected"
  BY <1>1, <1>3 DEF Ready, Told, Running
<1>6. PICK f \in FrameRec : f.body = "close" /\ f = Frame("close")
  BY FrameTyped DEF Bodies
<1>7. PICK q : q = q0 \o <<f>>
  OBVIOUS
<1>8. PICK b : b = [b0 EXCEPT !.at = "ended"]
  OBVIOUS
<1>9. q \in Seq(FrameRec) /\ Sorted(q) /\ \A x : Has(q, x) <=> Has(q0, x) \/ x = "close"
  <2>1. \A x \in Bodies : Has(q0, x) => Rank(x) < Rank(f.body)
    BY <1>5, <1>6, Ranks DEF Bodies
  <2> QED BY <1>3, <1>6, <1>7, <2>1, PutOne DEF Ready
<1>10. b \in BackRec /\ b.at = "ended" /\ b.fp = b0.fp /\ b.cred = b0.cred /\ b.hooked = b0.hooked
  BY <1>3, <1>8 DEF Ready, BackRec
<1>11. back' = [back EXCEPT ![i] = b] /\ down' = [down EXCEPT ![i] = q]
  BY <1>3, <1>6, <1>7, <1>8 DEF BackEnded, Ready, Sends
<1>12. /\ UNCHANGED <<setup, conn, tabs, ses, ui, slots>>
       /\ (IsTelnet' <=> IsTelnet) /\ (Going(w)' <=> Going(w))
       /\ (AskingFp(w)' <=> AskingFp(w)) /\ (AskingCred(w)' <=> AskingCred(w))
       /\ up' = [up EXCEPT ![i] = u] /\ up'[i] = u /\ down'[i] = q /\ back'[i] = b /\ stray' = FALSE
       /\ up[i] = u /\ down[i] = q0 /\ back[i] = b0 /\ u \in UpSeq
  BY <1>3, <1>4, <1>10, <1>11, SentFacts
<1>13. Has(q, "close") /\ \A x \in Bodies \ {"close"} : Has(q, x) <=> Has(q0, x)
  BY <1>9
<1>14. /\ Has(q, "started") <=> Has(q0, "started")
       /\ Has(q, "refused") <=> Has(q0, "refused")
       /\ Has(q, "hook") <=> Has(q0, "hook")
       /\ Has(q, "fingerprint") <=> Has(q0, "fingerprint")
       /\ Has(q, "credential") <=> Has(q0, "credential")
       /\ Has(q, "connected") <=> Has(q0, "connected")
       /\ ~Has(q, "failed") /\ ~Has(q, "completed")
  BY <1>5, <1>13 DEF Bodies
<1>15. Running(i)'
  BY <1>2, <1>5, <1>10, <1>12, <1>13, <1>14 DEF Running
<1>16. Told(i)'
  BY <1>1, <1>3, <1>5, <1>10, <1>12, <1>14 DEF Ready, Told
<1>17. Asked(i)'
  BY <1>3, <1>5, <1>10, <1>12, <1>14 DEF Ready, Asked
<1>18. Expected(i)'
  <2>1. Told(i) /\ Expected(i) /\ w = slots[i].owner
    BY <1>3 DEF Ready
  <2>2. Has(q0, "connected") \/ slots[i].connected
    BY <1>1, <1>12, <2>1 DEF Told
  <2> QED BY <1>10, <1>12, <1>14, <2>1, <2>2 DEF Expected
<1>19. IsTelnet => ~Has(q, "fingerprint")
  BY <1>3, <1>12, <1>14 DEF Ready, Told
<1> QED BY <1>2, <1>4, <1>9, <1>10, <1>11, <1>12, <1>14, <1>15, <1>16, <1>17, <1>18, <1>19, RunStep

LEMMA InvBackAnswered ==
  ASSUME IInv, NEW i \in Slots, BackAnswered(i)
  PROVE  IInv'
<1>1. up[i] # <<>> /\ Head(up[i]) \in {"accept", "reject", "login"}
  BY DEF BackAnswered
<1>2. Running(i)
  BY <1>1, ReadPhase
<1>3. PICK w, b0, q0, u : Ready(i, w, b0, q0, u)
  BY <1>2, ReadyFacts
<1>4. UNCHANGED unchangedButBackend
  BY DEF BackAnswered
<1>5. UNCHANGED <<setup, conn, tabs, ses, ui, slots>>
  BY <1>4 DEF unchangedButBackend, sockVars, homeVars
<1>6. /\ (IsTelnet' <=> IsTelnet) /\ (Going(w)' <=> Going(w))
      /\ (AskingFp(w)' <=> AskingFp(w)) /\ (AskingCred(w)' <=> AskingCred(w))
  BY <1>5, Still
<1>7. PICK a : a = Head(u)
  OBVIOUS
<1>8. /\ u # <<>> /\ a \in {"accept", "reject", "login"} /\ u = up[i] /\ b0 = back[i] /\ q0 = down[i]
      /\ w = slots[i].owner /\ w # 0 /\ Told(i) /\ Asked(i) /\ Expected(i)
      /\ slots[i].shut \in BOOLEAN
  BY <1>1, <1>3, <1>7 DEF Ready, SlotRec
<1>9. PICK y : y = Tail(u)
  OBVIOUS
<1>10. y \in UpSeq /\ ~HeadIn(y, {"accept", "reject", "login"})
       /\ Sending(y, ses[w].sender = "closed", slots[i].shut)
  <2>1. PICK closed \in BOOLEAN : closed = (ses[w].sender = "closed")
    OBVIOUS
  <2>2. Sending(u, closed, slots[i].shut)
    BY <1>2, <1>8, <2>1 DEF Running
  <2>3. Sending(y, closed, slots[i].shut) /\ ~HeadIn(y, {"accept", "reject", "login"})
    BY <1>7, <1>8, <1>9, <2>2, ReadSending
  <2>4. y \in UpSeq
    BY <1>3, <1>8, <1>9 DEF Ready, UpSeq
  <2> QED BY <2>1, <2>3, <2>4
<1>11. /\ up \in [Slots -> UpSeq] /\ down \in [Slots -> Seq(FrameRec)] /\ back \in [Slots -> BackRec]
       /\ ~stray /\ b0 \in BackRec /\ q0 \in Seq(FrameRec) /\ Sorted(q0)
  BY <1>1, <1>8, BackFacts
\* The question has been asked, and nothing else is under way to the user.
<1>12. /\ a \in {"accept", "reject"} => b0.fp = "asked" /\ ~Has(q0, "fingerprint")
       /\ a = "login" => b0.cred = "asked" /\ ~Has(q0, "credential")
  BY <1>7, <1>8 DEF Asked, HeadIn
<1>13. b0.at \in {"dialing", "ended"}
  <2>1. b0.at \in {"dialing", "connected", "ended"}
    BY <1>2, <1>8 DEF Running
  <2>2. b0.at # "connected"
    BY <1>8, <1>12 DEF Told
  <2> QED BY <2>1, <2>2
<1>14. /\ ~(AskingFp(w) /\ ses[w].sender = "open") /\ ~(AskingCred(w) /\ ses[w].sender = "open")
  BY <1>8 DEF Asked
<1>15. PICK fails \in BOOLEAN : fails = (a = "reject" /\ b0.at = "dialing")
  OBVIOUS
<1>16. PICK b : b = IF a = "login" THEN [b0 EXCEPT !.cred = "yes"]
                    ELSE [b0 EXCEPT !.at = IF fails THEN "ended" ELSE b0.at,
                                    !.fp = IF a = "accept" THEN "yes" ELSE "no"]
  OBVIOUS
<1>17. /\ b \in BackRec /\ b.at = (IF fails THEN "ended" ELSE b0.at) /\ b.hooked = b0.hooked
       /\ a = "login" => b.fp = b0.fp /\ b.cred = "yes"
       /\ a = "accept" => b.fp = "yes" /\ b.cred = b0.cred
       /\ a = "reject" => b.fp = "no" /\ b.cred = b0.cred
  <2>1. CASE a = "login"
    BY <1>11, <1>15, <1>16, <2>1 DEF BackRec
  <2>2. CASE a = "accept"
    BY <1>11, <1>15, <1>16, <2>2 DEF BackRec
  <2>3. CASE a = "reject"
    <3>1. CASE fails
      BY <1>11, <1>16, <2>3, <3>1 DEF BackRec
    <3>2. CASE ~fails
      BY <1>11, <1>16, <2>3, <3>2 DEF BackRec
    <3> QED BY <3>1, <3>2
  <2> QED BY <1>8, <2>1, <2>2, <2>3
<1>18. /\ up' = [up EXCEPT ![i] = y] /\ back' = [back EXCEPT ![i] = b] /\ stray' = FALSE
  <2>1. up' = [up EXCEPT ![i] = y]
    BY <1>8, <1>9, <1>11 DEF BackAnswered
  <2>2. stray' = FALSE
    BY <1>7, <1>8, <1>11, <1>12, <1>13 DEF BackAnswered
  <2>3. back' = [back EXCEPT ![i] = b]
    <3>1. CASE a = "login"
      <4>1. ~fails
        BY <1>15, <3>1
      <4>2. [back[i] EXCEPT !.at = back[i].at] = back[i]
        BY <1>8, <1>11 DEF BackRec
      <4> QED BY <1>7, <1>8, <1>15, <1>16, <3>1, <4>1, <4>2 DEF BackAnswered
    <3>2. CASE a # "login"
      <4>1. CASE a = "accept"
        <5>1. back' = [back EXCEPT ![i] = [[b0 EXCEPT !.at = b0.at] EXCEPT !.fp = "yes"]]
          BY <1>7, <1>8, <4>1 DEF BackAnswered
        <5>2. b = [b0 EXCEPT !.at = b0.at, !.fp = "yes"]
          BY <1>15, <1>16, <4>1
        <5> QED BY <5>1, <5>2
      <4>2. CASE a = "reject" /\ fails
        <5>1. back' = [back EXCEPT ![i] = [[b0 EXCEPT !.at = "ended"] EXCEPT !.fp = "no"]]
          BY <1>7, <1>8, <1>15, <4>2 DEF BackAnswered
        <5>2. b = [b0 EXCEPT !.at = "ended", !.fp = "no"]
          BY <1>16, <4>2
        <5> QED BY <5>1, <5>2
      <4>3. CASE a = "reject" /\ ~fails
        <5>1. back' = [back EXCEPT ![i] = [[b0 EXCEPT !.at = b0.at] EXCEPT !.fp = "no"]]
          BY <1>7, <1>8, <1>15, <4>3 DEF BackAnswered
        <5>2. b = [b0 EXCEPT !.at = b0.at, !.fp = "no"]
          BY <1>16, <4>3
        <5> QED BY <5>1, <5>2
      <4> QED BY <1>8, <3>2, <4>1, <4>2, <4>3
    <3> QED BY <3>1, <3>2
  <2> QED BY <2>1, <2>2, <2>3
<1>19. up'[i] = y /\ back'[i] = b
  BY <1>11, <1>18
<1>20. /\ a \in {"accept", "reject"} => ~Has(q0, "hook") /\ ~slots[i].initing /\ ~Has(q0, "connected")
       /\ a \in {"accept", "reject"} => b0.cred = "unasked" /\ ~IsTelnet
       /\ a = "login" => b0.fp = "yes" /\ ~Has(q0, "connected") /\ ~Has(q0, "fingerprint") /\ ~IsTelnet
  BY <1>8, <1>12 DEF Told
<1>21. CASE ~fails
  <2>1. down' = [down EXCEPT ![i] = q0] /\ down'[i] = q0
    <3>1. ~(Head(up[i]) = "reject" /\ back[i].at = "dialing")
      BY <1>7, <1>8, <1>15, <1>21
    <3>2. UNCHANGED down
      BY <3>1 DEF BackAnswered
    <3> QED BY <1>8, <1>11, <3>2
  <2>2. Running(i)'
    BY <1>2, <1>5, <1>8, <1>10, <1>17, <1>19, <1>21, <2>1 DEF Running
  <2>3. Told(i)'
    BY <1>5, <1>6, <1>8, <1>12, <1>13, <1>17, <1>19, <1>20, <1>21, <2>1 DEF Told
  <2>4. Asked(i)'
    <3>1. ~HeadIn(y, {"accept", "reject"}) /\ ~HeadIn(y, {"login"})
      BY <1>10 DEF HeadIn
    <3>2. ~(AskingFp(w)' /\ ses'[w].sender = "open") /\ ~(AskingCred(w)' /\ ses'[w].sender = "open")
      BY <1>5, <1>6, <1>14
    <3>3. ~Has(q0, "fingerprint") /\ b.fp # "unasked"
      BY <1>8, <1>12, <1>17, <1>20
    <3>4. Going(w)' /\ ses'[w].sender = "closed" => b.cred # "unasked"
      BY <1>5, <1>6, <1>8, <1>17 DEF Asked
    <3> QED BY <1>5, <1>8, <1>19, <2>1, <3>1, <3>2, <3>3, <3>4 DEF Asked
  <2>5. Expected(i)'
    BY <1>5, <1>6, <1>8, <1>17, <1>19, <1>21, <2>1 DEF Expected
  <2>6. IsTelnet => ~Has(q0, "fingerprint")
    BY <1>8, <1>20
  <2> QED BY <1>2, <1>4, <1>8, <1>10, <1>11, <1>17, <1>18, <2>1, <2>2, <2>3, <2>4, <2>5, <2>6, RunStep
<1>22. CASE fails
  <2>1. a = "reject" /\ b0.at = "dialing"
    BY <1>15, <1>22
  <2>2. PICK f \in FrameRec, g \in FrameRec :
          f.body = "failed" /\ f = Frame("failed") /\ g.body = "close" /\ g = Frame("close")
    BY FrameTyped DEF Bodies
  <2>3. PICK q : q = q0 \o <<f, g>>
    OBVIOUS
  <2>4. /\ ~Has(q0, "connected") /\ ~Has(q0, "failed") /\ ~Has(q0, "close") /\ ~Has(q0, "completed")
        /\ ~slots[i].shut /\ ~Has(q0, "fingerprint") /\ ~Has(q0, "credential") /\ ~Has(q0, "hook")
    BY <1>2, <1>8, <1>12, <1>20, <2>1 DEF Told, Running
  <2>5. q \in Seq(FrameRec) /\ Sorted(q) /\ \A x : Has(q, x) <=> Has(q0, x) \/ x = "failed" \/ x = "close"
    <3>1. (\A x \in Bodies : Has(q0, x) => Rank(x) < Rank(f.body)) /\ Rank(f.body) < Rank(g.body)
      BY <2>2, <2>4, Ranks DEF Bodies
    <3> QED BY <1>11, <2>2, <2>3, <3>1, PutTwo
  <2>6. down' = [down EXCEPT ![i] = q] /\ down'[i] = q
    <3>1. Sends(i, <<f, g>>)
      BY <1>7, <1>8, <2>1, <2>2 DEF BackAnswered
    <3> QED BY <1>8, <1>11, <2>3, <3>1 DEF Sends
  <2>7. Has(q, "failed") /\ Has(q, "close") /\ \A x \in Bodies \ {"failed", "close"} : Has(q, x) <=> Has(q0, x)
    BY <2>5
  <2>8. /\ Has(q, "started") <=> Has(q0, "started")
        /\ Has(q, "refused") <=> Has(q0, "refused")
        /\ ~Has(q, "hook") /\ ~Has(q, "fingerprint") /\ ~Has(q, "credential")
        /\ ~Has(q, "connected") /\ ~Has(q, "completed")
    BY <2>4, <2>7 DEF Bodies
  <2>9. b.at = "ended" /\ b.fp = "no" /\ b.cred = b0.cred /\ b0.cred = "unasked"
    BY <1>17, <1>20, <1>22, <2>1
  <2>10. Running(i)'
    BY <1>2, <1>5, <1>8, <1>10, <1>19, <2>4, <2>6, <2>7, <2>8, <2>9 DEF Running
  <2>11. Told(i)'
    BY <1>5, <1>6, <1>8, <1>19, <1>20, <2>1, <2>6, <2>8, <2>9 DEF Told
  <2>12. Asked(i)'
    <3>1. ~HeadIn(y, {"accept", "reject"}) /\ ~HeadIn(y, {"login"})
      BY <1>10 DEF HeadIn
    <3>2. ~(AskingFp(w)' /\ ses'[w].sender = "open") /\ ~(AskingCred(w)' /\ ses'[w].sender = "open")
      BY <1>5, <1>6, <1>14
    <3>3. ~(Going(w)' /\ ses'[w].sender = "closed")
      BY <1>5, <1>6, <1>8, <2>9 DEF Asked
    <3> QED BY <1>5, <1>8, <1>19, <2>6, <2>8, <2>9, <3>1, <3>2, <3>3 DEF Asked
  <2>13. Expected(i)'
    BY <1>19, <2>6, <2>7, <2>8, <2>9 DEF Expected
  <2> QED BY <1>2, <1>4, <1>10, <1>17, <1>18, <2>5, <2>6, <2>8, <2>10, <2>11, <2>12, <2>13, RunStep
<1> QED BY <1>21, <1>22

LEMMA InvBackClose ==
  ASSUME IInv, NEW i \in Slots, BackClose(i)
  PROVE  IInv'
<1>1. up[i] # <<>> /\ Head(up[i]) = "close"
  BY DEF BackClose
<1>2. Running(i)
  BY <1>1, ReadPhase
<1>3. PICK w, b0, q0, u : Ready(i, w, b0, q0, u)
  BY <1>2, ReadyFacts
<1>4. UNCHANGED unchangedButBackend
  BY DEF BackClose
<1>5. UNCHANGED <<setup, conn, tabs, ses, ui, slots>>
  BY <1>4 DEF unchangedButBackend, sockVars, homeVars
<1>6. (IsTelnet' <=> IsTelnet) /\ (Going(w)' <=> Going(w))
  BY <1>5, Still
<1>7. /\ u = up[i] /\ b0 = back[i] /\ q0 = down[i] /\ w = slots[i].owner /\ w # 0
      /\ SlotState(i) /\ Fresh(i) /\ Cancelled(i) /\ slots[i].shut \in BOOLEAN
  BY <1>3 DEF Ready, SlotRec
<1>8. PICK y : y = Tail(u)
  OBVIOUS
<1>9. ses[w].sender = "closed" /\ y = IF slots[i].shut THEN <<"completed">> ELSE <<>>
  <2>1. PICK closed \in BOOLEAN : closed = (ses[w].sender = "closed")
    OBVIOUS
  <2>2. Sending(u, closed, slots[i].shut)
    BY <1>2, <1>7, <2>1 DEF Running
  <2> QED BY <1>1, <1>7, <1>8, <2>1, <2>2, ReadSending
<1>10. y \in UpSeq
  <2>1. <<>> \in UpSeq /\ <<"completed">> \in UpSeq
    BY DEF UpSeq
  <2>2. CASE slots[i].shut
    BY <1>9, <2>1, <2>2
  <2>3. CASE ~slots[i].shut
    BY <1>9, <2>1, <2>3
  <2> QED BY <2>2, <2>3
<1>11. /\ up \in [Slots -> UpSeq] /\ down \in [Slots -> Seq(FrameRec)] /\ back \in [Slots -> BackRec]
       /\ ~stray /\ b0 \in BackRec /\ q0 \in Seq(FrameRec) /\ Sorted(q0) /\ conn = "up"
  BY <1>1, <1>7, BackFacts
<1>12. /\ b0.at \in {"dialing", "connected", "ended"}
       /\ ~Has(q0, "completed") /\ ~Has(q0, "refused")
       /\ slots[i].initing <=> Has(q0, "started")
       /\ b0.at = "ended" <=> Has(q0, "close") \/ slots[i].shut
       /\ slots[i].shut => q0 = <<>>
  BY <1>2, <1>7 DEF Running
<1>13. ~slots[i].initing
  BY <1>7, <1>9 DEF SlotState
<1>14. PICK b : b = [b0 EXCEPT !.at = "closed"]
  OBVIOUS
<1>15. b \in BackRec /\ b.at = "closed"
  BY <1>11, <1>14 DEF BackRec
<1>16. PICK f \in FrameRec, g \in FrameRec :
         f.body = "close" /\ f = Frame("close") /\ g.body = "completed" /\ g = Frame("completed")
  BY FrameTyped DEF Bodies
<1>17. PICK q : q = IF b0.at = "ended" THEN q0 \o <<g>> ELSE q0 \o <<f, g>>
  OBVIOUS
<1>18. /\ q \in Seq(FrameRec) /\ Sorted(q)
       /\ \A x : Has(q, x) <=> Has(q0, x) \/ x = "completed" \/ (b0.at # "ended" /\ x = "close")
  <2>1. CASE b0.at = "ended"
    <3>1. \A x \in Bodies : Has(q0, x) => Rank(x) < Rank(g.body)
      BY <1>12, <1>16, Ranks DEF Bodies
    <3> QED BY <1>11, <1>16, <1>17, <2>1, <3>1, PutOne
  <2>2. CASE b0.at # "ended"
    <3>1. (\A x \in Bodies : Has(q0, x) => Rank(x) < Rank(f.body)) /\ Rank(f.body) < Rank(g.body)
      BY <1>12, <1>16, <2>2, Ranks DEF Bodies
    <3> QED BY <1>11, <1>16, <1>17, <2>2, <3>1, PutTwo
  <2> QED BY <2>1, <2>2
<1>19. /\ up' = [up EXCEPT ![i] = y] /\ back' = [back EXCEPT ![i] = b] /\ down' = [down EXCEPT ![i] = q]
       /\ stray' = FALSE
  <2>1. up' = [up EXCEPT ![i] = y] /\ back' = [back EXCEPT ![i] = b]
    BY <1>7, <1>8, <1>11, <1>14 DEF BackClose
  <2>2. stray' = FALSE
    BY <1>7, <1>11, <1>12 DEF BackClose
  <2>3. down' = [down EXCEPT ![i] = q]
    <3>1. CASE b0.at = "ended"
      BY <1>7, <1>11, <1>16, <1>17, <3>1 DEF BackClose, Sends
    <3>2. CASE b0.at # "ended"
      BY <1>7, <1>11, <1>16, <1>17, <3>2 DEF BackClose, Sends
    <3> QED BY <3>1, <3>2
  <2> QED BY <2>1, <2>2, <2>3
<1>20. up'[i] = y /\ back'[i] = b /\ down'[i] = q
  BY <1>11, <1>19
<1>21. /\ Has(q, "completed") /\ ~Has(q, "started") /\ ~Has(q, "refused")
       /\ slots[i].shut => ~Has(q, "close")
       /\ ~slots[i].shut => Has(q, "close")
       /\ Has(q, "fingerprint") <=> Has(q0, "fingerprint")
       /\ Has(q, "credential") <=> Has(q0, "credential")
  BY <1>12, <1>13, <1>18, HasNone
<1>22. Closed(i)' /\ ~Running(i)'
  <2>1. Closed(i)'
    BY <1>5, <1>7, <1>9, <1>13, <1>15, <1>20, <1>21 DEF Closed
  <2> QED BY <1>15, <1>20, <2>1 DEF Running
<1>23. Fresh(i)' /\ Cancelled(i)'
  BY <1>5, <1>6, <1>7, <1>20, <1>21, <1>13 DEF Fresh, Cancelled
<1>24. Handshake(i)'
  BY <1>22, <1>23 DEF Handshake, Phase
<1> QED BY <1>4, <1>10, <1>11, <1>15, <1>18, <1>19, <1>24, BackStep

LEMMA InvBackCompleted ==
  ASSUME IInv, NEW i \in Slots, BackCompleted(i)
  PROVE  IInv'
<1>1. up[i] # <<>> /\ Head(up[i]) = "completed"
  BY DEF BackCompleted
<1>2. UNCHANGED unchangedButBackend
  BY DEF BackCompleted
<1>3. UNCHANGED <<setup, conn, tabs, ses, ui, slots>>
  BY <1>2 DEF unchangedButBackend, sockVars, homeVars
<1>4. /\ up \in [Slots -> UpSeq] /\ down \in [Slots -> Seq(FrameRec)] /\ back \in [Slots -> BackRec]
      /\ ~stray /\ conn = "up" /\ Sorted(down[i]) /\ Handshake(i) /\ down[i] \in Seq(FrameRec)
  BY <1>1, BackFacts
<1>5. back[i].at = "closed"
  BY <1>1, ReadPhase
<1>6. PICK y : y = Tail(up[i])
  OBVIOUS
<1>7. /\ up' = [up EXCEPT ![i] = y] /\ back' = [back EXCEPT ![i] = FreeBack]
      /\ down' = [down EXCEPT ![i] = down[i]] /\ stray' = FALSE
  BY <1>4, <1>5, <1>6 DEF BackCompleted
<1>8. up'[i] = y /\ back'[i] = FreeBack /\ down'[i] = down[i]
  BY <1>4, <1>7
<1>9. FreeBack \in BackRec /\ FreeBack.at = "free"
  BY FreeTyped DEF FreeBack
<1>10. ~Running(i)'
  BY <1>8, <1>9 DEF Running
<1>11. (Fresh(i)' /\ Cancelled(i)') \/ slots'[i].owner = 0
  <2>1. (IsTelnet' <=> IsTelnet) /\ \A v : Going(v)' <=> Going(v)
    BY <1>3, Still
  <2>2. slots[i].owner # 0 => Fresh(i) /\ Cancelled(i)
    BY <1>4 DEF Handshake
  <2> QED BY <1>3, <1>8, <2>1, <2>2 DEF Fresh, Cancelled
<1>12. y \in UpSeq /\ Phase(i)'
  <2>1. CASE Idle(i) /\ up[i] = <<"completed">>
    <3>1. y = <<>>
      BY <1>6, <2>1
    <3>2. Idle(i)'
      BY <1>3, <1>8, <2>1, <3>1 DEF Idle
    <3> QED BY <3>1, <3>2 DEF UpSeq, Phase
  <2>2. CASE Requested(i) /\ up[i] = <<"completed", "initial">>
    <3>1. y = <<"initial">>
      BY <1>6, <2>2
    <3>2. Requested(i)'
      BY <1>3, <1>8, <2>2, <3>1 DEF Requested
    <3>3. <<"initial">> \in UpSeq
      BY DEF UpSeq
    <3> QED BY <3>1, <3>2, <3>3 DEF Phase
  <2>3. CASE Closed(i) /\ slots[i].shut /\ up[i] = <<"completed">>
    <3>1. y = <<>>
      BY <1>6, <2>3
    <3>2. Closed(i)'
      BY <1>3, <1>8, <2>3, <3>1 DEF Closed
    <3> QED BY <3>1, <3>2 DEF UpSeq, Phase
  <2> QED BY <1>1, <2>1, <2>2, <2>3, ReadPhase
<1>13. Handshake(i)'
  BY <1>10, <1>11, <1>12 DEF Handshake
<1> QED BY <1>2, <1>4, <1>7, <1>9, <1>12, <1>13, BackStep

----------------------------------------------------------------------------
(* The socket breaks.                                                       *)

\* Every stream is free and no frame under way.
LEMMA ClearedSlots ==
  ASSUME slots' = [j \in Slots |-> FreeStream], back' = [j \in Slots |-> FreeBack],
         up' = [j \in Slots |-> <<>>], down' = [j \in Slots |-> <<>>], conn' # "up"
  PROVE  /\ \A j \in Slots : SlotInv(j)'
         /\ \A v \in Sessions : ~Owns(v)'
         /\ WireOK' /\ slots' \in [Slots -> SlotRec] /\ back' \in [Slots -> BackRec]
<1>1. ASSUME NEW j \in Slots PROVE SlotInv(j)'
  <2>1. slots'[j] = FreeStream /\ back'[j] = FreeBack /\ up'[j] = <<>> /\ down'[j] = <<>>
    OBVIOUS
  <2>2. Sorted(down[j])'
    BY <2>1, SortedNone
  <2>3. SlotState(j)'
    BY <2>1 DEF SlotState, FreeStream
  <2> QED BY <2>2, <2>3 DEF SlotInv
<1>2. ASSUME NEW v \in Sessions PROVE ~Owns(v)'
  <2>1. \A j \in Slots : slots'[j].owner = 0
    BY DEF FreeStream
  <2> QED BY <2>1, Numbers DEF Owns, Sessions
<1>3. WireOK'
  BY DEF WireOK
<1> QED BY <1>1, <1>2, <1>3, FreeTyped

LEMMA InvCleared ==
  ASSUME IInv, Cleared
  PROVE  IInv'
<1>1. TypeOK /\ WireOK /\ LockState /\ ComponentState /\ Quiet /\ conn = "dying"
  BY DEF IInv, Cleared
<1>2. UNCHANGED <<setup, dials, spent, got, lock, built, tabs, ses, ui, up, down, back, store, stray>>
  BY DEF Cleared
<1>3. conn' = "none" /\ inputting' = FALSE /\ slots' = [j \in Slots |-> FreeStream]
  BY DEF Cleared, AfterCleared
<1>4. \A j \in Slots : SlotState(j) /\ up[j] = <<>> /\ down[j] = <<>> /\ back[j] = FreeBack
  BY <1>1 DEF IInv, SlotInv, SlotState
<1>5. /\ up' = [j \in Slots |-> <<>>] /\ down' = [j \in Slots |-> <<>>] /\ back' = [j \in Slots |-> FreeBack]
      /\ built \in Nat
  <2>1. up \in [Slots -> UpSeq] /\ down \in [Slots -> Seq(FrameRec)] /\ back \in [Slots -> BackRec] /\ built \in Nat
    BY <1>1, Typed, Numbers
  <2> QED BY <1>2, <1>4, <2>1
<1>6. /\ (\A j \in Slots : SlotInv(j)') /\ (\A v \in Sessions : ~Owns(v)')
      /\ WireOK' /\ slots' \in [Slots -> SlotRec]
  BY <1>3, <1>5, ClearedSlots
<1>7. TypeOK' /\ NoStrayFrame'
  <2>1. TypeOK'
    <3>1. conn' \in {"none", "up", "dying"} /\ inputting' \in BOOLEAN
      BY <1>3
    <3> QED BY <1>1, <1>2, <1>6, <3>1 DEF TypeOK, SlotRec
  <2> QED BY <1>2, <2>1 DEF IInv, NoStrayFrame
<1>8. LockState'
  <2>1. got = 0
    BY <1>1, QuietFacts
  <2> QED BY <1>1, <1>2, <1>3, <2>1 DEF LockState
<1>9. ComponentState'
  <2>1. Live(built)' <=> Live(built)
    BY <1>2 DEF Live
  <2>2. CASE ui.w = 0
    BY <1>1, <1>2, <1>3, <2>2 DEF ComponentState
  <2>3. CASE ui.w # 0
    <3>1. ses[built].subs = <<>>
      BY <1>1, <2>3, QuietFacts
    <3> QED BY <1>1, <1>2, <1>3, <2>1, <2>3, <3>1 DEF ComponentState
  <2> QED BY <2>2, <2>3
<1>10. ASSUME NEW v \in Sessions PROVE SessionInv(v)'
  <2>1. /\ (Live(v)' <=> Live(v)) /\ (IsTelnet' <=> IsTelnet) /\ (Dull(v)' <=> Dull(v))
        /\ \A t : AtStep(v, t)' <=> AtStep(v, t)
    BY <1>2 DEF Live, IsTelnet, Dull, AtStep
  <2>2. Live(v) => v = built /\ ui.w = v
    BY <1>1, QuietFacts
  <2>3. SessionInv(v)
    BY DEF IInv
  <2>4. WizardState(v)'
    BY <1>2, <2>1, <2>2, <2>3 DEF SessionInv, WizardState
  <2>5. PromptState(v)' /\ Justified(v)'
    BY <1>2, <2>1, <2>3 DEF SessionInv, PromptState, Justified
  <2>6. Owns(v) => Dull(v)
    <3>1. v # 0
      BY Numbers DEF Sessions
    <3> QED BY <1>1, <1>4, <3>1 DEF Owns, SlotState
  <2>7. SenderState(v)'
    BY <1>2, <1>3, <2>1, <2>3, <2>6 DEF SessionInv, SenderState
  <2> QED BY <2>4, <2>5, <2>7 DEF SessionInv
<1> QED BY <1>6, <1>7, <1>8, <1>9, <1>10 DEF IInv

\* A session whose stream is cleared.
LEMMA ClearedSession ==
  ASSUME IInv, Clear, NEW v \in Sessions, NEW i \in Slots, slots[i].owner = v,
         ses'[v] = Pushed([ses[v] EXCEPT !.sender = "closed"], OnCompleted(slots[i].connected)),
         ~Owns(v)'
  PROVE  /\ ses'[v] \in SesRec /\ ses'[v].at = ses[v].at /\ ses'[v].closed = ses[v].closed
         /\ SessionInv(v)'
<1>1. TypeOK /\ WireOK /\ Quiet /\ conn = "up"
  BY DEF IInv, Clear
<1>2. UNCHANGED <<setup, dials, spent, got, lock, inputting, built, tabs, ui, store, stray>> /\ conn' = "dying"
  BY DEF Clear, homeVars
<1>3. /\ ses[v] \in SesRec /\ slots[i] \in SlotRec /\ built \in Nat
  BY <1>1, Typed, Numbers
<1>4. /\ v # 0 /\ v \in Nat /\ SlotState(i) /\ SessionInv(v) /\ ses[v].subs = <<>> /\ ses[v].slot = i
      /\ ses[v].sender # "none" /\ v <= built
      /\ Live(v) => v = built /\ ui.w = v /\ ~ses[v].closed
  <2>1. v # 0 /\ v \in Nat
    BY Numbers DEF Sessions
  <2>2. SlotState(i) /\ SessionInv(v)
    BY DEF IInv, SlotInv
  <2>3. ses[v].subs = <<>> /\ (Live(v) => v = built /\ ui.w = v /\ ~ses[v].closed)
    BY <1>1, QuietFacts
  <2> QED BY <2>1, <2>2, <2>3 DEF SlotState
<1>5. PICK s : s = [ses[v] EXCEPT !.sender = "closed"]
  OBVIOUS
<1>6. /\ s \in SesRec /\ s.at = ses[v].at /\ s.subs = <<>> /\ s.slot = i /\ s.sender = "closed"
      /\ s.saving = ses[v].saving /\ s.closed = ses[v].closed /\ s.started = ses[v].started
      /\ s.accepted = ses[v].accepted /\ s.known = ses[v].known /\ s.key = ses[v].key /\ s.clicked = ses[v].clicked
  <2>1. ses[v] \in SesRec /\ ses[v].subs = <<>> /\ ses[v].slot = i
    BY <1>3, <1>4
  <2> QED BY <1>5, <2>1 DEF SesRec
<1>7. PICK step : step = OnCompleted(slots[i].connected)
  OBVIOUS
<1>8. "error" \in Steps \ {"initial"} /\ "error" \notin Questions /\ "none" # "error"
  BY StepNames DEF Questions
<1>9. step \in {"none", "error"} /\ (Live(v) /\ ~IsTelnet => step = "error")
  <2>1. slots[i].connected \in BOOLEAN
    BY <1>3 DEF SlotRec
  <2>2. step = IF slots[i].connected \/ IsTelnet THEN "none" ELSE "error"
    BY <1>1, <1>7, <2>1, OutcomeFacts
  <2>3. Live(v) => ~slots[i].connected
    BY <1>4, <<>> # <<"ok">> DEF SlotState
  <2> QED BY <2>2, <2>3
<1>10. PICK r : r = Pushed(s, step)
  OBVIOUS
<1>11. ses'[v] = r
  BY <1>5, <1>7, <1>10
<1>12. /\ r \in SesRec /\ r.at = ses[v].at /\ r.slot = i /\ r.sender = "closed"
       /\ r.saving = ses[v].saving /\ r.closed = ses[v].closed /\ r.started = ses[v].started
       /\ r.accepted = ses[v].accepted /\ r.known = ses[v].known /\ r.key = ses[v].key /\ r.clicked = ses[v].clicked
       /\ (Live(v) /\ step = "error" => r.subs = <<"error">>) /\ (~Live(v) \/ step = "none" => r.subs = <<>>)
  <2>1. s \in SesRec /\ step \in Steps \cup {"none"} /\ s.subs = <<>>
    BY <1>6, <1>8, <1>9
  <2>2. /\ r \in SesRec /\ (step = "none" \/ s.at # "live" => r = s)
        /\ (step # "none" /\ s.at = "live" => r = [s EXCEPT !.subs = <<step>>])
    BY <1>10, <2>1, PushedFacts
  <2>3. CASE Live(v) /\ step = "error"
    <3>1. r = [s EXCEPT !.subs = <<"error">>]
      BY <1>6, <1>8, <2>2, <2>3 DEF Live
    <3>2. /\ r.at = s.at /\ r.slot = s.slot /\ r.sender = s.sender
          /\ r.saving = s.saving /\ r.closed = s.closed /\ r.started = s.started
          /\ r.accepted = s.accepted /\ r.known = s.known /\ r.key = s.key
          /\ r.clicked = s.clicked /\ r.subs = <<"error">>
      BY <2>1, <3>1 DEF SesRec
    <3> QED BY <1>6, <1>8, <2>2, <2>3, <3>2
  <2>4. CASE ~(Live(v) /\ step = "error")
    <3>1. r = s
      BY <1>6, <1>9, <2>2, <2>4 DEF Live
    <3> QED BY <1>6, <2>4, <3>1
  <2> QED BY <2>3, <2>4
<1>13. /\ (Live(v)' <=> Live(v)) /\ (IsTelnet' <=> IsTelnet) /\ Justified(v)'
  BY <1>2, <1>4, <1>11, <1>12 DEF Live, IsTelnet, SessionInv, Justified
<1>14. ses[v].saving = "pending" => ses[v].clicked = "save"
  BY <1>4 DEF SessionInv, SenderState
<1>15. CASE ~Live(v)
  BY <1>2, <1>3, <1>4, <1>11, <1>12, <1>13, <1>14, <1>15, OverSession
<1>16. CASE Live(v) /\ step = "error"
  <2>1. v \notin tabs /\ ses[v].started
    BY <1>4, <1>16 DEF SessionInv, SenderState
  <2>2. /\ v = built' /\ built' \in Nat /\ ui'.w = v /\ ~ses'[v].closed /\ ses'[v].subs = <<"error">>
        /\ ses'[v].sender = "closed" /\ ses'[v].started /\ v \notin tabs'
        /\ (ses'[v].saving = "pending" => ses'[v].clicked = "save")
    BY <1>2, <1>3, <1>4, <1>11, <1>12, <1>14, <1>16, <2>1
  <2>3. SessionInv(v)'
    BY <1>4, <1>8, <1>13, <1>16, <2>2, DueSession
  <2> QED BY <1>11, <1>12, <2>3
<1>17. CASE Live(v) /\ step = "none"
  <2>1. IsTelnet
    BY <1>8, <1>9, <1>17
  <2>2. \A t : AtStep(v, t)' <=> AtStep(v, t)
    BY <1>2, <1>4, <1>11, <1>12, <1>13, <1>17 DEF AtStep
  <2>3. \A t : <<>> # <<t>>
    OBVIOUS
  <2>4. \A q \in Questions : ~AtStep(v, q)
    BY <1>4, <2>1 DEF SessionInv, PromptState
  <2>5. ~AtStep(v, "initial") /\ ses[v].started /\ v \notin tabs
    BY <1>4, <1>17 DEF SessionInv, PromptState, SenderState
  <2>6. WizardState(v)'
    BY <1>2, <1>3, <1>4, <1>11, <1>12, <1>13, <1>17 DEF WizardState
  <2>7. PromptState(v)'
    BY <2>2, <2>4, <2>5 DEF PromptState, Questions
  <2>8. ses[v].saving # "pending"
    BY <1>4, <1>17, <2>3, <2>4 DEF SessionInv, SenderState, Questions
  <2>9. SenderState(v)'
    <3>1. /\ ses'[v].sender = "closed" /\ ses'[v].subs = <<>> /\ ses'[v].started /\ conn' # "up"
          /\ ses'[v].saving # "pending" /\ v \notin tabs'
      BY <1>2, <1>11, <1>12, <1>17, <2>5, <2>8
    <3> QED BY <2>3, <3>1 DEF SenderState
  <2> QED BY <1>11, <1>12, <1>13, <2>6, <2>7, <2>9 DEF SessionInv
<1> QED BY <1>9, <1>11, <1>12, <1>15, <1>16, <1>17

LEMMA InvClear ==
  ASSUME IInv, Clear
  PROVE  IInv'
<1>1. TypeOK /\ WireOK /\ LockState /\ ComponentState /\ Quiet /\ conn = "up"
  BY DEF IInv, Clear
<1>2. UNCHANGED <<setup, dials, spent, got, lock, inputting, built, tabs, ui, store, stray>> /\ conn' = "dying"
  BY DEF Clear, homeVars
<1>3. /\ slots' = [j \in Slots |-> FreeStream] /\ back' = [j \in Slots |-> FreeBack]
      /\ up' = [j \in Slots |-> <<>>] /\ down' = [j \in Slots |-> <<>>]
  BY DEF Clear
<1>4. /\ (\A j \in Slots : SlotInv(j)') /\ (\A v \in Sessions : ~Owns(v)')
      /\ WireOK' /\ slots' \in [Slots -> SlotRec] /\ back' \in [Slots -> BackRec]
  BY <1>2, <1>3, ClearedSlots
<1>5. ASSUME NEW v \in Sessions
      PROVE  /\ ses'[v] \in SesRec /\ ses'[v].at = ses[v].at /\ ses'[v].closed = ses[v].closed
             /\ SessionInv(v)'
  <2>1. CASE \E i \in Slots : slots[i].owner = v
    <3>1. PICK i \in Slots : slots[i].owner = v
      BY <2>1
    <3>2. ses[v].slot = i
      BY <3>1, OwnSlot
    <3>3. ses'[v] = Pushed([ses[v] EXCEPT !.sender = "closed"], OnCompleted(slots[i].connected))
      BY <2>1, <3>2 DEF Clear
    <3> QED BY <1>4, <3>1, <3>3, ClearedSession
  <2>2. CASE ~\E i \in Slots : slots[i].owner = v
    <3>1. ses'[v] = ses[v] /\ ses[v] \in SesRec
      BY <1>1, <2>2, Typed DEF Clear
    <3>2. ~Owns(v) /\ ~Owns(v)' /\ SessionInv(v)
      BY <1>4, <2>2 DEF Owns, IInv
    <3>3. /\ (Live(v)' <=> Live(v)) /\ (IsTelnet' <=> IsTelnet) /\ (Dull(v)' <=> Dull(v))
          /\ \A t : AtStep(v, t)' <=> AtStep(v, t)
      BY <1>2, <3>1 DEF Live, IsTelnet, Dull, AtStep
    <3>4. WizardState(v)'
      BY <1>2, <3>1, <3>2, <3>3 DEF SessionInv, WizardState
    <3>5. PromptState(v)' /\ Justified(v)'
      BY <1>2, <3>1, <3>2, <3>3 DEF SessionInv, PromptState, Justified
    <3>6. SenderState(v)'
      BY <1>2, <3>1, <3>2, <3>3 DEF SessionInv, SenderState
    <3> QED BY <3>1, <3>4, <3>5, <3>6 DEF SessionInv
  <2> QED BY <2>1, <2>2
<1>6. ses' \in [Sessions -> SesRec]
  <2>1. DOMAIN ses' = Sessions /\ ses' = [v \in Sessions |-> ses'[v]]
    BY DEF Clear
  <2> QED BY <1>5, <2>1
<1>7. TypeOK' /\ NoStrayFrame'
  <2>1. TypeOK'
    BY <1>1, <1>2, <1>4, <1>6 DEF TypeOK, SesRec, SlotRec, BackRec
  <2> QED BY <1>2, <2>1 DEF IInv, NoStrayFrame
<1>8. LockState'
  BY <1>1, <1>2 DEF LockState
<1>9. ComponentState'
  <2>1. CASE ui.w = 0
    <3>1. ~inputting
      BY <1>1, <2>1, QuietFacts
    <3> QED BY <1>1, <1>2, <2>1, <3>1 DEF ComponentState
  <2>2. CASE ui.w # 0
    <3>1. built \in Sessions /\ ui.mounted /\ inputting /\ ui.w = built
      BY <1>1, <2>2, QuietFacts
    <3>2. ses'[built].at = ses[built].at /\ ses'[built].closed = ses[built].closed /\ (Live(built)' <=> Live(built))
      BY <1>2, <1>5, <3>1 DEF Live
    <3>3. ses[built].subs = <<>>
      BY <1>1, <3>1, QuietFacts
    <3>4. ~(Live(built) /\ ui.cur = "empty")
      BY <1>1, <2>2, <3>3 DEF ComponentState
    <3> QED BY <1>1, <1>2, <2>2, <3>1, <3>2, <3>4 DEF ComponentState
  <2> QED BY <2>1, <2>2
<1> QED BY <1>4, <1>5, <1>7, <1>8, <1>9 DEF IInv

----------------------------------------------------------------------------
(* The invariant.                                                           *)

LEMMA InvInit ==
  ASSUME Init
  PROVE  IInv
<1>1. /\ NumSlots \in Nat \ {0} /\ MaxSessions \in Nat /\ "none" \notin Keys
  BY WizardAssumption DEF WizardAssumption
<1>2. /\ ses \in [Sessions -> SesRec] /\ slots \in [Slots -> SlotRec] /\ back \in [Slots -> BackRec]
      /\ (\A v \in Sessions : ses[v] = NoSession)
      /\ (\A j \in Slots : slots[j] = FreeStream /\ back[j] = FreeBack /\ up[j] = <<>> /\ down[j] = <<>>)
  BY NoSessionTyped, FreeTyped DEF Init
<1>3. ui \in UiRec /\ ui = NoUi /\ ui.w = 0
  BY <1>1 DEF Init, NoUi, UiRec
<1>4. store \in Keys \cup {"none"}
  <2>1. CASE setup.how \in {"prompted", "preset"} /\ ~IsTelnet /\ store = SomeKey
    <3>1. PICK k : k = SomeKey
      OBVIOUS
    <3>2. CASE Keys = {}
      BY <2>1, <3>2 DEF SomeKey
    <3>3. CASE Keys # {}
      BY <2>1, <3>3 DEF SomeKey
    <3> QED BY <3>2, <3>3
  <2> QED BY <2>1 DEF Init
<1>5. TypeOK
  <2>1. /\ setup \in Setups /\ conn = "none" /\ dials = 0 /\ spent = 0 /\ got = 0 /\ lock = FALSE
        /\ inputting = FALSE /\ built = 0 /\ tabs = {} /\ stray = FALSE
    BY DEF Init
  <2> QED BY <1>1, <1>2, <1>3, <1>4, <2>1 DEF TypeOK, SesRec, UiRec, SlotRec, BackRec
<1>6. WireOK
  BY DEF Init, WireOK
<1>7. LockState
  BY <1>1, <1>3 DEF Init, LockState
<1>8. ComponentState
  BY <1>3 DEF Init, ComponentState
<1>9. ASSUME NEW v \in Sessions PROVE SessionInv(v)
  <2>1. ses[v] = NoSession /\ ~Live(v) /\ v > built /\ v \notin tabs
    BY <1>1, <1>2 DEF Init, Live, NoSession, Sessions
  <2>2. \A t : <<>> # <<t>>
    OBVIOUS
  <2>3. \A t : ~AtStep(v, t)
    BY <2>1 DEF AtStep
  <2>4. /\ ses[v].subs = <<>> /\ ses[v].sender = "none" /\ ses[v].slot = NumSlots
        /\ ~ses[v].accepted /\ ses[v].saving = "no"
    BY <2>1 DEF NoSession
  <2>5. WizardState(v) /\ PromptState(v) /\ Justified(v)
    BY <2>1, <2>3, <2>4 DEF WizardState, PromptState, Justified
  <2>6. SenderState(v)
    BY <2>1, <2>2, <2>3, <2>4 DEF SenderState, Dull, Going
  <2> QED BY <2>5, <2>6 DEF SessionInv
<1>10. ASSUME NEW j \in Slots PROVE SlotInv(j)
  <2>1. slots[j] = FreeStream /\ back[j] = FreeBack /\ up[j] = <<>> /\ down[j] = <<>> /\ conn = "none"
    BY <1>2 DEF Init
  <2>2. SlotState(j)
    BY <2>1 DEF SlotState, FreeStream
  <2> QED BY <2>1, <2>2, SortedNone DEF SlotInv
<1> QED BY <1>5, <1>6, <1>7, <1>8, <1>9, <1>10 DEF IInv, Init, NoStrayFrame

LEMMA InvUnchanged ==
  ASSUME IInv, UNCHANGED vars
  PROVE  IInv'
<1>1. UNCHANGED <<setup, conn, dials, spent, got, lock, inputting, built, tabs, ses, ui, slots, up, down,
                  back, store, stray>>
  BY DEF vars, sockVars, homeVars, wireVars
<1>2. TypeOK' /\ WireOK' /\ LockState' /\ ComponentState' /\ NoStrayFrame'
  <2>1. TypeOK'
    BY <1>1 DEF IInv, TypeOK
  <2>2. WireOK'
    BY <1>1 DEF IInv, WireOK
  <2>3. LockState'
    BY <1>1 DEF IInv, LockState
  <2>4. ComponentState'
    BY <1>1 DEF IInv, ComponentState, Live
  <2>5. NoStrayFrame'
    BY <1>1 DEF IInv, NoStrayFrame
  <2> QED BY <2>1, <2>2, <2>3, <2>4, <2>5
<1>3. built' \in Nat /\ built' >= built
  BY <1>1, Typed, Numbers DEF IInv
<1>4. ASSUME NEW v \in Sessions PROVE SessionInv(v)'
  <2>1. TypeOK /\ WireOK /\ SessionInv(v) /\ (Owns(v) => Owns(v)')
    BY <1>1 DEF IInv, Owns
  <2> QED BY <1>1, <1>3, <2>1, SessionKept
<1>5. ASSUME NEW j \in Slots PROVE SlotInv(j)'
  BY <1>1, <1>3, SlotUntouched
<1> QED BY <1>2, <1>4, <1>5 DEF IInv

LEMMA InvNext ==
  ASSUME IInv, [Next]_vars
  PROVE  IInv'
<1>1. CASE UNCHANGED vars
  BY <1>1, InvUnchanged
<1>2. CASE Continuation
  BY <1>2, InvRunCallback, InvMount, InvLoopTurn, InvLeave, InvUnmount, InvForget DEF Continuation
<1>3. CASE User
  <2>1. ASSUME NEW go \in BOOLEAN, Answer(go) PROVE IInv'
    BY <2>1, InvAnswer
  <2>2. ASSUME NEW w \in Sessions, CloseTab(w) PROVE IInv'
    BY <2>2, InvCloseTab
  <2> QED BY <1>3, <2>1, <2>2, InvRunConnect, InvSubmitInitial, InvSave, InvCancel DEF User
<1>4. CASE DialDone \/ DialFailed \/ Clear \/ Cleared
  BY <1>4, InvDialDone, InvDialFailed, InvClear, InvCleared
<1>5. ASSUME NEW w \in Sessions, SaveDone(w) \/ SaveFailed(w) PROVE IInv'
  BY <1>5, InvSaveDone, InvSaveFailed
<1>6. ASSUME NEW i \in Slots, Receive(i) PROVE IInv'
  BY <1>6, InvReceiveInitial, InvReceiveTick, InvReceiveClose, InvReceiveCompleted DEF Receive
<1>7. ASSUME NEW i \in Slots, Backend(i) PROVE IInv'
  BY <1>7, InvBackBoot, InvBackHook, InvBackAsk, InvBackConnected, InvBackFailed, InvBackEnded,
     InvBackAnswered, InvBackClose, InvBackCompleted DEF Backend, BackReads
<1> QED BY <1>1, <1>2, <1>3, <1>4, <1>5, <1>6, <1>7 DEF Next

\* The inductive invariant holds in every reachable state.
LEMMA Invariant == Spec => []IInv
<1>1. Init => IInv
  BY InvInit
<1>2. IInv /\ [Next]_vars => IInv'
  BY InvNext
<1> QED BY <1>1, <1>2, PTL DEF Spec

----------------------------------------------------------------------------
(* What follows from it.                                                    *)

\* Every variable keeps its type: slots, wizards, screens and frames are among
\* those the browser and the backend know.
THEOREM TypeCorrect == Spec => []TypeOK
<1>1. IInv => TypeOK
  BY DEF IInv
<1> QED BY <1>1, Invariant, PTL

\* Every frame of the browser finds a backend that waits for it: no answer is
\* sent twice, to a question that was not asked, or to the next command on the
\* slot, however clicks, saves, failures and closes interleave (Control and
\* sender of a command, streams.js).
THEOREM AnswersFindTheirQuestion == Spec => []NoStrayFrame
<1>1. IInv => NoStrayFrame
  BY DEF IInv
<1> QED BY <1>1, Invariant, PTL

\* A host key is accepted because it is the recorded one, because the user chose
\* "Continue", or because "Save" has recorded it (stepFingerprintPrompt).
THEOREM AcceptedForAReason == Spec => []AcceptIsJustified
<1>1. IInv => AcceptIsJustified
  BY DEF IInv, SessionInv, Justified, AcceptIsJustified
<1> QED BY <1>1, Invariant, PTL

\* No combination of failures, closes and clicks leaves the user in a connector
\* without a button that works (connector.vue).
THEOREM NobodyIsLockedIn == Spec => []EveryScreenHasAWayOut
<1>1. IInv => EveryScreenHasAWayOut
  <2> SUFFICES ASSUME IInv, Quiet, ui.mounted
      PROVE  \/ MaySubmit \/ (CancelEnabled /\ (Cancellable \/ ~ui.working))
             \/ ses[ui.w].saving = "pending"
             \/ ui.cur = "wait" /\ (conn = "dying" \/ \E i \in Slots : slots[i].owner = ui.w)
    BY DEF EveryScreenHasAWayOut
  <2>1. TypeOK /\ WireOK /\ LockState /\ ComponentState /\ ui \in UiRec /\ conn \in {"none", "up", "dying"}
    BY Typed DEF IInv, TypeOK
  <2>2. ui.w # 0 /\ ui.w \in Sessions /\ ui.w = built /\ inputting
    BY EndedFacts, QuietFacts
  <2>3. PICK w \in Sessions : w = ui.w /\ w = built
    BY <2>2
  <2>4. CASE ~Live(w)
    <3>1. ui.loop = "ended" /\ ui.cur \in Outcomes /\ ~ui.submitting /\ ~ui.working /\ ui.disabled
      BY <2>1, <2>2, <2>3, <2>4 DEF ComponentState
    <3>2. ~ui.leaving
      BY <3>1 DEF Quiet, LeaveDue
    <3>3. ~ui.cancelled
      BY <2>1, <2>2, <3>2 DEF ComponentState
    <3>4. ui.cur # "empty"
      BY <3>1 DEF Outcomes
    <3> QED BY <3>1, <3>3, <3>4 DEF CancelEnabled, ShowCancelButton
  <2>5. CASE Live(w)
    <3>1. ses[w].subs = <<>> /\ ~ui.disabled /\ ui.cur \in Steps \ Outcomes
      BY <2>3, <2>5, QuietFacts
    <3>2. AtStep(w, ui.cur) /\ PromptState(w) /\ SenderState(w)
      BY <2>3, <2>5, <3>1 DEF AtStep, IInv, SessionInv
    <3>3. CASE ui.cur = "initial"
      BY <3>1, <3>2, <3>3, StepNames DEF PromptState, MaySubmit, Submittable
    <3>4. CASE ui.cur = "credential"
      BY <3>1, <3>2, <3>4, StepNames DEF PromptState, MaySubmit, Submittable
    <3>5. CASE ui.cur = "fingerprint"
      BY <2>3, <3>1, <3>2, <3>5, StepNames DEF PromptState, MaySubmit, Submittable
    <3>6. CASE ui.cur = "wait"
      <4>1. ses[w].sender # "none" /\ conn # "none"
        BY <2>1, <2>2, <3>2, <3>6 DEF SenderState, LockState
      <4>2. Going(w)
        BY <2>5, <3>1, <<>> # <<"error">> DEF Going
      <4>3. conn = "up" => Owns(w)
        BY <3>2, <4>1, <4>2 DEF SenderState
      <4> QED BY <2>1, <2>3, <3>6, <4>1, <4>3 DEF Owns
    <3> QED BY <3>1, <3>3, <3>4, <3>5, <3>6, StepNames DEF Outcomes
  <2> QED BY <2>4, <2>5
<1> QED BY <1>1, Invariant, PTL

\* An established session is in a tab, is being closed, or its success is about
\* to be shown (the success event of connector.vue and its listeners).
THEOREM NoSessionUnseen == Spec => []NoOrphan
<1>1. IInv => NoOrphan
  <2> SUFFICES ASSUME IInv, NEW i \in Slots, slots[i].connected, NEW w, w = slots[i].owner,
                      w \notin tabs, ses[w].sender # "closed"
      PROVE  w = ui.w /\ "ok" \in {ses[w].subs[j] : j \in DOMAIN ses[w].subs}
    BY DEF NoOrphan
  <2>1. SlotState(i)
    BY DEF IInv, SlotInv
  <2>2. ui.w = w /\ ses[w].subs = <<"ok">>
    BY <2>1 DEF SlotState
  <2>3. 1 \in DOMAIN <<"ok">> /\ <<"ok">>[1] = "ok"
    OBVIOUS
  <2> QED BY <2>2, <2>3
<1> QED BY <1>1, Invariant, PTL

\* A wizard without an outcome is the one in the window, whatever was clicked
\* while the socket was being dialed (home.vue, connector.acquired and busy).
THEOREM OneWizardAtATime == Spec => []OneWizard
<1>1. IInv => OneWizard
  BY DEF IInv, SessionInv, WizardState, Live, OneWizard
<1> QED BY <1>1, Invariant, PTL
===============================================================================
