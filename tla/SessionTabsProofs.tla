--------------------------- MODULE SessionTabsProofs ---------------------------
(***************************************************************************)
(* Proofs about SessionTabs, for any number of sessions and any amount of  *)
(* output, as long as one tab at a time is being closed.                   *)
(***************************************************************************)
EXTENDS SessionTabs, SequenceTheorems, TLAPS

USE TabsAssumption

Tab == [id : Sessions, closing : BOOLEAN, message : Texts,
        level : {"", "warning", "error"}, updated : BOOLEAN]
Close == [id : Sessions, at : Nat]

TabsTyped ==
  opened \in 0 .. MaxSessions /\ current \in Nat /\ tabs \in Seq(Tab) /\ closes \in Seq(Close)
NetTyped ==
  /\ conn \in BOOLEAN /\ net \in [Sessions -> {"none", "live", "leaving", "left", "over"}]
  /\ subs \in [Sessions -> Seq(0 .. MaxData)] /\ received \in [Sessions -> 0 .. MaxData]
ConsoleTyped ==
  /\ term \in [Sessions -> {"none", "loading", "open", "gone"}]
  /\ font \in [Sessions -> {"asked", "fallback", "loaded"}]
  /\ runner \in [Sessions -> {"none", "waiting", "ended"}]
  /\ written \in [Sessions -> Seq(1 .. MaxData)]

\* A session has one tab, opened in its turn.
OneTab ==
  /\ \A i, j \in 1 .. Len(tabs) : tabs[i].id = tabs[j].id => i = j
  /\ \A i \in 1 .. Len(tabs) : tabs[i].id <= opened

HasTab(s) == \E i \in 1 .. Len(tabs) : tabs[i].id = s

\* A live session and a mounted console are in the tabs, a console that is gone is
\* not; loops and fonts belong to a console that has been opened.
Mounted ==
  \A s \in Sessions :
    /\ net[s] = "live" \/ term[s] \in {"loading", "open"} => HasTab(s)
    /\ HasTab(s) => term[s] # "gone"
    /\ runner[s] # "none" => term[s] \in {"open", "gone"}
    /\ font[s] = "fallback" => term[s] \in {"open", "gone"}

\* A session that has not connected has neither a stream nor a console.
Unopened == \A s \in Sessions : s > opened => net[s] = "none" /\ term[s] = "none"

\* The one close under way still points at the tab it was asked for, and that
\* tab's session is no longer live.
Pointed ==
  /\ Len(closes) <= 1
  /\ closes # <<>> =>
       /\ closes[1].at \in 1 .. Len(tabs)
       /\ tabs[closes[1].at].id = closes[1].id
       /\ net[closes[1].id] # "live"

CurrentPoints == IF Len(tabs) = 0 THEN current = 0 ELSE current \in 1 .. Len(tabs)

\* The inductive invariant: types, and how tabs, sessions and consoles belong
\* together.
Typed == TabsTyped /\ NetTyped /\ ConsoleTyped
Struct == OneTab /\ Mounted /\ Unopened /\ Pointed /\ CurrentPoints
IInv == Typed /\ Struct

LEMMA TypesAreTypeOK == Typed <=> TypeOK
  BY DEF Typed, TabsTyped, NetTyped, ConsoleTyped, TypeOK, Tab, Close

\* The same sessions at the same positions.
SameTabs(t) ==
  /\ t \in Seq(Tab) /\ Len(t) = Len(tabs)
  /\ \A i \in 1 .. Len(tabs) : t[i].id = tabs[i].id

LEMMA PositionsAre == ASSUME TabsTyped PROVE Positions = 1 .. Len(tabs) /\ Len(tabs) \in Nat
  BY LenProperties DEF TabsTyped, Positions

LEMMA ListedAre == ASSUME TabsTyped, NEW s PROVE s \in Listed <=> HasTab(s)
  BY PositionsAre DEF Listed, HasTab

LEMMA AtIs == ASSUME TabsTyped, NEW s, HasTab(s) PROVE At(s) \in 1 .. Len(tabs) /\ tabs[At(s)].id = s
  BY PositionsAre DEF At, HasTab

\* What removing one element leaves.
LEMMA Removed ==
  ASSUME NEW S, NEW q \in Seq(S), NEW i \in 1 .. Len(q)
  PROVE  /\ RemoveAt(q, i) \in Seq(S) /\ Len(RemoveAt(q, i)) = Len(q) - 1
         /\ \A j \in 1 .. Len(q) - 1 : RemoveAt(q, i)[j] = IF j < i THEN q[j] ELSE q[j + 1]
<1> DEFINE a == SubSeq(q, 1, i - 1)
           b == SubSeq(q, i + 1, Len(q))
<1>0. Len(q) \in Nat /\ \A j \in 1 .. Len(q) : q[j] \in S
  BY LenProperties, ElementOfSeq
<1>1. a \in Seq(S) /\ Len(a) = i - 1 /\ \A j \in 1 .. i - 1 : a[j] = q[j]
  <2>1. \A j \in 1 .. i - 1 : q[j] \in S
    BY <1>0
  <2>2. /\ a \in Seq(S) /\ Len(a) = (IF 1 <= i - 1 THEN (i - 1) - 1 + 1 ELSE 0)
        /\ \A j \in 1 .. (i - 1) - 1 + 1 : a[j] = q[1 + j - 1]
    BY <2>1, <1>0, SubSeqProperties
  <2> QED BY <2>2, <1>0
<1>2. b \in Seq(S) /\ Len(b) = Len(q) - i /\ \A j \in 1 .. Len(q) - i : b[j] = q[i + j]
  <2>1. \A j \in i + 1 .. Len(q) : q[j] \in S
    BY <1>0
  <2>2. /\ b \in Seq(S) /\ Len(b) = (IF i + 1 <= Len(q) THEN Len(q) - (i + 1) + 1 ELSE 0)
        /\ \A j \in 1 .. Len(q) - (i + 1) + 1 : b[j] = q[(i + 1) + j - 1]
    BY <2>1, <1>0, SubSeqProperties
  <2> QED BY <2>2, <1>0
<1> HIDE DEF a, b
<1>3. /\ a \o b \in Seq(S) /\ Len(a \o b) = Len(a) + Len(b)
      /\ \A j \in 1 .. Len(a) + Len(b) : (a \o b)[j] = IF j <= Len(a) THEN a[j] ELSE b[j - Len(a)]
  BY <1>1, <1>2, ConcatProperties
<1>4. RemoveAt(q, i) = a \o b
  BY DEF RemoveAt, a, b
<1>5. \A j \in 1 .. Len(q) - 1 : (a \o b)[j] = IF j < i THEN q[j] ELSE q[j + 1]
  <2> SUFFICES ASSUME NEW j \in 1 .. Len(q) - 1
               PROVE (a \o b)[j] = IF j < i THEN q[j] ELSE q[j + 1]
    OBVIOUS
  <2>1. CASE j < i
    BY <2>1, <1>0, <1>1, <1>2, <1>3
  <2>2. CASE ~(j < i)
    <3>1. (a \o b)[j] = b[j - (i - 1)] /\ j - (i - 1) \in 1 .. Len(q) - i
      BY <2>2, <1>0, <1>1, <1>2, <1>3
    <3> QED BY <3>1, <2>2, <1>0, <1>2
  <2> QED BY <2>1, <2>2
<1> QED BY <1>0, <1>1, <1>2, <1>3, <1>4, <1>5

----------------------------------------------------------------------------
(* Changes of the tabs.                                                     *)

\* Replacing a tab by one of the same session.
LEMMA Replaced ==
  ASSUME TabsTyped, NEW i \in 1 .. Len(tabs), NEW r \in Tab, r.id = tabs[i].id
  PROVE  SameTabs([tabs EXCEPT ![i] = r])
  BY ExceptSeq, LenProperties DEF SameTabs, TabsTyped

LEMMA NotedSame ==
  ASSUME TabsTyped, NEW s, HasTab(s), NEW text \in Texts, NEW level \in {"", "warning", "error"}
  PROVE  SameTabs(Noted(s, text, level))
<1> DEFINE i == At(s)
           r == [tabs[i] EXCEPT !.message = text, !.level = level]
<1>1. i \in 1 .. Len(tabs) /\ tabs[i] \in Tab
  BY AtIs, ElementOfSeq DEF TabsTyped
<1>2. r \in Tab /\ r.id = tabs[i].id
  BY <1>1 DEF Tab
<1>3. tabs \in Seq(Tab)
  BY DEF TabsTyped
<1> HIDE DEF i
<1>4. Noted(s, text, level) = [tabs EXCEPT ![i] = r]
  BY <1>1, <1>3, LenProperties DEF Noted, Tab, i
<1> QED BY <1>1, <1>2, <1>4, Replaced

LEMMA MarkedSame ==
  ASSUME TabsTyped, NEW i \in 1 .. Len(tabs), NEW b \in BOOLEAN
  PROVE  SameTabs([tabs EXCEPT ![i].updated = b]) /\ SameTabs([tabs EXCEPT ![i].closing = b])
<1>1. tabs[i] \in Tab
  BY ElementOfSeq DEF TabsTyped
<1>2. /\ [tabs[i] EXCEPT !.updated = b] \in Tab /\ [tabs[i] EXCEPT !.updated = b].id = tabs[i].id
      /\ [tabs[i] EXCEPT !.closing = b] \in Tab /\ [tabs[i] EXCEPT !.closing = b].id = tabs[i].id
  BY <1>1 DEF Tab
<1>3. /\ [tabs EXCEPT ![i].updated = b] = [tabs EXCEPT ![i] = [tabs[i] EXCEPT !.updated = b]]
      /\ [tabs EXCEPT ![i].closing = b] = [tabs EXCEPT ![i] = [tabs[i] EXCEPT !.closing = b]]
  OBVIOUS
<1> QED BY <1>2, <1>3, Replaced

LEMMA ShownSame ==
  ASSUME TabsTyped, NEW s, HasTab(s)
  PROVE  /\ SameTabs(tabs) /\ SameTabs(Stopped(s)) /\ SameTabs(Updated(s))
         /\ SameTabs(Noted(s, "font", "warning")) /\ SameTabs(Dismissed(s, "font", "warning"))
<1>1. SameTabs(tabs)
  BY DEF SameTabs, TabsTyped
<1>2. SameTabs(Updated(s))
  BY AtIs, MarkedSame DEF Updated
<1>3. SameTabs(Stopped(s)) /\ SameTabs(Noted(s, "font", "warning")) /\ SameTabs(Noted(s, "", ""))
  BY NotedSame DEF Stopped, Texts
<1> QED BY <1>1, <1>2, <1>3 DEF Dismissed

\* An action that leaves the sessions of the tabs, the current one and the close
\* under way alone, and opens no session, keeps the structure.
LEMMA StructKept ==
  ASSUME Typed, Struct, SameTabs(tabs'), UNCHANGED <<opened, current, closes>>,
         \A s \in Sessions :
           /\ net'[s] = "live" => net[s] = "live"
           /\ net[s] = "none" => net'[s] = "none"
           /\ term'[s] \in {"loading", "open"} => term[s] \in {"loading", "open"}
           /\ runner'[s] # "none" => term'[s] \in {"open", "gone"}
           /\ font'[s] = "fallback" => term'[s] \in {"open", "gone"}
           /\ term[s] = "none" => term'[s] = "none"
           /\ term'[s] = "gone" => term[s] = "gone"
  PROVE  Struct'
<1>1. Len(tabs) \in Nat /\ Len(tabs') = Len(tabs) /\ \A i \in 1 .. Len(tabs) : tabs'[i].id = tabs[i].id
  BY PositionsAre DEF Typed, SameTabs
<1>2. OneTab'
  BY <1>1 DEF Struct, OneTab
<1>3. Mounted'
  BY <1>1 DEF Struct, Mounted, HasTab
<1>4. Pointed'
  <2>1. closes # <<>> => closes[1].id \in Sessions
    <3>1. closes # <<>> => Len(closes) \in Nat \ {0}
      BY EmptySeq DEF Typed, TabsTyped
    <3>2. closes # <<>> => closes[1] \in Close
      BY <3>1, ElementOfSeq DEF Typed, TabsTyped
    <3> QED BY <3>2 DEF Close
  <2> QED BY <1>1, <2>1 DEF Struct, Pointed
<1>5. CurrentPoints'
  BY <1>1 DEF Struct, CurrentPoints
<1>6. Unopened'
  BY DEF Struct, Unopened
<1> QED BY <1>2, <1>3, <1>4, <1>5, <1>6 DEF Struct

\* removeFromTab of a tab whose session is not live, with no close under way
\* afterwards.
LEMMA StructRemoved ==
  ASSUME Typed, Struct, NEW i \in 1 .. Len(tabs), net[tabs[i].id] # "live",
         RemoveFromTab(i), closes' = <<>>, UNCHANGED <<opened, net, font, runner, written>>
  PROVE  Struct' /\ TabsTyped' /\ ConsoleTyped'
<1>1. Len(tabs) \in Nat /\ Positions = 1 .. Len(tabs) /\ tabs \in Seq(Tab)
  BY PositionsAre DEF Typed, TabsTyped
<1>2. /\ tabs' = RemoveAt(tabs, i) /\ term' = [term EXCEPT ![tabs[i].id] = "gone"]
      /\ current' = (IF i = Len(tabs) THEN Len(tabs) - 1 ELSE i)
  BY <1>1 DEF RemoveFromTab, NextCurrent
<1>3. /\ tabs' \in Seq(Tab) /\ Len(tabs') = Len(tabs) - 1
      /\ \A j \in 1 .. Len(tabs) - 1 : tabs'[j] = IF j < i THEN tabs[j] ELSE tabs[j + 1]
  BY <1>1, <1>2, Removed
<1>4. tabs[i].id \in Sessions
  <2>1. tabs[i] \in Tab
    BY <1>1, ElementOfSeq
  <2> QED BY <2>1 DEF Tab
<1>5. TabsTyped'
  <2>1. closes' \in Seq(Close) /\ current' \in Nat /\ opened' \in 0 .. MaxSessions
    BY <1>1, <1>2, EmptySeq DEF Typed, TabsTyped
  <2> QED BY <2>1, <1>3 DEF TabsTyped
<1>6. ConsoleTyped'
  <2>1. term' \in [Sessions -> {"none", "loading", "open", "gone"}]
    BY <1>2 DEF Typed, ConsoleTyped
  <2> QED BY <2>1 DEF Typed, ConsoleTyped
<1>7. OneTab'
  <2> DEFINE old(j) == IF j < i THEN j ELSE j + 1
  <2>1. \A j \in 1 .. Len(tabs) - 1 : old(j) \in 1 .. Len(tabs) /\ tabs'[j] = tabs[old(j)]
    BY <1>1, <1>3
  <2>2. \A j, k \in 1 .. Len(tabs) - 1 : old(j) = old(k) => j = k
    BY <1>1
  <2> HIDE DEF old
  <2>3. \A m, n \in 1 .. Len(tabs) : tabs[m].id = tabs[n].id => m = n
    BY DEF Struct, OneTab
  <2>4. \A m \in 1 .. Len(tabs) : tabs[m].id <= opened
    BY DEF Struct, OneTab
  <2>5. \A j, k \in 1 .. Len(tabs) - 1 : tabs'[j].id = tabs'[k].id => j = k
    <3> SUFFICES ASSUME NEW j \in 1 .. Len(tabs) - 1, NEW k \in 1 .. Len(tabs) - 1,
                        tabs'[j].id = tabs'[k].id
                 PROVE j = k
      OBVIOUS
    <3>1. tabs[old(j)].id = tabs[old(k)].id /\ old(j) \in 1 .. Len(tabs) /\ old(k) \in 1 .. Len(tabs)
      BY <2>1
    <3>2. old(j) = old(k)
      BY <3>1, <2>3
    <3> QED BY <3>2, <2>2
  <2>6. \A j \in 1 .. Len(tabs) - 1 : tabs'[j].id <= opened
    <3> SUFFICES ASSUME NEW j \in 1 .. Len(tabs) - 1 PROVE tabs'[j].id <= opened
      OBVIOUS
    <3>1. tabs'[j] = tabs[old(j)] /\ old(j) \in 1 .. Len(tabs)
      BY <2>1
    <3> QED BY <3>1, <2>4
  <2> QED BY <2>5, <2>6, <1>3 DEF OneTab
<1>8. Mounted'
  <2> SUFFICES ASSUME NEW s \in Sessions
               PROVE /\ net'[s] = "live" \/ term'[s] \in {"loading", "open"} => HasTab(s)'
                     /\ HasTab(s)' => term'[s] # "gone"
                     /\ runner'[s] # "none" => term'[s] \in {"open", "gone"}
                     /\ font'[s] = "fallback" => term'[s] \in {"open", "gone"}
    BY DEF Mounted
  <2>1. term'[s] = IF s = tabs[i].id THEN "gone" ELSE term[s]
    BY <1>2, <1>4 DEF Typed, ConsoleTyped
  <2>2. /\ net[s] = "live" \/ term[s] \in {"loading", "open"} => HasTab(s)
        /\ HasTab(s) => term[s] # "gone"
        /\ runner[s] # "none" => term[s] \in {"open", "gone"}
        /\ font[s] = "fallback" => term[s] \in {"open", "gone"}
    BY DEF Struct, Mounted
  <2>3. HasTab(s) /\ s # tabs[i].id => HasTab(s)'
    <3> SUFFICES ASSUME NEW j \in 1 .. Len(tabs), tabs[j].id = s, j # i PROVE HasTab(s)'
      BY DEF HasTab
    <3>1. CASE j < i
      BY <3>1, <1>1, <1>3 DEF HasTab
    <3>2. CASE j > i
      <4>1. j - 1 \in 1 .. Len(tabs) - 1 /\ tabs'[j - 1] = tabs[j]
        BY <3>2, <1>1, <1>3
      <4> QED BY <4>1, <1>3 DEF HasTab
    <3> QED BY <3>1, <3>2, <1>1
  <2>4. HasTab(s)' => HasTab(s) /\ s # tabs[i].id
    <3> SUFFICES ASSUME NEW j \in 1 .. Len(tabs) - 1, tabs'[j].id = s
                 PROVE  HasTab(s) /\ s # tabs[i].id
      BY <1>3 DEF HasTab
    <3>1. PICK k \in 1 .. Len(tabs) : k # i /\ tabs'[j] = tabs[k]
      <4>1. CASE j < i
        BY <4>1, <1>1, <1>3
      <4>2. CASE ~(j < i)
        <5>1. j + 1 \in 1 .. Len(tabs) /\ j + 1 # i /\ tabs'[j] = tabs[j + 1]
          BY <4>2, <1>1, <1>3
        <5> QED BY <5>1
      <4> QED BY <4>1, <4>2
    <3> QED BY <3>1 DEF HasTab, Struct, OneTab
  <2> QED BY <2>1, <2>2, <2>3, <2>4
<1>9. Pointed'
  BY EmptySeq DEF Pointed
<1>10. CurrentPoints'
  <2>1. CASE i = Len(tabs)
    BY <2>1, <1>1, <1>2, <1>3 DEF CurrentPoints
  <2>2. CASE i < Len(tabs)
    BY <2>2, <1>1, <1>2, <1>3 DEF CurrentPoints
  <2> QED BY <2>1, <2>2, <1>1
<1>11. Unopened'
  <2>1. tabs[i].id <= opened
    BY DEF Struct, OneTab
  <2>2. opened \in Nat
    BY DEF Typed, TabsTyped
  <2> QED BY <2>1, <2>2, <1>2, <1>4 DEF Struct, Unopened, Typed, ConsoleTyped, Sessions
<1> QED BY <1>5, <1>6, <1>7, <1>8, <1>9, <1>10, <1>11 DEF Struct

----------------------------------------------------------------------------
(* The actions.                                                             *)

LEMMA InitInv == Init => IInv
<1> SUFFICES ASSUME Init PROVE IInv
  OBVIOUS
<1>1. TabsTyped
  BY EmptySeq DEF Init, TabsTyped
<1>2. NetTyped
  BY EmptySeq DEF Init, NetTyped
<1>3. ConsoleTyped
  BY EmptySeq DEF Init, ConsoleTyped
<1>4. Len(tabs) = 0
  BY EmptySeq DEF Init
<1>5. OneTab /\ Pointed /\ CurrentPoints
  BY <1>4, EmptySeq DEF Init, OneTab, Pointed, CurrentPoints
<1>6. Mounted /\ Unopened
  BY DEF Init, Mounted, Unopened
<1> QED BY <1>1, <1>2, <1>3, <1>5, <1>6 DEF IInv, Typed, Struct

LEMMA ConnectedInv == ASSUME IInv, Connected PROVE IInv'
<1> DEFINE s == opened + 1
<1> USE DEF IInv
<1>1. s \in Sessions /\ Len(tabs) \in Nat /\ Positions = 1 .. Len(tabs) /\ tabs \in Seq(Tab)
  BY PositionsAre DEF Connected, Typed, TabsTyped, Sessions
<1>2. NewTab(s) \in Tab /\ NewTab(s).id = s
  BY <1>1 DEF NewTab, Tab, Texts
<1>3. /\ opened' = s /\ tabs' = Append(tabs, NewTab(s))
      /\ current' = IF current \in DOMAIN Append(tabs, NewTab(s)) \cup {0}
                    THEN Len(Append(tabs, NewTab(s))) ELSE current
      /\ net' = [net EXCEPT ![s] = "live"] /\ term' = [term EXCEPT ![s] = "loading"]
      /\ UNCHANGED <<conn, closes, subs, received, font, runner, written>>
  BY DEF Connected
<1>4. /\ tabs' \in Seq(Tab) /\ Len(tabs') = Len(tabs) + 1
      /\ \A i \in 1 .. Len(tabs) : tabs'[i] = tabs[i]
      /\ tabs'[Len(tabs) + 1].id = s
  BY <1>1, <1>2, <1>3, AppendProperties
<1>5. DOMAIN Append(tabs, NewTab(s)) = 1 .. Len(tabs) + 1
  BY <1>3, <1>4, LenProperties
<1>6. current' = Len(tabs) + 1
  BY <1>1, <1>3, <1>4, <1>5 DEF Struct, CurrentPoints
<1>7. TabsTyped'
  BY <1>1, <1>3, <1>4, <1>6 DEF Typed, TabsTyped, Sessions
<1>8. NetTyped' /\ ConsoleTyped'
  BY <1>1, <1>3 DEF Typed, NetTyped, ConsoleTyped
<1>9. OneTab'
  <2>1. /\ \A i, j \in 1 .. Len(tabs) : tabs[i].id = tabs[j].id => i = j
        /\ \A i \in 1 .. Len(tabs) : tabs[i].id <= opened /\ tabs[i].id \in Nat
    <3>1. \A i \in 1 .. Len(tabs) : tabs[i] \in Tab
      BY <1>1, ElementOfSeq
    <3>2. \A r \in Tab : r.id \in Sessions
      BY DEF Tab
    <3>4. \A n \in Sessions : n \in Nat
      BY DEF Sessions
    <3>3. OneTab
      BY DEF Struct
    <3> QED BY <3>1, <3>2, <3>3, <3>4 DEF OneTab
  <2>2. \A i \in 1 .. Len(tabs) : tabs'[i].id = tabs[i].id /\ tabs'[i].id # s /\ tabs'[i].id <= s
    BY <2>1, <1>4 DEF Typed, TabsTyped
  <2>3. \A i \in 1 .. Len(tabs') : i \in 1 .. Len(tabs) \/ i = Len(tabs) + 1
    BY <1>1, <1>4
  <2>4. s <= s
    BY <1>1 DEF Sessions
  <2>5. \A i \in 1 .. Len(tabs') : tabs'[i].id <= opened'
    BY <2>2, <2>3, <2>4, <1>3, <1>4
  <2>6. \A i, j \in 1 .. Len(tabs') : tabs'[i].id = tabs'[j].id => i = j
    BY <2>1, <2>2, <2>3, <1>4
  <2> QED BY <2>5, <2>6 DEF OneTab
<1>10. Mounted'
  <2> SUFFICES ASSUME NEW t \in Sessions
               PROVE /\ net'[t] = "live" \/ term'[t] \in {"loading", "open"} => HasTab(t)'
                     /\ HasTab(t)' => term'[t] # "gone"
                     /\ runner'[t] # "none" => term'[t] \in {"open", "gone"}
                     /\ font'[t] = "fallback" => term'[t] \in {"open", "gone"}
    BY DEF Mounted
  <2>1. term[s] = "none"
    BY <1>1 DEF Struct, Unopened, Typed, TabsTyped
  <2>2. CASE t = s
    <3>1. HasTab(t)'
      BY <2>2, <1>1, <1>4 DEF HasTab
    <3>2. runner'[t] = "none" /\ font'[t] # "fallback" /\ term'[t] = "loading"
      BY <2>1, <2>2, <1>1, <1>3 DEF Struct, Mounted, Typed, ConsoleTyped
    <3> QED BY <3>1, <3>2
  <2>3. CASE t # s
    <3>1. net'[t] = net[t] /\ term'[t] = term[t]
      BY <2>3, <1>3 DEF Typed, NetTyped, ConsoleTyped
    <3>2. HasTab(t) <=> HasTab(t)'
      BY <2>3, <1>1, <1>4 DEF HasTab
    <3> QED BY <3>1, <3>2, <1>3 DEF Struct, Mounted
  <2> QED BY <2>2, <2>3
<1>11. Pointed'
  <2> SUFFICES ASSUME closes # <<>>
               PROVE /\ Len(closes) <= 1 /\ closes[1].at \in 1 .. Len(tabs')
                     /\ tabs'[closes[1].at].id = closes[1].id /\ net'[closes[1].id] # "live"
    BY <1>3, EmptySeq DEF Pointed, Struct
  <2>1. /\ Len(closes) <= 1 /\ closes[1].at \in 1 .. Len(tabs)
        /\ tabs[closes[1].at].id = closes[1].id /\ net[closes[1].id] # "live"
    BY DEF Struct, Pointed
  <2>2. tabs[closes[1].at].id <= opened
    BY <2>1 DEF Struct, OneTab
  <2>3. closes[1].id # s
    BY <2>1, <2>2 DEF Typed, TabsTyped
  <2>4. net'[closes[1].id] = net[closes[1].id]
    BY <2>3, <1>3 DEF Typed, NetTyped
  <2> QED BY <2>1, <2>4, <1>1, <1>4
<1>12. CurrentPoints'
  BY <1>1, <1>4, <1>6 DEF CurrentPoints
<1>13. Unopened'
  BY <1>1, <1>3 DEF Struct, Unopened, Typed, TabsTyped, ConsoleTyped, Sessions
<1> QED BY <1>7, <1>8, <1>9, <1>10, <1>11, <1>12, <1>13 DEF Typed, Struct

LEMMA SwitchTabInv == ASSUME IInv, NEW i \in Positions, SwitchTab(i) PROVE IInv'
<1> USE DEF IInv
<1>1. i \in 1 .. Len(tabs) /\ Len(tabs) \in Nat
  BY PositionsAre DEF Typed
<1>2. SameTabs(tabs')
  BY <1>1, MarkedSame DEF SwitchTab, Switched, Typed
<1>3. UNCHANGED <<conn, opened, closes, net, subs, received, term, font, runner, written>> /\ current' = i
  BY DEF SwitchTab, sesVars, termVars
<1>4. Typed'
  <2>1. TabsTyped'
    BY <1>1, <1>2, <1>3 DEF Typed, TabsTyped, SameTabs
  <2> QED BY <2>1, <1>3 DEF Typed, NetTyped, ConsoleTyped
<1>5. OneTab' /\ Mounted' /\ Pointed' /\ Unopened'
  BY <1>1, <1>2, <1>3 DEF Struct, OneTab, Mounted, Pointed, Unopened, SameTabs, HasTab
<1>6. CurrentPoints'
  BY <1>1, <1>2, <1>3 DEF CurrentPoints, SameTabs
<1> QED BY <1>4, <1>5, <1>6 DEF Struct

LEMMA CloseTabInv == ASSUME MaxClosing = 1, IInv, NEW i \in Positions, CloseTab(i) PROVE IInv'
<1> DEFINE s == tabs[i].id
<1> USE DEF IInv
<1>1. i \in 1 .. Len(tabs) /\ Len(tabs) \in Nat /\ s \in Sessions
  <2>1. i \in 1 .. Len(tabs) /\ Len(tabs) \in Nat
    BY PositionsAre DEF Typed
  <2>2. tabs[i] \in Tab
    BY <2>1, ElementOfSeq DEF Typed, TabsTyped
  <2> QED BY <2>1, <2>2 DEF Tab
<1>2. closes = <<>> /\ UNCHANGED <<conn, opened, subs, received, font, runner, written>>
  <2>1. Len(closes) < 1
    BY DEF CloseTab
  <2> QED BY <2>1, EmptySeq DEF CloseTab, Typed, TabsTyped
<1>3. CASE net[s] = "live"
  <2>1. /\ tabs' = Closing(i) /\ closes' = Append(closes, [id |-> s, at |-> i])
        /\ net' = [net EXCEPT ![s] = "leaving"] /\ UNCHANGED <<current, term>>
    BY <1>3 DEF CloseTab, AfterClose
  <2>2. SameTabs(tabs')
    BY <1>1, <2>1, MarkedSame DEF Closing, Typed
  <2>3. closes' \in Seq(Close) /\ Len(closes') = 1 /\ closes'[1] = [id |-> s, at |-> i]
    <3>1. [id |-> s, at |-> i] \in Close
      BY <1>1 DEF Close
    <3>2. Len(closes) = 0 /\ closes \in Seq(Close)
      BY <1>2, EmptySeq
    <3> QED BY <3>1, <3>2, <2>1, AppendProperties
  <2>4. Typed'
    <3>1. TabsTyped'
      BY <2>1, <2>2, <2>3, <1>2 DEF Typed, TabsTyped, SameTabs
    <3>2. NetTyped' /\ ConsoleTyped'
      BY <2>1, <1>1, <1>2 DEF Typed, NetTyped, ConsoleTyped
    <3> QED BY <3>1, <3>2 DEF Typed
  <2>5. OneTab'
    BY <1>2, <2>2 DEF Struct, OneTab, SameTabs
  <2>6. CurrentPoints'
    BY <2>1, <2>2 DEF Struct, CurrentPoints, SameTabs
  <2>7. Unopened'
    BY <1>1, <1>2, <1>3, <2>1 DEF Struct, Unopened, Typed, NetTyped
  <2>8. Mounted'
    <3>1. \A t : HasTab(t) <=> HasTab(t)'
      BY <2>2 DEF HasTab, SameTabs
    <3>2. \A t \in Sessions : net'[t] = "live" => net[t] = "live"
      BY <2>1, <1>1 DEF Typed, NetTyped
    <3> QED BY <3>1, <3>2, <2>1, <1>2 DEF Struct, Mounted
  <2>9. Pointed'
    <3>1. net'[s] = "leaving"
      BY <2>1, <1>1 DEF Typed, NetTyped
    <3>2. tabs'[i].id = s /\ i \in 1 .. Len(tabs')
      BY <2>2, <1>1 DEF SameTabs
    <3>3. closes'[1].at = i /\ closes'[1].id = s
      BY <2>3
    <3> QED BY <3>1, <3>2, <3>3, <2>3 DEF Pointed
  <2> QED BY <2>4, <2>5, <2>6, <2>7, <2>8, <2>9 DEF Struct
<1>4. CASE net[s] # "live"
  <2>1. RemoveFromTab(i) /\ UNCHANGED <<closes, net>>
    BY <1>4 DEF CloseTab
  <2>2. Struct' /\ TabsTyped' /\ ConsoleTyped'
    BY <2>1, <1>1, <1>2, <1>4, StructRemoved
  <2>3. NetTyped'
    BY <2>1, <1>2 DEF Typed, NetTyped
  <2> QED BY <2>2, <2>3 DEF Typed
<1> QED BY <1>3, <1>4

LEMMA CloseSentInv == ASSUME IInv, CloseSent PROVE IInv'
<1> DEFINE i == closes[1].at
<1> USE DEF IInv
<1>1. closes # <<>> /\ closes' = Tail(closes) /\ RemoveFromTab(Head(closes).at)
      /\ UNCHANGED <<conn, opened, net, subs, received, font, runner, written>>
  BY DEF CloseSent, Settle, sesVars
<1>2. Len(closes) = 1 /\ closes \in Seq(Close)
  <2>1. closes \in Seq(Close)
    BY DEF Typed, TabsTyped
  <2>2. Len(closes) \in Nat \ {0}
    BY <2>1, <1>1, EmptySeq
  <2>3. Len(closes) <= 1
    BY DEF Struct, Pointed
  <2>4. \A n \in Nat \ {0} : n <= 1 => n = 1
    OBVIOUS
  <2> QED BY <2>1, <2>2, <2>3, <2>4
<1>3. closes' = <<>> /\ Head(closes) = closes[1]
  <2>1. Tail(closes) \in Seq(Close) /\ Len(Tail(closes)) = 0
    BY <1>1, <1>2, HeadTailProperties
  <2> QED BY <2>1, <1>1, EmptySeq
<1>4. i \in 1 .. Len(tabs) /\ net[tabs[i].id] # "live"
  BY <1>1 DEF Struct, Pointed
<1>5. Struct' /\ TabsTyped' /\ ConsoleTyped'
  BY <1>1, <1>3, <1>4, StructRemoved
<1>6. NetTyped'
  BY <1>1 DEF Typed, NetTyped
<1> QED BY <1>5, <1>6 DEF Typed

LEMMA FontInv ==
  ASSUME IInv, NEW s \in Sessions, FontLoaded(s) \/ FontMissing(s) PROVE IInv'
<1> USE DEF IInv
<1>1. PICK f \in {"loaded", "fallback"} : Opened(s, f)
  BY DEF FontLoaded, FontMissing
<1>2. /\ term[s] = "loading" /\ term' = [term EXCEPT ![s] = "open"]
      /\ font' = [font EXCEPT ![s] = f] /\ runner' = [runner EXCEPT ![s] = "waiting"]
      /\ UNCHANGED <<conn, opened, current, closes, net, subs, received, written>>
  BY <1>1 DEF Opened, sesVars
<1>3. HasTab(s)
  BY <1>2 DEF Struct, Mounted
<1>4. SameTabs(tabs')
  BY <1>3, ShownSame DEF FontLoaded, FontMissing, Typed
<1>5. TabsTyped' /\ NetTyped'
  BY <1>2, <1>4 DEF Typed, TabsTyped, NetTyped, SameTabs
<1>6. ConsoleTyped'
  BY <1>2 DEF Typed, ConsoleTyped
<1>7. \A t \in Sessions :
        /\ net'[t] = "live" => net[t] = "live"
        /\ net[t] = "none" => net'[t] = "none"
        /\ term'[t] \in {"loading", "open"} => term[t] \in {"loading", "open"}
        /\ runner'[t] # "none" => term'[t] \in {"open", "gone"}
        /\ font'[t] = "fallback" => term'[t] \in {"open", "gone"}
        /\ term[t] = "none" => term'[t] = "none"
        /\ term'[t] = "gone" => term[t] = "gone"
  <2> SUFFICES ASSUME NEW t \in Sessions
               PROVE  /\ net'[t] = "live" => net[t] = "live"
                      /\ net[t] = "none" => net'[t] = "none"
                      /\ term'[t] \in {"loading", "open"} => term[t] \in {"loading", "open"}
                      /\ runner'[t] # "none" => term'[t] \in {"open", "gone"}
                      /\ font'[t] = "fallback" => term'[t] \in {"open", "gone"}
                      /\ term[t] = "none" => term'[t] = "none"
                      /\ term'[t] = "gone" => term[t] = "gone"
    OBVIOUS
  <2>1. CASE t = s
    BY <2>1, <1>2 DEF Typed, ConsoleTyped
  <2>2. CASE t # s
    BY <2>2, <1>2 DEF Typed, ConsoleTyped, Struct, Mounted
  <2> QED BY <2>1, <2>2
<1>8. Struct'
  BY <1>2, <1>4, <1>7, StructKept
<1> QED BY <1>5, <1>6, <1>8 DEF Typed

LEMMA FontRetriedInv == ASSUME IInv, NEW s \in Sessions, FontRetried(s) PROVE IInv'
<1> USE DEF IInv
<1>1. /\ font[s] = "fallback" /\ font' = [font EXCEPT ![s] = "loaded"]
      /\ tabs' = IF term[s] = "open" THEN Dismissed(s, "font", "warning") ELSE tabs
      /\ UNCHANGED <<conn, opened, current, closes, net, subs, received, term, runner, written>>
  BY DEF FontRetried, sesVars
<1>2. SameTabs(tabs')
  <2>1. CASE term[s] = "open"
    <3>1. HasTab(s)
      BY <2>1 DEF Struct, Mounted
    <3> QED BY <3>1, <2>1, <1>1, ShownSame DEF Typed
  <2>2. CASE term[s] # "open"
    BY <2>2, <1>1 DEF SameTabs, Typed, TabsTyped
  <2> QED BY <2>1, <2>2
<1>3. Typed'
  <2>1. TabsTyped' /\ NetTyped'
    BY <1>1, <1>2 DEF Typed, TabsTyped, NetTyped, SameTabs
  <2>2. ConsoleTyped'
    BY <1>1 DEF Typed, ConsoleTyped
  <2> QED BY <2>1, <2>2 DEF Typed
<1>4. \A t \in Sessions : font'[t] = "fallback" => font[t] = "fallback"
  BY <1>1 DEF Typed, ConsoleTyped
<1>5. Struct'
  <2>1. \A t \in Sessions :
          /\ net'[t] = "live" => net[t] = "live"
          /\ net[t] = "none" => net'[t] = "none"
          /\ term'[t] \in {"loading", "open"} => term[t] \in {"loading", "open"}
          /\ runner'[t] # "none" => term'[t] \in {"open", "gone"}
          /\ font'[t] = "fallback" => term'[t] \in {"open", "gone"}
          /\ term[t] = "none" => term'[t] = "none"
          /\ term'[t] = "gone" => term[t] = "gone"
    BY <1>1, <1>4 DEF Struct, Mounted
  <2> QED BY <2>1, <1>1, <1>2, StructKept
<1> QED BY <1>3, <1>5

LEMMA ReceiveInv == ASSUME IInv, NEW s \in Sessions, Receive(s) PROVE IInv'
<1> USE DEF IInv
<1>1. /\ runner[s] = "waiting" /\ subs[s] # <<>> /\ subs' = [subs EXCEPT ![s] = Tail(subs[s])]
      /\ runner' = [runner EXCEPT ![s] = IF Ends(s) THEN "ended" ELSE "waiting"]
      /\ written' = [written EXCEPT ![s] = IF Ends(s) THEN written[s]
                                           ELSE Append(written[s], Head(subs[s]))]
      /\ tabs' = Shown(s)
      /\ UNCHANGED <<conn, opened, current, closes, net, received, term, font>>
  BY DEF Receive
<1>2. SameTabs(tabs')
  <2>1. CASE term[s] = "gone"
    <3>1. tabs' = tabs
      BY <2>1, <1>1 DEF Shown
    <3> QED BY <3>1 DEF SameTabs, Typed, TabsTyped
  <2>2. CASE term[s] # "gone"
    <3>1. HasTab(s)
      BY <2>2, <1>1 DEF Struct, Mounted
    <3>2. tabs' \in {tabs, Stopped(s), Updated(s)}
      BY <1>1, <2>2 DEF Shown
    <3> QED BY <3>1, <3>2, ShownSame DEF Typed
  <2> QED BY <2>1, <2>2
<1>3. subs[s] \in Seq(0 .. MaxData) /\ written[s] \in Seq(1 .. MaxData)
  BY DEF Typed, NetTyped, ConsoleTyped
<1>4. Head(subs[s]) \in 0 .. MaxData /\ Tail(subs[s]) \in Seq(0 .. MaxData)
  BY <1>1, <1>3, HeadTailProperties
<1>5. NetTyped'
  BY <1>1, <1>4 DEF Typed, NetTyped
<1>6. ConsoleTyped'
  <2>1. ~Ends(s) => Head(subs[s]) \in 1 .. MaxData
    BY <1>4 DEF Ends, End
  <2>2. ~Ends(s) => Append(written[s], Head(subs[s])) \in Seq(1 .. MaxData)
    BY <2>1, <1>3, AppendProperties
  <2>3. written' \in [Sessions -> Seq(1 .. MaxData)]
    BY <2>2, <1>1, <1>3 DEF Typed, ConsoleTyped
  <2>4. runner' \in [Sessions -> {"none", "waiting", "ended"}]
    BY <1>1 DEF Typed, ConsoleTyped
  <2> QED BY <2>3, <2>4, <1>1 DEF Typed, ConsoleTyped
<1>7. TabsTyped'
  BY <1>1, <1>2 DEF Typed, TabsTyped, SameTabs
<1>8. \A t \in Sessions : runner'[t] # "none" => runner[t] # "none"
  BY <1>1 DEF Typed, ConsoleTyped
<1>9. Struct'
  <2>1. \A t \in Sessions :
          /\ net'[t] = "live" => net[t] = "live"
          /\ net[t] = "none" => net'[t] = "none"
          /\ term'[t] \in {"loading", "open"} => term[t] \in {"loading", "open"}
          /\ runner'[t] # "none" => term'[t] \in {"open", "gone"}
          /\ font'[t] = "fallback" => term'[t] \in {"open", "gone"}
          /\ term[t] = "none" => term'[t] = "none"
          /\ term'[t] = "gone" => term[t] = "gone"
    BY <1>1, <1>8 DEF Struct, Mounted
  <2> QED BY <2>1, <1>1, <1>2, StructKept
<1> QED BY <1>5, <1>6, <1>7, <1>9 DEF Typed

\* An event of the streams leaves the tabs alone and starts no session.
LEMMA StreamsInv ==
  ASSUME IInv, NetTyped', UNCHANGED <<tabVars, termVars>>,
         \A s \in Sessions : (net'[s] = "live" => net[s] = "live") /\ (net[s] = "none" => net'[s] = "none")
  PROVE  IInv'
<1> USE DEF IInv
<1>1. UNCHANGED <<opened, tabs, current, closes, term, font, runner, written>>
  BY DEF tabVars, termVars
<1>2. Typed'
  BY <1>1 DEF Typed, TabsTyped, ConsoleTyped
<1>3. SameTabs(tabs')
  BY <1>1 DEF SameTabs, Typed, TabsTyped
<1>4. Struct'
  BY <1>1, <1>3, StructKept DEF Struct, Mounted
<1> QED BY <1>2, <1>4

LEMMA DataInv == ASSUME IInv, NEW s \in Sessions, Data(s) PROVE IInv'
<1>1. /\ received[s] < MaxData /\ received' = [received EXCEPT ![s] = received[s] + 1]
      /\ subs' = [subs EXCEPT ![s] = Append(subs[s], received[s] + 1)]
      /\ UNCHANGED <<conn, tabVars, net, termVars>>
  BY DEF Data
<1>2. received[s] + 1 \in 0 .. MaxData /\ subs[s] \in Seq(0 .. MaxData)
  BY <1>1 DEF IInv, Typed, NetTyped
<1>3. Append(subs[s], received[s] + 1) \in Seq(0 .. MaxData)
  BY <1>2, AppendProperties
<1>4. NetTyped'
  BY <1>1, <1>2, <1>3 DEF IInv, Typed, NetTyped
<1> QED BY <1>1, <1>4, StreamsInv

\* The rejection is queued behind the output.
LEMMA RejectedTyped == ASSUME NetTyped, NEW s \in Sessions PROVE Rejected(subs[s]) \in Seq(0 .. MaxData)
<1>1. subs[s] \in Seq(0 .. MaxData) /\ End \in 0 .. MaxData
  BY DEF NetTyped, End
<1> QED BY <1>1, AppendProperties DEF Rejected

LEMMA PeerInv ==
  ASSUME IInv, NEW s \in Sessions, PeerClose(s) \/ Completed(s) PROVE IInv'
<1>1. UNCHANGED <<conn, tabVars, received, termVars>>
  BY DEF PeerClose, Completed
<1>2. Rejected(subs[s]) \in Seq(0 .. MaxData)
  BY RejectedTyped DEF IInv, Typed
<1>3. /\ net' = [net EXCEPT ![s] = "left"] \/ net' = [net EXCEPT ![s] = "over"]
      /\ subs' = subs \/ subs' = [subs EXCEPT ![s] = Rejected(subs[s])]
  BY DEF PeerClose, Completed
<1>4. NetTyped'
  <2>1. net' \in [Sessions -> {"none", "live", "leaving", "left", "over"}]
    BY <1>3 DEF IInv, Typed, NetTyped
  <2>2. subs' \in [Sessions -> Seq(0 .. MaxData)]
    BY <1>2, <1>3 DEF IInv, Typed, NetTyped
  <2> QED BY <2>1, <2>2, <1>1 DEF IInv, Typed, NetTyped
<1>5. \A t \in Sessions : (net'[t] = "live" => net[t] = "live") /\ (net[t] = "none" => net'[t] = "none")
  <2>1. net[s] # "none"
    BY DEF PeerClose, Completed
  <2> QED BY <1>3, <2>1 DEF IInv, Typed, NetTyped
<1> QED BY <1>1, <1>4, <1>5, StreamsInv

LEMMA ConnectionLostInv == ASSUME IInv, ConnectionLost PROVE IInv'
<1>1. /\ conn' = FALSE /\ UNCHANGED <<tabVars, received, termVars>>
      /\ net' = [s \in Sessions |-> IF s \in Running THEN "over" ELSE net[s]]
      /\ subs' = [s \in Sessions |-> IF s \in Running THEN Rejected(subs[s]) ELSE subs[s]]
  BY DEF ConnectionLost
<1>2. net' \in [Sessions -> {"none", "live", "leaving", "left", "over"}]
  BY <1>1 DEF IInv, Typed, NetTyped
<1>3. subs' \in [Sessions -> Seq(0 .. MaxData)]
  BY <1>1, RejectedTyped DEF IInv, Typed, NetTyped
<1>4. NetTyped'
  BY <1>1, <1>2, <1>3 DEF IInv, Typed, NetTyped
<1>5. \A s \in Sessions : (net'[s] = "live" => net[s] = "live") /\ (net[s] = "none" => net'[s] = "none")
  BY <1>1 DEF Running
<1> QED BY <1>1, <1>4, <1>5, StreamsInv

LEMMA StepInv == ASSUME MaxClosing = 1, IInv, [Next]_vars PROVE IInv'
<1>1. CASE UNCHANGED vars
  <2>1. UNCHANGED <<conn, opened, tabs, current, closes, net, subs, received, term, font, runner, written>>
    BY <1>1 DEF vars, tabVars, sesVars, termVars
  <2>2. NetTyped' /\ UNCHANGED <<tabVars, termVars>>
    BY <2>1 DEF IInv, Typed, NetTyped, tabVars, termVars
  <2> QED BY <2>1, <2>2, StreamsInv
<1>2. CASE Connected
  BY <1>2, ConnectedInv
<1>3. CASE CloseSent
  BY <1>3, CloseSentInv
<1>4. CASE ConnectionLost
  BY <1>4, ConnectionLostInv
<1>5. ASSUME NEW i \in Positions, SwitchTab(i) \/ CloseTab(i) PROVE IInv'
  BY <1>5, SwitchTabInv, CloseTabInv
<1>6. ASSUME NEW s \in Sessions,
             FontLoaded(s) \/ FontMissing(s) \/ FontRetried(s) \/ Receive(s)
             \/ Data(s) \/ PeerClose(s) \/ Completed(s)
      PROVE IInv'
  BY <1>6, FontInv, FontRetriedInv, ReceiveInv, DataInv, PeerInv
<1> QED BY <1>1, <1>2, <1>3, <1>4, <1>5, <1>6 DEF Next

LEMMA Inductive == ASSUME MaxClosing = 1 PROVE Spec => []IInv
<1>1. Init => IInv
  BY InitInv
<1>2. IInv /\ [Next]_vars => IInv'
  BY StepInv
<1> QED BY <1>1, <1>2, PTL DEF Spec

----------------------------------------------------------------------------
(* What a session has said is on the screen or queued, in order, and its end    *)
(* queued behind it.                                                        *)

Left(s) == received[s] - Len(written[s])
Written(s) ==
  /\ Len(written[s]) <= received[s]
  /\ \A j \in 1 .. Len(written[s]) : written[s][j] = j
Queued(s) ==
  /\ Len(subs[s]) = Left(s) + (IF net[s] = "over" THEN 1 ELSE 0)
  /\ \A j \in 1 .. Left(s) : subs[s][j] = Len(written[s]) + j
  /\ net[s] = "over" => subs[s][Left(s) + 1] = End
Complete(s) == net[s] = "over" /\ Len(written[s]) = received[s]
InOrder(s) ==
  /\ Written(s)
  /\ runner[s] # "ended" => Queued(s)
  /\ runner[s] = "ended" => term[s] = "gone" \/ Complete(s)
Queues == \A s \in Sessions : InOrder(s)

LEMMA QueuesInit == ASSUME Init PROVE Queues
<1> SUFFICES ASSUME NEW s \in Sessions PROVE InOrder(s)
  BY DEF Queues
<1>1. written[s] = <<>> /\ subs[s] = <<>> /\ received[s] = 0 /\ net[s] = "none" /\ runner[s] = "none"
  BY DEF Init
<1>2. Len(written[s]) = 0 /\ Len(subs[s]) = 0
  BY <1>1, EmptySeq
<1>3. Left(s) = 0
  <2>1. received[s] = 0
    BY <1>1
  <2> QED BY <2>1, <1>2 DEF Left
<1>4. Written(s)
  BY <1>1, <1>2 DEF Written
<1>5. Queued(s)
  BY <1>1, <1>2, <1>3 DEF Queued
<1> QED BY <1>1, <1>4, <1>5 DEF InOrder

\* The session's streams, screen and loop are left alone; a console that is gone
\* stays gone.
LEMMA InOrderKept ==
  ASSUME NEW s \in Sessions, InOrder(s), UNCHANGED <<subs[s], received[s], written[s]>>,
         net'[s] = "over" <=> net[s] = "over", runner'[s] = "ended" <=> runner[s] = "ended",
         term[s] = "gone" => term'[s] = "gone"
  PROVE  InOrder(s)'
<1>1. Written(s)'
  BY DEF InOrder, Written
<1>2. Queued(s) => Queued(s)'
  BY DEF Queued, Left
<1>3. Complete(s) => Complete(s)'
  BY DEF Complete
<1> QED BY <1>1, <1>2, <1>3 DEF InOrder

LEMMA Numbers ==
  ASSUME IInv, NEW s \in Sessions
  PROVE  /\ subs[s] \in Seq(0 .. MaxData) /\ written[s] \in Seq(1 .. MaxData)
         /\ Len(subs[s]) \in Nat /\ Len(written[s]) \in Nat /\ received[s] \in Nat
<1>1. subs[s] \in Seq(0 .. MaxData) /\ written[s] \in Seq(1 .. MaxData) /\ received[s] \in Nat
  BY DEF IInv, Typed, NetTyped, ConsoleTyped
<1> QED BY <1>1, LenProperties

\* The tabs and the fonts.
LEMMA UserInOrder ==
  ASSUME IInv, Queues,
         \/ Connected \/ CloseSent
         \/ \E i \in Positions : SwitchTab(i) \/ CloseTab(i)
         \/ \E s \in Sessions : FontLoaded(s) \/ FontMissing(s) \/ FontRetried(s)
  PROVE  Queues'
<1> SUFFICES ASSUME NEW s \in Sessions PROVE InOrder(s)'
  BY DEF Queues
<1>0. InOrder(s)
  BY DEF Queues
<1> USE DEF IInv, Typed, NetTyped, ConsoleTyped
<1>1. CASE Connected
  <2>1. /\ net' = [net EXCEPT ![opened + 1] = "live"] /\ term' = [term EXCEPT ![opened + 1] = "loading"]
        /\ UNCHANGED <<subs, received, runner, written>>
    BY <1>1 DEF Connected
  <2>2. s = opened + 1 => term[s] = "none" /\ net[s] = "none"
    BY DEF Struct, Unopened, TabsTyped
  <2>3. /\ net'[s] = "over" <=> net[s] = "over"
        /\ term[s] = "gone" => term'[s] = "gone"
    BY <2>1, <2>2
  <2> QED BY <1>0, <2>1, <2>2, <2>3, InOrderKept
<1>2. CASE CloseSent
  <2>1. UNCHANGED <<net, subs, received, runner, written>> /\ RemoveFromTab(Head(closes).at)
    BY <1>2 DEF CloseSent, Settle, sesVars
  <2>2. term[s] = "gone" => term'[s] = "gone"
    BY <2>1 DEF RemoveFromTab
  <2> QED BY <1>0, <2>1, <2>2, InOrderKept
<1>3. ASSUME NEW i \in Positions, SwitchTab(i) PROVE InOrder(s)'
  BY <1>0, <1>3, InOrderKept DEF SwitchTab, sesVars, termVars
<1>4. ASSUME NEW i \in Positions, CloseTab(i) PROVE InOrder(s)'
  <2>1. UNCHANGED <<subs, received, runner, written>>
    BY <1>4 DEF CloseTab
  <2>2. \/ net[tabs[i].id] = "live" /\ net' = [net EXCEPT ![tabs[i].id] = "leaving"] /\ UNCHANGED term
        \/ RemoveFromTab(i) /\ UNCHANGED net
    BY <1>4 DEF CloseTab, AfterClose
  <2>3. /\ net'[s] = "over" <=> net[s] = "over"
        /\ term[s] = "gone" => term'[s] = "gone"
    BY <2>2 DEF RemoveFromTab
  <2> QED BY <1>0, <2>1, <2>3, InOrderKept
<1>5. ASSUME NEW t \in Sessions, FontLoaded(t) \/ FontMissing(t) PROVE InOrder(s)'
  <2>1. /\ term[t] = "loading" /\ term' = [term EXCEPT ![t] = "open"]
        /\ runner' = [runner EXCEPT ![t] = "waiting"] /\ UNCHANGED <<net, subs, received, written>>
    BY <1>5 DEF FontLoaded, FontMissing, Opened, sesVars
  <2>2. runner[t] = "none"
    BY <2>1 DEF Struct, Mounted
  <2>3. /\ runner'[s] = "ended" <=> runner[s] = "ended"
        /\ term[s] = "gone" => term'[s] = "gone"
    BY <2>1, <2>2
  <2> QED BY <1>0, <2>1, <2>3, InOrderKept
<1>6. ASSUME NEW t \in Sessions, FontRetried(t) PROVE InOrder(s)'
  BY <1>0, <1>6, InOrderKept DEF FontRetried, sesVars
<1> QED BY <1>1, <1>2, <1>3, <1>4, <1>5, <1>6

\* Output is queued before the end of its session.
LEMMA DataInOrder == ASSUME IInv, Queues, NEW t \in Sessions, Data(t) PROVE Queues'
<1> SUFFICES ASSUME NEW s \in Sessions PROVE InOrder(s)'
  BY DEF Queues
<1>0. InOrder(s)
  BY DEF Queues
<1>1. /\ net[t] # "over" /\ received' = [received EXCEPT ![t] = received[t] + 1]
      /\ subs' = [subs EXCEPT ![t] = Append(subs[t], received[t] + 1)]
      /\ UNCHANGED <<net, term, runner, written>>
  BY DEF Data, termVars
<1> USE DEF IInv, Typed, NetTyped, ConsoleTyped
<1>2. CASE s # t
  <2>1. subs'[s] = subs[s] /\ received'[s] = received[s]
    BY <1>1, <1>2
  <2> QED BY <1>0, <1>1, <2>1, InOrderKept
<1>3. CASE s = t
  <2>1. subs'[s] = Append(subs[s], received[s] + 1) /\ received'[s] = received[s] + 1
    BY <1>1, <1>3
  <2>2. /\ subs[s] \in Seq(0 .. MaxData) /\ Len(subs[s]) \in Nat
        /\ Len(written[s]) \in Nat /\ received[s] \in Nat
    BY Numbers
  <2>3. received[s] + 1 \in 0 .. MaxData
    BY <1>3 DEF Data
  <2>4. /\ Len(subs'[s]) = Len(subs[s]) + 1
        /\ \A j \in 1 .. Len(subs[s]) : subs'[s][j] = subs[s][j]
        /\ subs'[s][Len(subs[s]) + 1] = received[s] + 1
    BY <2>1, <2>2, <2>3, AppendProperties
  <2>5. Written(s)'
    BY <1>0, <1>1, <2>1, <2>2 DEF InOrder, Written
  <2>6. ASSUME Queued(s) PROVE Queued(s)'
    <3>1. Len(subs[s]) = Left(s) /\ Left(s)' = Left(s) + 1 /\ Left(s) \in Nat
          /\ Len(written[s]) + Left(s) = received[s]
      BY <2>6, <1>0, <1>1, <1>3, <2>1, <2>2 DEF Queued, Left, InOrder, Written
    <3>2. \A j \in 1 .. Left(s) + 1 : subs'[s][j] = Len(written[s]) + j
      <4>1. \A j \in 1 .. Left(s) : subs'[s][j] = Len(written[s]) + j
        BY <2>6, <2>4, <3>1 DEF Queued
      <4>2. subs'[s][Left(s) + 1] = Len(written[s]) + (Left(s) + 1)
        BY <2>4, <3>1, <2>2
      <4> QED BY <4>1, <4>2, <3>1
    <3> QED BY <3>1, <3>2, <2>4, <1>1, <1>3 DEF Queued
  <2> QED BY <1>0, <1>1, <1>3, <2>5, <2>6 DEF InOrder, Complete
<1> QED BY <1>2, <1>3

\* The end of a session is queued behind its output.
LEMMA EndInOrder ==
  ASSUME IInv, NEW s \in Sessions, InOrder(s), net[s] # "over", net'[s] = "over",
         subs'[s] = Rejected(subs[s]), UNCHANGED <<received[s], term[s], runner[s], written[s]>>
  PROVE  InOrder(s)'
<1>1. /\ subs[s] \in Seq(0 .. MaxData) /\ Len(subs[s]) \in Nat
      /\ Len(written[s]) \in Nat /\ received[s] \in Nat
  BY Numbers
<1>2. /\ Len(subs'[s]) = Len(subs[s]) + 1
      /\ \A j \in 1 .. Len(subs[s]) : subs'[s][j] = subs[s][j]
      /\ subs'[s][Len(subs[s]) + 1] = End
  <2>1. End \in 0 .. MaxData
    BY DEF End
  <2> QED BY <2>1, <1>1, AppendProperties DEF Rejected
<1>3. Written(s)'
  BY DEF InOrder, Written
<1>4. ASSUME Queued(s) PROVE Queued(s)'
  <2>1. Len(subs[s]) = Left(s) /\ Left(s)' = Left(s) /\ Left(s) \in Nat
    BY <1>4, <1>1 DEF Queued, Left, InOrder, Written
  <2>2. \A j \in 1 .. Left(s) : subs'[s][j] = Len(written[s]) + j
    BY <1>4, <1>2, <2>1 DEF Queued
  <2> QED BY <2>1, <2>2, <1>2 DEF Queued
<1> QED BY <1>3, <1>4 DEF InOrder, Complete

LEMMA StreamsInOrder ==
  ASSUME IInv, Queues, ConnectionLost \/ \E t \in Sessions : PeerClose(t) \/ Completed(t)
  PROVE  Queues'
<1> SUFFICES ASSUME NEW s \in Sessions PROVE InOrder(s)'
  BY DEF Queues
<1>0. InOrder(s)
  BY DEF Queues
<1>1. UNCHANGED <<received, term, runner, written>>
  BY DEF ConnectionLost, PeerClose, Completed, termVars
<1>2. \/ subs'[s] = subs[s] /\ (net'[s] = "over" <=> net[s] = "over")
      \/ net[s] # "over" /\ net'[s] = "over" /\ subs'[s] = Rejected(subs[s])
  <2> USE DEF IInv, Typed, NetTyped
  <2>1. CASE ConnectionLost
    BY <2>1 DEF ConnectionLost, Running
  <2>2. ASSUME NEW t \in Sessions, PeerClose(t) PROVE subs'[s] = subs[s] /\ (net'[s] = "over" <=> net[s] = "over")
    BY <2>2 DEF PeerClose
  <2>3. ASSUME NEW t \in Sessions, Completed(t)
        PROVE \/ subs'[s] = subs[s] /\ (net'[s] = "over" <=> net[s] = "over")
              \/ net[s] # "over" /\ net'[s] = "over" /\ subs'[s] = Rejected(subs[s])
    <3>1. CASE s = t
      BY <3>1, <2>3 DEF Completed
    <3>2. CASE s # t
      BY <3>2, <2>3 DEF Completed
    <3> QED BY <3>1, <3>2
  <2> QED BY <2>1, <2>2, <2>3
<1>3. CASE subs'[s] = subs[s] /\ (net'[s] = "over" <=> net[s] = "over")
  BY <1>0, <1>1, <1>3, InOrderKept
<1>4. CASE net[s] # "over" /\ net'[s] = "over" /\ subs'[s] = Rejected(subs[s])
  BY <1>0, <1>1, <1>4, EndInOrder
<1> QED BY <1>2, <1>3, <1>4

\* A turn of the receive loop moves the head of the queue to the screen, or finds
\* the end there and nothing missing.
LEMMA ReceiveInOrder == ASSUME IInv, Queues, NEW t \in Sessions, Receive(t) PROVE Queues'
<1> SUFFICES ASSUME NEW s \in Sessions PROVE InOrder(s)'
  BY DEF Queues
<1>0. InOrder(s)
  BY DEF Queues
<1>1. /\ runner[t] = "waiting" /\ subs[t] # <<>> /\ subs' = [subs EXCEPT ![t] = Tail(subs[t])]
      /\ runner' = [runner EXCEPT ![t] = IF Ends(t) THEN "ended" ELSE "waiting"]
      /\ written' = [written EXCEPT ![t] = IF Ends(t) THEN written[t]
                                           ELSE Append(written[t], Head(subs[t]))]
      /\ UNCHANGED <<net, received, term>>
  BY DEF Receive
<1> USE DEF IInv, Typed, NetTyped, ConsoleTyped
<1>2. CASE s # t
  <2>1. subs'[s] = subs[s] /\ written'[s] = written[s] /\ runner'[s] = runner[s]
    BY <1>1, <1>2
  <2> QED BY <1>0, <1>1, <2>1, InOrderKept
<1>3. CASE s = t
  <2>1. /\ subs[s] \in Seq(0 .. MaxData) /\ Len(subs[s]) \in Nat
        /\ written[s] \in Seq(1 .. MaxData) /\ Len(written[s]) \in Nat /\ received[s] \in Nat
    BY Numbers
  <2>2. Written(s) /\ Queued(s)
    BY <1>0, <1>1, <1>3 DEF InOrder
  <2>3. /\ Head(subs[s]) = subs[s][1] /\ Head(subs[s]) \in 0 .. MaxData
        /\ Len(Tail(subs[s])) = Len(subs[s]) - 1
        /\ \A j \in 1 .. Len(subs[s]) - 1 : Tail(subs[s])[j] = subs[s][j + 1]
    BY <1>1, <1>3, <2>1, HeadTailProperties
  <2>4. Left(s) \in Nat /\ Len(subs[s]) \in Nat \ {0}
    BY <1>1, <1>3, <2>1, <2>2, EmptySeq DEF Written, Left
  <2>7. /\ net[s] = "over" => Len(subs[s]) = Left(s) + 1
        /\ net[s] # "over" => Len(subs[s]) = Left(s)
    BY <2>2, <2>4 DEF Queued
  <2>5. CASE Ends(s)
    <3>1. written'[s] = written[s] /\ runner'[s] = "ended"
      BY <1>1, <1>3, <2>5
    <3>2. term[s] = "gone" \/ Complete(s)
      <4> SUFFICES ASSUME Head(subs[s]) = End PROVE Complete(s)
        BY <2>5 DEF Ends
      <4>1. Left(s) = 0
        <5> SUFFICES ASSUME Left(s) # 0 PROVE FALSE
          OBVIOUS
        <5>1. subs[s][1] = Len(written[s]) + 1
          BY <2>2, <2>4 DEF Queued
        <5> QED BY <5>1, <2>1, <2>3 DEF End
      <4>2. net[s] = "over"
        BY <4>1, <2>2, <2>4 DEF Queued
      <4> QED BY <4>1, <4>2, <2>1 DEF Complete, Left
    <3>3. (term[s] = "gone" \/ Complete(s))'
      BY <3>1, <3>2, <1>1 DEF Complete
    <3>4. Written(s)'
      BY <2>2, <3>1, <1>1 DEF Written
    <3> QED BY <3>1, <3>3, <3>4 DEF InOrder
  <2>6. CASE ~Ends(s)
    <3>1. /\ written'[s] = Append(written[s], Head(subs[s])) /\ runner'[s] = "waiting"
          /\ subs'[s] = Tail(subs[s]) /\ received'[s] = received[s] /\ net'[s] = net[s]
      BY <1>1, <1>3, <2>6
    <3>2. Head(subs[s]) # End /\ Head(subs[s]) \in 1 .. MaxData
      BY <2>3, <2>6 DEF Ends, End
    <3>3. Left(s) # 0
      <4> SUFFICES ASSUME Left(s) = 0 PROVE FALSE
        OBVIOUS
      <4>1. net[s] = "over" /\ subs[s][1] = End
        BY <2>2, <2>4 DEF Queued
      <4> QED BY <4>1, <2>3, <3>2
    <3>4. Head(subs[s]) = Len(written[s]) + 1
      BY <2>2, <2>3, <2>4, <3>3 DEF Queued
    <3>5. /\ Len(written'[s]) = Len(written[s]) + 1
          /\ \A j \in 1 .. Len(written[s]) : written'[s][j] = written[s][j]
          /\ written'[s][Len(written[s]) + 1] = Len(written[s]) + 1
      BY <3>1, <3>2, <3>4, <2>1, AppendProperties
    <3>6. Left(s)' = Left(s) - 1 /\ Len(written[s]) + 1 <= received[s]
      BY <3>1, <3>3, <3>5, <2>1, <2>4 DEF Left
    <3>7. Written(s)'
      <4>1. \A j \in 1 .. Len(written[s]) + 1 : written'[s][j] = j
        <5>1. \A j \in 1 .. Len(written[s]) : written'[s][j] = j
          BY <2>2, <3>5 DEF Written
        <5> QED BY <5>1, <3>5, <2>1
      <4> QED BY <4>1, <3>1, <3>5, <3>6 DEF Written
    <3>8. Queued(s)'
      <4>1. Len(subs'[s]) = Left(s)' + (IF net'[s] = "over" THEN 1 ELSE 0)
        <5>1. Len(subs'[s]) = Len(subs[s]) - 1 /\ Left(s)' = Left(s) - 1 /\ net'[s] = net[s]
          BY <2>3, <3>1, <3>6
        <5>2. CASE net[s] = "over"
          BY <5>1, <5>2, <2>4, <2>7
        <5>3. CASE net[s] # "over"
          BY <5>1, <5>3, <2>4, <2>7
        <5> QED BY <5>2, <5>3
      <4>2. \A j \in 1 .. Left(s) - 1 : subs'[s][j] = Len(written'[s]) + j
        <5> SUFFICES ASSUME NEW j \in 1 .. Left(s) - 1 PROVE subs'[s][j] = Len(written'[s]) + j
          OBVIOUS
        <5>1. j \in 1 .. Len(subs[s]) - 1 /\ j + 1 \in 1 .. Left(s)
          BY <2>4, <2>7
        <5>2. subs'[s][j] = subs[s][j + 1] /\ subs[s][j + 1] = Len(written[s]) + (j + 1)
          BY <5>1, <2>2, <2>3, <3>1 DEF Queued
        <5> QED BY <5>1, <5>2, <3>5, <2>1
      <4>3. net'[s] = "over" => subs'[s][Left(s)] = End
        <5> SUFFICES ASSUME net[s] = "over" PROVE subs'[s][Left(s)] = End
          BY <3>1
        <5>1. Left(s) \in 1 .. Len(subs[s]) - 1
          BY <2>4, <2>7, <3>3
        <5> QED BY <5>1, <2>2, <2>3, <3>1 DEF Queued
      <4>4. Left(s)' + 1 = Left(s)
        BY <3>6, <2>4
      <4> QED BY <4>1, <4>2, <4>3, <4>4, <3>6 DEF Queued
    <3> QED BY <3>1, <3>7, <3>8 DEF InOrder
  <2> QED BY <2>5, <2>6
<1> QED BY <1>2, <1>3

LEMMA StepInOrder == ASSUME IInv, Queues, [Next]_vars PROVE Queues'
<1>1. CASE UNCHANGED vars
  <2> SUFFICES ASSUME NEW s \in Sessions PROVE InOrder(s)'
    BY DEF Queues
  <2> QED BY <1>1, InOrderKept DEF Queues, vars, sesVars, termVars
<1>2. CASE Next
  BY <1>2, UserInOrder, DataInOrder, StreamsInOrder, ReceiveInOrder DEF Next
<1> QED BY <1>1, <1>2

----------------------------------------------------------------------------
(* The results.                                                             *)

\* Every variable keeps its type: in particular the position of the current tab
\* never falls below the code's -1, and queued output is output or the end of a
\* session (ui/home.vue, removeFromTab; ui/control/).
THEOREM TypeCorrect == ASSUME MaxClosing = 1 PROVE Spec => []TypeOK
<1>1. IInv => TypeOK
  BY TypesAreTypeOK DEF IInv
<1> QED BY <1>1, Inductive, PTL

\* With one close at a time, a session that goes on is always in the tabs, for
\* any number of sessions (ui/home.vue, closeTab).
THEOREM LiveSessionsListed == ASSUME MaxClosing = 1 PROVE Spec => []NoSessionLost
<1>1. IInv => NoSessionLost
  BY ListedAre DEF IInv, Typed, Struct, Mounted, NoSessionLost
<1> QED BY <1>1, Inductive, PTL

\* There is a current tab exactly when there are tabs, so that a new session and
\* a click can always switch, as long as one close is under way at a time, for
\* any number of sessions (ui/home.vue, addToTab, switchTab, removeFromTab).
THEOREM CurrentTabExists == ASSUME MaxClosing = 1 PROVE Spec => []CurrentExists
<1>1. IInv => CurrentExists
  <2> SUFFICES ASSUME IInv PROVE CurrentExists
    OBVIOUS
  <2>1. Positions = 1 .. Len(tabs) /\ tabs \in Seq(Tab)
    BY PositionsAre DEF IInv, Typed, TabsTyped
  <2>2. tabs = <<>> => Len(tabs) = 0
    BY EmptySeq
  <2>3. tabs # <<>> => Len(tabs) # 0
    BY <2>1, EmptySeq
  <2> QED BY <2>1, <2>2, <2>3 DEF IInv, Struct, CurrentPoints, CurrentExists
<1> QED BY <1>1, Inductive, PTL

\* A session is reported as terminated only when all it said is on the screen, in
\* order, whatever the order of output, closing, fonts and a lost connection
\* (ui/widgets/screen_console.vue, runRunner; ui/stream/subscribe.js, reject).
THEOREM OutputComplete == ASSUME MaxClosing = 1 PROVE Spec => []NothingCutOff
<1>1. Init => Queues
  BY QueuesInit
<1>2. IInv /\ Queues /\ [Next]_vars => Queues'
  BY StepInOrder
<1>3. IInv /\ Queues => NothingCutOff
  <2> SUFFICES ASSUME IInv, Queues, NEW s \in Sessions
               PROVE /\ written[s] = [j \in 1 .. Len(written[s]) |-> j]
                     /\ s \in Listed /\ runner[s] = "ended" => Len(written[s]) = received[s]
    BY DEF NothingCutOff
  <2>1. InOrder(s) /\ written[s] \in Seq(1 .. MaxData)
    BY Numbers DEF Queues
  <2>2. written[s] = [j \in 1 .. Len(written[s]) |-> j]
    <3>1. written[s] \in [1 .. Len(written[s]) -> 1 .. MaxData]
      BY <2>1, LenProperties
    <3> QED BY <3>1, <2>1 DEF InOrder, Written
  <2>3. s \in Listed => term[s] # "gone"
    BY ListedAre DEF IInv, Typed, Struct, Mounted
  <2> QED BY <2>1, <2>2, <2>3 DEF InOrder, Complete
<1> QED BY <1>1, <1>2, <1>3, Inductive, PTL DEF Spec
==============================================================================
