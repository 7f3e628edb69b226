----------------------------- MODULE ServerProofs -----------------------------
(***************************************************************************)
(* Proofs about what the server keeps and how it lives.                    *)
(* PresetStore, for any presets, files, edits, requests and number of      *)
(* updates: a restart brings back what the clients see, no password stays  *)
(* readable next to a key or gets lost, and a save changes the fingerprint *)
(* of its target only.                                                     *)
(* AppLifecycle, for any number of servers and requests: it is typed (so   *)
(* that no channel is closed twice), nothing outlives a run, and run ends  *)
(* the way its cause says.                                                 *)
(***************************************************************************)
EXTENDS PresetStore, AppLifecycle, FiniteSetTheorems, TLAPS

----------------------------------------------------------------------------
(* PresetStore: the inductive invariant. An entry e of the file and the     *)
(* preset r the clients see are compared key by key.                        *)

\* A preset as ApplySecrets and Reconfigure leave it: what it is known by has not to be
\* worked out again, and a password is in the clear exactly if there is no key.
Normal(r) ==
  /\ r = [type |-> r.type, host |-> r.host, meta |-> r.meta, secret |-> r.secret]
  /\ r.type \in Known /\ Or(Ports, r.host) = r.host /\ DOMAIN r.meta \subseteq Keys
  /\ Has(r.meta, "Password") => ~hasKey /\ r.meta["Password"] \in DOMAIN Cipher
  /\ Has(r.meta, "Encrypted Password") => hasKey
  /\ r.secret = SecretOf(r.meta)

\* The entry has all that the preset has. It may have more, keys an update has removed,
\* but no password in the clear next to a key, and none at all of a preset that does not
\* authenticate with it.
Backs(e, r) ==
  /\ e.type = r.type /\ Or(Ports, e.host) = r.host
  /\ DOMAIN r.meta \subseteq DOMAIN e.meta
  /\ hasKey => ~Has(e.meta, "Password")
  /\ \A k \in DOMAIN e.meta \cap Passwords : k \in DOMAIN r.meta \/ ByPassword(r.meta)

\* The entry is resolved to what the preset has.
Reads(e, r) == \A k \in DOMAIN r.meta : Or(Resolve, e.meta[k]) = r.meta[k]

\* The values of a list are not taken for references when they are written to the file.
Literal(list) == \A id \in DOMAIN list : \A k \in DOMAIN list[id].meta : list[id].meta[k] \notin DOMAIN Resolve

\* Hand edits apart, the file backs a list; what else it has is of no known type.
FileBacks(list) ==
  \A id \in IDs \ edited :
    IF id \in DOMAIN list THEN id \in DOMAIN file /\ Backs(file[id], list[id])
                          ELSE id \in DOMAIN file => file[id].type \notin Known
FileReads(list) == \A id \in DOMAIN list \ edited : Reads(file[id], list[id])

Presets(list) == DOMAIN list \subseteq IDs /\ \A id \in DOMAIN list : Normal(list[id])

Written(h) == put[h] # Idle /\ put[h].at = "written"

FileOK(f) == IsFile(f) /\ \A id \in DOMAIN f : Sealable(f[id].meta)

StoreOK ==
  /\ FileOK(file) /\ DOMAIN put = Handlers
  /\ Presets(runtime) /\ edited \subseteq IDs /\ hasKey \in BOOLEAN /\ up \in BOOLEAN
  /\ ~up => runtime = NoPresets

\* g is the file an update has read: the present one, but for entries edited since.
Source(g, h) ==
  /\ FileOK(g)
  /\ \A id \in IDs \ (edited \ put[h].seen) :
       (id \in DOMAIN g <=> id \in DOMAIN file) /\ (id \in DOMAIN file => g[id] = file[id])
Draft(h) == put[h].at = "read" => \E g : Source(g, h) /\ put[h].merged = Merged(g, runtime, put[h].next)

\* The lock: one request at a time, the list is the one it has read, and what it is about
\* to write is merged from the file it has read.
PutOK(h) ==
  put[h] # Idle =>
    /\ up /\ put[h].at \in {"checked", "read", "written"} /\ put[h].seen \subseteq edited
    /\ put[h] = [at |-> put[h].at, kind |-> put[h].kind, target |-> put[h].target,
                 current |-> runtime, asked |-> put[h].asked, next |-> put[h].next,
                 merged |-> put[h].merged, seen |-> put[h].seen]
    /\ Presets(put[h].next) /\ IsFile(put[h].merged) /\ Draft(h)
    /\ \A g \in Handlers : put[g] # Idle => g = h

\* The file backs what the clients see, or what they are about to see.
Backed ==
  /\ \A h \in Handlers : Written(h) => FileBacks(put[h].next)
  /\ up /\ (\A h \in Handlers : ~Written(h)) => FileBacks(runtime)

\* A save in the making changes one fingerprint.
Narrow(h) ==
  put[h] # Idle /\ put[h].kind = "save" =>
    /\ DOMAIN put[h].next = DOMAIN runtime
    /\ \A id \in DOMAIN runtime :
         LET n == put[h].next[id]
             r == runtime[id]
         IN  /\ n.type = r.type /\ n.host = r.host
             /\ \A k \in Keys \ {"Fingerprint"} :
                  (k \in DOMAIN n.meta <=> k \in DOMAIN r.meta) /\ (k \in DOMAIN n.meta => n.meta[k] = r.meta[k])
             /\ id # put[h].target =>
                  /\ Fingerprint(n) = Fingerprint(r)
                  /\ Has(n.meta, "Fingerprint") => Has(r.meta, "Fingerprint")

\* An update in the making keeps the passwords it was not sent.
Keeps(h) ==
  put[h] # Idle =>
    \A id \in DOMAIN put[h].next \cap DOMAIN runtime :
      /\ ByPassword(runtime[id].meta) /\ ByPassword(put[h].next[id].meta)
      /\ DOMAIN put[h].asked[id] \cap Passwords = {}
      => put[h].next[id].secret = runtime[id].secret

StoreInv == StoreOK /\ (\A h \in Handlers : PutOK(h) /\ Keeps(h)) /\ Backed

\* With plain values the file also reads as what it backs.
Readback ==
  /\ Literal(runtime) /\ \A h \in Handlers : put[h] # Idle => Literal(put[h].next)
  /\ \A h \in Handlers : Written(h) => FileReads(put[h].next)
  /\ up /\ (\A h \in Handlers : ~Written(h)) => FileReads(runtime)

\* No value that a client sends, that a reference stands for or that encryption yields is
\* spelled like a reference.
PlainValues ==
  /\ \A body \in Bodies : \A k \in DOMAIN body.meta : body.meta[k] \notin DOMAIN Resolve
  /\ \A value \in DOMAIN Resolve : Resolve[value] \notin DOMAIN Resolve
  /\ \A password \in DOMAIN Cipher : Cipher[password] \notin DOMAIN Resolve

\* No client sends an empty fingerprint.
NoBlanks == \A body \in Bodies : Has(body.meta, "Fingerprint") => Fingerprint(body) # ""

----------------------------------------------------------------------------
(* One preset.                                                              *)

\* What ApplySecrets takes, and what is made of it.
Ready(meta) ==
  /\ DOMAIN meta \subseteq Keys
  /\ Has(meta, "Password") => meta["Password"] \in DOMAIN Cipher
  /\ Has(meta, "Encrypted Password") => hasKey \/ Has(meta, "Password")
Resolved(meta) == [k \in DOMAIN meta |-> Or(Resolve, meta[k])]
Made(type, host, meta) ==
  [type |-> type, host |-> Or(Ports, host), meta |-> SealedMeta(meta), secret |-> SecretOf(meta)]

LEMMA CipherInverse == \A p \in DOMAIN Cipher : Decrypt(Cipher[p]) = p
BY PresetAssumption DEF Decrypt

LEMMA PortsOnce == \A host : Or(Ports, Or(Ports, host)) = Or(Ports, host)
BY PresetAssumption DEF Or

\* What sealing does to the keys.
LEMMA SealedIs ==
  ASSUME NEW m, Ready(m)
  PROVE  /\ \A k \in Keys \ Passwords : (k \in DOMAIN SealedMeta(m) <=> k \in DOMAIN m)
                                        /\ (k \in DOMAIN m => SealedMeta(m)[k] = m[k])
         /\ DOMAIN SealedMeta(m) \subseteq Keys
         /\ Has(SealedMeta(m), "Password") =>
              ~hasKey /\ Has(m, "Password") /\ SealedMeta(m)["Password"] = m["Password"]
         /\ Has(SealedMeta(m), "Encrypted Password") =>
              hasKey /\ SealedMeta(m)["Encrypted Password"]
                          = IF Has(m, "Password") THEN Cipher[m["Password"]] ELSE m["Encrypted Password"]
         /\ Has(m, "Password") => Has(SealedMeta(m), IF hasKey THEN "Encrypted Password" ELSE "Password")
         /\ ~Has(m, "Password") => SealedMeta(m) = m
<1>1. CASE ~Has(m, "Password")
  BY <1>1 DEF SealedMeta, Ready, Has
<1>2. CASE Has(m, "Password") /\ hasKey
  <2>1. SealedMeta(m) = With(Without(m, {"Password"}), "Encrypted Password", Cipher[m["Password"]])
    BY <1>2 DEF SealedMeta
  <2>2. DOMAIN SealedMeta(m) = (DOMAIN m \ {"Password"}) \union {"Encrypted Password"}
    BY <2>1 DEF Without, Restrict, With, Over
  <2>3. SealedMeta(m)["Encrypted Password"] = Cipher[m["Password"]]
    BY <2>1 DEF With, Over
  <2>4. \A k \in DOMAIN m \ Passwords : SealedMeta(m)[k] = m[k]
    BY <2>1 DEF Without, Restrict, Passwords, With, Over
  <2> QED BY <1>2, <2>2, <2>3, <2>4 DEF Ready, Has, Keys, Passwords
<1>3. CASE Has(m, "Password") /\ ~hasKey
  <2>1. SealedMeta(m) = Without(m, {"Encrypted Password"})
    BY <1>3 DEF SealedMeta
  <2> QED BY <1>3, <2>1 DEF Ready, Has, Without, Restrict, Keys, Passwords
<1> QED BY <1>1, <1>2, <1>3

LEMMA SealedLiteral ==
  ASSUME NEW m, Ready(m), PlainValues, \A k \in DOMAIN m : m[k] \notin DOMAIN Resolve
  PROVE  \A k \in DOMAIN SealedMeta(m) : SealedMeta(m)[k] \notin DOMAIN Resolve
<1> TAKE k \in DOMAIN SealedMeta(m)
<1>1. CASE k \in Keys \ Passwords
  <2>1. k \in DOMAIN m /\ SealedMeta(m)[k] = m[k]
    BY <1>1, SealedIs
  <2> QED BY <2>1
<1>2. CASE k = "Password"
  BY <1>2, SealedIs DEF Has
<1>3. CASE k = "Encrypted Password"
  <2>1. CASE Has(m, "Password")
    <3>1. SealedMeta(m)[k] = Cipher[m["Password"]] /\ m["Password"] \in DOMAIN Cipher
      BY <1>3, <2>1, SealedIs DEF Has, Ready
    <3> QED BY <3>1 DEF PlainValues
  <2>2. CASE ~Has(m, "Password")
    <3>1. SealedMeta(m) = m
      BY <2>2, SealedIs
    <3> QED BY <3>1
  <2> QED BY <2>1, <2>2
<1> QED BY <1>1, <1>2, <1>3, SealedIs DEF Passwords

\* What is made of a preset is normal.
LEMMA MadeNormal ==
  ASSUME NEW t \in Known, NEW h, NEW m, Ready(m)
  PROVE  Normal(Made(t, h, m))
<1> DEFINE r == Made(t, h, m)
<1> DEFINE s == SealedMeta(m)
<1>1. r.type = t /\ r.host = Or(Ports, h) /\ r.meta = s /\ r.secret = SecretOf(m)
      /\ r = [type |-> r.type, host |-> r.host, meta |-> r.meta, secret |-> r.secret]
  BY DEF Made
<1>2. SecretOf(s) = SecretOf(m)
  <2> USE SealedIs, CipherInverse
  <2>1. CASE ~Has(m, "Password")
    BY <2>1
  <2>2. CASE Has(m, "Password") /\ hasKey
    <3>1. ~Has(s, "Password") /\ Has(s, "Encrypted Password") /\ s["Encrypted Password"] = Cipher[m["Password"]]
      BY <2>2
    <3> QED BY <2>2, <3>1 DEF SecretOf, Ready
  <2>3. CASE Has(m, "Password") /\ ~hasKey
    <3>1. Has(s, "Password") /\ s["Password"] = m["Password"]
      BY <2>3
    <3> QED BY <2>3, <3>1 DEF SecretOf
  <2> QED BY <2>1, <2>2, <2>3
<1>3. Has(s, "Password") => ~hasKey /\ s["Password"] \in DOMAIN Cipher
  BY SealedIs DEF Ready
<1>4. DOMAIN s \subseteq Keys /\ (Has(s, "Encrypted Password") => hasKey)
  BY SealedIs
<1> HIDE DEF r, s
<1> QED BY <1>1, <1>2, <1>3, <1>4, PortsOnce DEF Normal, r

\* A normal preset is ready, and nothing more is made of it.
LEMMA NormalStays ==
  ASSUME NEW r, Normal(r)
  PROVE  /\ Ready(r.meta) /\ Or(Ports, r.host) = r.host /\ SecretOf(r.meta) = r.secret
         /\ DOMAIN SealedMeta(r.meta) = DOMAIN r.meta
         /\ \A k \in DOMAIN r.meta : SealedMeta(r.meta)[k] = r.meta[k]
<1>1. Ready(r.meta)
  BY DEF Normal, Ready
<1>2. DOMAIN SealedMeta(r.meta) = DOMAIN r.meta /\ \A k \in DOMAIN r.meta : SealedMeta(r.meta)[k] = r.meta[k]
  <2>1. CASE ~Has(r.meta, "Password")
    BY <1>1, <2>1, SealedIs
  <2>2. CASE Has(r.meta, "Password")
    <3>1. ~hasKey /\ ~Has(r.meta, "Encrypted Password")
      BY <2>2 DEF Normal
    <3> QED BY <2>2, <3>1 DEF SealedMeta, Without, Restrict, Has
  <2> QED BY <2>1, <2>2
<1> QED BY <1>1, <1>2 DEF Normal

\* What Reconfigure and ApplySecrets make of a list, in either order.
LEMMA ListMade ==
  ASSUME NEW list
  PROVE  Reconfigure(ApplySecrets(list))
           = [id \in {i \in DOMAIN list : list[i].type \in Known} |->
                Made(list[id].type, list[id].host, list[id].meta)]
BY DEF Reconfigure, ApplySecrets, Made

LEMMA FileMade ==
  ASSUME IsFile(file)
  PROVE  /\ Loaded = [id \in {i \in DOMAIN file : file[i].type \in Known} |->
                        [type |-> file[id].type, host |-> Or(Ports, file[id].host),
                         meta |-> Resolved(file[id].meta)]]
         /\ AfterRestart = [id \in {i \in DOMAIN file : file[i].type \in Known} |->
                              Made(file[id].type, file[id].host, Resolved(file[id].meta))]
<1> DEFINE K == {i \in DOMAIN file : file[i].type \in Known}
<1> DEFINE L == [id \in K |-> [type |-> file[id].type, host |-> Or(Ports, file[id].host),
                               meta |-> Resolved(file[id].meta)]]
<1> DEFINE C == Concretize(file)
<1>1. C = [id \in DOMAIN file |-> [type |-> file[id].type, host |-> file[id].host, meta |-> Resolved(file[id].meta)]]
  <2>1. \A id \in DOMAIN file :
          [file[id] EXCEPT !.meta = [k \in DOMAIN @ |-> Or(Resolve, @[k])]]
            = [type |-> file[id].type, host |-> file[id].host, meta |-> Resolved(file[id].meta)]
    <3> TAKE id \in DOMAIN file
    <3>1. file[id] = [type |-> file[id].type, host |-> file[id].host, meta |-> file[id].meta]
      BY DEF IsFile, IsEntry, Entry
    <3> QED BY <3>1 DEF Resolved
  <2> QED BY <2>1 DEF Concretize
<1>2. Loaded = L
  <2>1. DOMAIN C = DOMAIN file /\ \A id \in DOMAIN file :
          C[id] = [type |-> file[id].type, host |-> file[id].host, meta |-> Resolved(file[id].meta)]
    BY <1>1
  <2> HIDE DEF C
  <2>2. Loaded = [id \in {i \in DOMAIN C : C[i].type \in Known} |-> [C[id] EXCEPT !.host = Or(Ports, @)]]
    BY DEF Loaded, Reconfigure, C
  <2>3. {i \in DOMAIN C : C[i].type \in Known} = K
    BY <2>1 DEF With, Over
  <2>4. \A id \in K : [C[id] EXCEPT !.host = Or(Ports, @)] = L[id]
    BY <2>1
  <2> QED BY <2>2, <2>3, <2>4
<1>3. DOMAIN L = K /\ \A id \in K : L[id].type = file[id].type /\ L[id].host = Or(Ports, file[id].host)
                                     /\ L[id].meta = Resolved(file[id].meta)
  OBVIOUS
<1>4. ApplySecrets(L) = [id \in K |-> Made(file[id].type, file[id].host, Resolved(file[id].meta))]
  <2> HIDE DEF L
  <2> QED BY <1>3 DEF ApplySecrets, Made
<1> QED BY <1>2, <1>4 DEF AfterRestart

----------------------------------------------------------------------------
(* Merging a preset into its entry.                                         *)

LEMMA MergeKeys ==
  ASSUME NEW e, NEW n, Normal(n), DOMAIN e.meta \subseteq Keys,
         hasKey /\ Has(e.meta, "Password") => Has(n.meta, "Encrypted Password")
  PROVE  /\ DOMAIN n.meta \subseteq MergedKeys(e.meta, n.meta)
         /\ MergedKeys(e.meta, n.meta) \subseteq Keys
         /\ hasKey => "Password" \notin MergedKeys(e.meta, n.meta)
         /\ \A k \in MergedKeys(e.meta, n.meta) : k \notin DOMAIN n.meta =>
              k \in DOMAIN e.meta /\ (k \in Passwords => ByPassword(n.meta))
         /\ \A k \in Keys \ Passwords : k \in MergedKeys(e.meta, n.meta) <=> k \in DOMAIN n.meta \union DOMAIN e.meta
<1>1. DOMAIN n.meta \subseteq Keys /\ ~(Has(n.meta, "Password") /\ Has(n.meta, "Encrypted Password"))
      /\ (hasKey => ~Has(n.meta, "Password"))
  BY DEF Normal
<1> QED BY <1>1 DEF MergedKeys, Has, Passwords, Keys

\* The merged entry is an entry, whatever the presets are.
LEMMA MergeShape ==
  ASSUME NEW e, NEW c, NEW n, IsEntry(e), Sealable(e.meta), Normal(n)
  PROVE  IsEntry(MergedEntry(e, c, n)) /\ Sealable(MergedEntry(e, c, n).meta)
<1> DEFINE m == MergedEntry(e, c, n)
<1>1. m = [type |-> m.type, host |-> m.host, meta |-> m.meta] /\ DOMAIN m.meta = MergedKeys(e.meta, n.meta)
  BY DEF MergedEntry, MergedMeta
<1>2. \A k \in MergedKeys(e.meta, n.meta) :
        m.meta[k] = IF ~Has(n.meta, k) THEN e.meta[k]
                    ELSE IF Has(c.meta, k) /\ n.meta[k] = c.meta[k] /\ Has(e.meta, k)
                    THEN e.meta[k] ELSE n.meta[k]
  BY DEF MergedEntry, MergedMeta
<1> HIDE DEF m
<1>3. MergedKeys(e.meta, n.meta) \subseteq DOMAIN n.meta \union DOMAIN e.meta
  BY DEF MergedKeys
<1>4. IsEntry(m)
  BY <1>1, <1>3 DEF IsEntry, Entry, Normal
<1>5. Sealable(m.meta)
  <2> SUFFICES ASSUME "Password" \in MergedKeys(e.meta, n.meta)
               PROVE  m.meta["Password"] \in DOMAIN Resolve \union DOMAIN Cipher
    BY <1>1 DEF Sealable, Has
  <2>1. CASE ~Has(n.meta, "Password")
    BY <1>2, <1>3, <2>1 DEF Sealable, Has
  <2>2. CASE Has(n.meta, "Password")
    BY <1>2, <2>2 DEF Sealable, Normal
  <2> QED BY <2>1, <2>2
<1> QED BY <1>4, <1>5 DEF m

\* The merged entry backs the preset it was merged with, whatever the entry was before.
LEMMA MergeBacks ==
  ASSUME NEW e, NEW c, NEW n, IsEntry(e), Normal(n),
         e.type = c.type, Or(Ports, e.host) = c.host,
         hasKey /\ Has(e.meta, "Password") => Has(n.meta, "Encrypted Password")
  PROVE  Backs(MergedEntry(e, c, n), n)
<1> DEFINE m == MergedEntry(e, c, n)
<1>1. /\ m = [type |-> m.type, host |-> m.host, meta |-> m.meta]
      /\ m.type = PreserveRaw(e.type, c.type, n.type)
      /\ m.host = PreserveRaw(e.host, c.host, n.host)
      /\ DOMAIN m.meta = MergedKeys(e.meta, n.meta)
  BY DEF MergedEntry, MergedMeta
<1>2. \A k \in MergedKeys(e.meta, n.meta) :
        m.meta[k] = IF ~Has(n.meta, k) THEN e.meta[k]
                    ELSE IF Has(c.meta, k) /\ n.meta[k] = c.meta[k] /\ Has(e.meta, k)
                    THEN e.meta[k] ELSE n.meta[k]
  BY DEF MergedEntry, MergedMeta
<1> HIDE DEF m
<1>3. m.type = n.type /\ Or(Ports, m.host) = n.host
  BY <1>1 DEF PreserveRaw, Normal
<1>4. DOMAIN e.meta \subseteq Keys
  BY DEF IsEntry
<1>5. Backs(m, n)
  BY <1>1, <1>3, <1>4, MergeKeys DEF Backs, Has
<1> QED BY <1>5 DEF m

\* It reads as that preset, if the entry read as what it was compared with.
LEMMA MergeReads ==
  ASSUME NEW e, NEW c, NEW n, IsEntry(e), Normal(n),
         hasKey /\ Has(e.meta, "Password") => Has(n.meta, "Encrypted Password"),
         \A k \in DOMAIN n.meta : n.meta[k] \notin DOMAIN Resolve,
         \A k \in DOMAIN c.meta : k \in DOMAIN e.meta => Or(Resolve, e.meta[k]) = c.meta[k]
  PROVE  Reads(MergedEntry(e, c, n), n)
<1> DEFINE m == MergedEntry(e, c, n)
<1>1. \A k \in MergedKeys(e.meta, n.meta) :
        m.meta[k] = IF ~Has(n.meta, k) THEN e.meta[k]
                    ELSE IF Has(c.meta, k) /\ n.meta[k] = c.meta[k] /\ Has(e.meta, k)
                    THEN e.meta[k] ELSE n.meta[k]
  BY DEF MergedEntry, MergedMeta
<1>2. DOMAIN n.meta \subseteq MergedKeys(e.meta, n.meta)
  BY MergeKeys DEF IsEntry
<1> HIDE DEF m
<1>3. ASSUME NEW k \in DOMAIN n.meta PROVE Or(Resolve, m.meta[k]) = n.meta[k]
  <2>1. Or(Resolve, n.meta[k]) = n.meta[k]
    BY DEF Or
  <2>2. m.meta[k] = n.meta[k] \/ (k \in DOMAIN c.meta /\ k \in DOMAIN e.meta /\ n.meta[k] = c.meta[k]
                                  /\ m.meta[k] = e.meta[k])
    BY <1>1, <1>2 DEF Has
  <2> QED BY <2>1, <2>2
<1> QED BY <1>3 DEF Reads, m

\* A preset that is new to the file.
LEMMA EntryBacks ==
  ASSUME NEW n, Normal(n)
  PROVE  /\ Backs(Entry(n), n) /\ IsEntry(Entry(n)) /\ Sealable(Entry(n).meta)
         /\ (\A k \in DOMAIN n.meta : n.meta[k] \notin DOMAIN Resolve) => Reads(Entry(n), n)
<1> DEFINE m == Entry(n)
<1>1. m = [type |-> n.type, host |-> n.host, meta |-> n.meta]
  BY DEF Entry
<1> HIDE DEF m
<1>2. m.type = n.type /\ m.host = n.host /\ m.meta = n.meta
  BY <1>1
<1>3. Backs(m, n)
  BY <1>2 DEF Backs, Normal, Has
<1>4. IsEntry(m)
  BY <1>1, <1>2 DEF IsEntry, Entry, Normal
<1>5. Sealable(m.meta)
  BY <1>2 DEF Sealable, Normal
<1>6. (\A k \in DOMAIN n.meta : n.meta[k] \notin DOMAIN Resolve) => Reads(m, n)
  BY <1>2 DEF Reads, Or
<1> QED BY <1>3, <1>4, <1>5, <1>6 DEF m

\* An entry that needs no migration backs what is made of it.
LEMMA LoadBacks ==
  ASSUME NEW e, IsEntry(e), Sealable(e.meta), e.type \in Known,
         Has(e.meta, "Encrypted Password") => hasKey \/ Has(e.meta, "Password")
  PROVE  LET r == Made(e.type, e.host, Resolved(e.meta))
         IN  /\ Normal(r)
             /\ PlainValues => \A k \in DOMAIN r.meta : r.meta[k] \notin DOMAIN Resolve
             /\ hasKey /\ Has(e.meta, "Password") => Has(r.meta, "Encrypted Password")
             /\ ~(Has(e.meta, "Password") /\ (hasKey \/ Has(e.meta, "Encrypted Password"))) =>
                  Backs(e, r) /\ Reads(e, r)
<1> DEFINE m == Resolved(e.meta)
<1> DEFINE r == Made(e.type, e.host, m)
<1>1. DOMAIN m = DOMAIN e.meta /\ \A k \in DOMAIN m : m[k] = Or(Resolve, e.meta[k])
  BY DEF Resolved
<1>2. r.type = e.type /\ r.host = Or(Ports, e.host) /\ r.meta = SealedMeta(m)
  BY DEF Made
<1> HIDE DEF m
<1>3. Ready(m)
  <2>1. Has(m, "Password") => m["Password"] \in DOMAIN Cipher
    BY <1>1, PresetAssumption DEF Sealable, Has, Or
  <2> QED BY <1>1, <2>1 DEF Ready, IsEntry, Has
<1>4. Normal(r)
  BY <1>3, MadeNormal DEF r
<1> HIDE DEF r
<1>5. PlainValues => \A k \in DOMAIN r.meta : r.meta[k] \notin DOMAIN Resolve
  <2>1. PlainValues => \A j \in DOMAIN m : m[j] \notin DOMAIN Resolve
    BY <1>1 DEF PlainValues, Or
  <2> QED BY <1>2, <1>3, <2>1, SealedLiteral
<1>6. hasKey /\ Has(e.meta, "Password") => Has(r.meta, "Encrypted Password")
  BY <1>1, <1>2, <1>3, SealedIs DEF Has
<1>7. ASSUME ~(Has(e.meta, "Password") /\ (hasKey \/ Has(e.meta, "Encrypted Password")))
      PROVE  Backs(e, r) /\ Reads(e, r)
  <2>1. DOMAIN r.meta = DOMAIN m /\ \A k \in DOMAIN m : r.meta[k] = m[k]
    <3>1. CASE ~Has(m, "Password")
      BY <1>2, <1>3, <3>1, SealedIs
    <3>2. CASE Has(m, "Password")
      <4>1. ~hasKey /\ ~Has(m, "Encrypted Password")
        BY <1>1, <1>7, <3>2 DEF Has
      <4>2. SealedMeta(m) = Without(m, {"Encrypted Password"})
        BY <3>2, <4>1 DEF SealedMeta
      <4> QED BY <1>2, <4>1, <4>2 DEF Without, Restrict, Has
    <3> QED BY <3>1, <3>2
  <2>2. Backs(e, r)
    BY <1>1, <1>2, <1>7, <2>1 DEF Backs, Has
  <2>3. Reads(e, r)
    BY <1>1, <2>1 DEF Reads
  <2> QED BY <2>2, <2>3
<1> QED BY <1>4, <1>5, <1>6, <1>7 DEF r, m

\* A restart makes of an entry what it backs and reads as.
LEMMA RestartEntry ==
  ASSUME NEW e, NEW r, IsEntry(e), Sealable(e.meta), Normal(r), Backs(e, r), Reads(e, r)
  PROVE  LET new == Made(e.type, e.host, Resolved(e.meta))
         IN  /\ new.type = r.type /\ new.host = r.host
             /\ r.secret # "" => new.secret = r.secret
             /\ \A k \in DOMAIN r.meta : Get(new.meta, k) = r.meta[k]
<1> DEFINE m == Resolved(e.meta)
<1> DEFINE new == Made(e.type, e.host, m)
<1>1. DOMAIN m = DOMAIN e.meta /\ \A k \in DOMAIN m : m[k] = Or(Resolve, e.meta[k])
  BY DEF Resolved
<1>2. new.type = e.type /\ new.host = Or(Ports, e.host) /\ new.meta = SealedMeta(m) /\ new.secret = SecretOf(m)
  BY DEF Made
<1> HIDE DEF m
<1> HIDE DEF new
<1>3. DOMAIN r.meta \subseteq DOMAIN m /\ \A k \in DOMAIN r.meta : m[k] = r.meta[k]
  BY <1>1 DEF Backs, Reads
<1>4. \A k \in DOMAIN r.meta : k \in DOMAIN new.meta /\ new.meta[k] = r.meta[k]
  <2>1. CASE ~Has(m, "Password")
    BY <1>2, <1>3, <2>1 DEF SealedMeta
  <2>2. CASE Has(m, "Password")
    <3>1. ~hasKey /\ ~Has(r.meta, "Encrypted Password")
      BY <1>1, <2>2 DEF Backs, Normal, Has
    <3>2. SealedMeta(m) = Without(m, {"Encrypted Password"})
      BY <2>2, <3>1 DEF SealedMeta
    <3> QED BY <1>2, <1>3, <3>1, <3>2 DEF Without, Restrict, Has
  <2> QED BY <2>1, <2>2
<1>5. r.secret # "" => new.secret = r.secret
  <2>1. CASE Has(r.meta, "Password")
    BY <1>2, <1>3, <2>1 DEF Normal, SecretOf, Has
  <2>2. CASE ~Has(r.meta, "Password") /\ Has(r.meta, "Encrypted Password")
    <3>1. ~Has(m, "Password")
      BY <1>1, <2>2 DEF Normal, Backs, Has
    <3> QED BY <1>2, <1>3, <2>2, <3>1 DEF Normal, SecretOf, Has
  <2>3. CASE ~Has(r.meta, "Password") /\ ~Has(r.meta, "Encrypted Password")
    BY <2>3 DEF Normal, SecretOf
  <2> QED BY <2>1, <2>2, <2>3
<1>6. new.type = r.type /\ new.host = r.host
  BY <1>2 DEF Backs
<1> QED BY <1>4, <1>5, <1>6 DEF Get, new, m

----------------------------------------------------------------------------
(* The whole file.                                                          *)

\* What f is, merged from a file g.
Merges(f, g, list, next) ==
  /\ IsFile(f) /\ \A id \in DOMAIN f : Sealable(f[id].meta)
  /\ DOMAIN f = DOMAIN next \union (DOMAIN g \ DOMAIN list)
  /\ \A id \in DOMAIN f :
       f[id] = IF id \notin DOMAIN next THEN g[id]
               ELSE IF id \in DOMAIN g /\ id \in DOMAIN list
               THEN MergedEntry(g[id], list[id], next[id])
               ELSE Entry(next[id])

LEMMA MergedFile ==
  ASSUME NEW g, FileOK(g), NEW list, NEW next, Presets(next)
  PROVE  Merges(Merged(g, list, next), g, list, next)
<1> DEFINE f == Merged(g, list, next)
<1>1. DOMAIN f = DOMAIN next \union (DOMAIN g \ DOMAIN list)
  BY DEF Merged, Kept
<1>2. \A id \in DOMAIN f :
        f[id] = IF id \notin DOMAIN next THEN g[id]
                ELSE IF id \in DOMAIN g /\ id \in DOMAIN list
                THEN MergedEntry(g[id], list[id], next[id])
                ELSE Entry(next[id])
  BY DEF Merged, Kept
<1> HIDE DEF f
<1>3. ASSUME NEW id \in DOMAIN f PROVE IsEntry(f[id]) /\ Sealable(f[id].meta)
  <2>1. CASE id \notin DOMAIN next
    BY <1>1, <1>2, <2>1 DEF FileOK, IsFile
  <2>2. CASE id \in DOMAIN next /\ id \in DOMAIN g /\ id \in DOMAIN list
    <3>1. IsEntry(g[id]) /\ Sealable(g[id].meta) /\ Normal(next[id])
      BY <2>2 DEF FileOK, IsFile, Presets
    <3> QED BY <1>2, <2>2, <3>1, MergeShape
  <2>3. CASE id \in DOMAIN next /\ ~(id \in DOMAIN g /\ id \in DOMAIN list)
    <3>1. Normal(next[id])
      BY <2>3 DEF Presets
    <3> QED BY <1>2, <2>3, <3>1, EntryBacks
  <2> QED BY <2>1, <2>2, <2>3
<1>4. DOMAIN f \subseteq IDs
  BY <1>1 DEF FileOK, IsFile, Presets
<1>5. Merges(f, g, list, next)
  BY <1>1, <1>2, <1>3, <1>4 DEF IsFile, Merges
<1> QED BY <1>5 DEF f

\* The list next is merged into a file g, whose entries of S were loaded or last written as list.
LEMMA MergedBacks ==
  ASSUME NEW g, FileOK(g), NEW S, NEW list, NEW next, Presets(next),
         \A id \in S : id \in DOMAIN g /\ id \in DOMAIN list =>
           /\ g[id].type = list[id].type /\ Or(Ports, g[id].host) = list[id].host
           /\ hasKey /\ Has(g[id].meta, "Password") /\ id \in DOMAIN next =>
                Has(next[id].meta, "Encrypted Password"),
         \A id \in S : id \in DOMAIN g /\ id \notin DOMAIN list => g[id].type \notin Known
  PROVE  LET f == Merged(g, list, next)
         IN  /\ \A id \in S : IF id \in DOMAIN next THEN id \in DOMAIN f /\ Backs(f[id], next[id])
                                                    ELSE id \in DOMAIN f => f[id].type \notin Known
             /\ (/\ Literal(next)
                 /\ \A id \in S : id \in DOMAIN list /\ id \in DOMAIN g =>
                      \A k \in DOMAIN list[id].meta : k \in DOMAIN g[id].meta =>
                        Or(Resolve, g[id].meta[k]) = list[id].meta[k])
                => \A id \in S : id \in DOMAIN next => Reads(f[id], next[id])
<1> DEFINE f == Merged(g, list, next)
<1>0. Merges(f, g, list, next)
  BY MergedFile
<1> HIDE DEF f
<1>1. /\ DOMAIN f = DOMAIN next \union (DOMAIN g \ DOMAIN list)
      /\ \A id \in DOMAIN f :
           f[id] = IF id \notin DOMAIN next THEN g[id]
                   ELSE IF id \in DOMAIN g /\ id \in DOMAIN list
                   THEN MergedEntry(g[id], list[id], next[id])
                   ELSE Entry(next[id])
  BY <1>0 DEF Merges
<1>2. ASSUME NEW id \in S, id \notin DOMAIN next, id \in DOMAIN f PROVE f[id].type \notin Known
  BY <1>1, <1>2
<1>3. ASSUME NEW id \in S, id \in DOMAIN next PROVE id \in DOMAIN f /\ Backs(f[id], next[id])
  <2>1. Normal(next[id])
    BY <1>3 DEF Presets
  <2>2. CASE id \in DOMAIN g /\ id \in DOMAIN list
    <3>1. IsEntry(g[id]) /\ g[id].type = list[id].type /\ Or(Ports, g[id].host) = list[id].host
          /\ (hasKey /\ Has(g[id].meta, "Password") => Has(next[id].meta, "Encrypted Password"))
      BY <1>3, <2>2 DEF FileOK, IsFile
    <3> QED BY <1>1, <1>3, <2>1, <2>2, <3>1, MergeBacks
  <2>3. CASE ~(id \in DOMAIN g /\ id \in DOMAIN list)
    BY <1>1, <1>3, <2>1, <2>3, EntryBacks
  <2> QED BY <2>2, <2>3
<1>4. ASSUME Literal(next),
             \A id \in S : id \in DOMAIN list /\ id \in DOMAIN g =>
               \A k \in DOMAIN list[id].meta : k \in DOMAIN g[id].meta =>
                 Or(Resolve, g[id].meta[k]) = list[id].meta[k],
             NEW id \in S, id \in DOMAIN next
      PROVE  Reads(f[id], next[id])
  <2>1. Normal(next[id]) /\ \A k \in DOMAIN next[id].meta : next[id].meta[k] \notin DOMAIN Resolve
    BY <1>4 DEF Presets, Literal
  <2>2. CASE id \in DOMAIN g /\ id \in DOMAIN list
    <3>1. IsEntry(g[id]) /\ (hasKey /\ Has(g[id].meta, "Password") => Has(next[id].meta, "Encrypted Password"))
      BY <1>4, <2>2 DEF FileOK, IsFile
    <3>2. \A k \in DOMAIN list[id].meta : k \in DOMAIN g[id].meta =>
            Or(Resolve, g[id].meta[k]) = list[id].meta[k]
      BY <1>4, <2>2
    <3>3. f[id] = MergedEntry(g[id], list[id], next[id])
      BY <1>1, <1>4, <2>2
    <3> QED BY <2>1, <3>1, <3>2, <3>3, MergeReads
  <2>3. CASE ~(id \in DOMAIN g /\ id \in DOMAIN list)
    BY <1>1, <1>4, <2>1, <2>3, EntryBacks
  <2> QED BY <2>2, <2>3
<1> QED BY <1>2, <1>3, <1>4 DEF f

----------------------------------------------------------------------------
(* The server starts, ends, and the file is edited.                         *)

LEMMA InitInv == Init => StoreInv /\ Readback /\ \A h \in Handlers : Narrow(h)
<1> SUFFICES ASSUME Init PROVE StoreInv /\ Readback /\ \A h \in Handlers : Narrow(h)
  OBVIOUS
<1>1. up = FALSE /\ DOMAIN runtime = {} /\ runtime = NoPresets /\ (\A h \in Handlers : put[h] = Idle) /\ DOMAIN put = Handlers
  BY DEF Init, NoPresets
<1>2. FileOK(file) /\ edited = {} /\ hasKey \in BOOLEAN
  BY PresetAssumption DEF Init, FileOK
<1> QED BY <1>1, <1>2 DEF StoreInv, StoreOK, PutOK, Keeps, Backed, Readback, Narrow, Presets, Literal, Written

\* What a start makes of the file, and of the list.
LEMMA Starting ==
  ASSUME FileOK(file), Unlockable(Loaded)
  PROVE  LET r == AfterRestart
             f == IF Changed(Loaded) THEN Merged(file, Loaded, r) ELSE file
         IN  /\ Presets(r) /\ IsFile(f) /\ \A id \in DOMAIN f : Sealable(f[id].meta)
             /\ \A id \in IDs : IF id \in DOMAIN r THEN id \in DOMAIN f /\ Backs(f[id], r[id])
                                                   ELSE id \in DOMAIN f => f[id].type \notin Known
             /\ PlainValues => Literal(r) /\ \A id \in IDs : id \in DOMAIN r => Reads(f[id], r[id])
<1> DEFINE r == AfterRestart
<1> DEFINE l == Loaded
<1> DEFINE K == {i \in DOMAIN file : file[i].type \in Known}
<1>1. /\ DOMAIN l = K /\ DOMAIN r = K
      /\ \A id \in K : /\ l[id].type = file[id].type /\ l[id].host = Or(Ports, file[id].host)
                       /\ l[id].meta = Resolved(file[id].meta)
                       /\ r[id] = Made(file[id].type, file[id].host, Resolved(file[id].meta))
  BY FileMade DEF FileOK
<1> HIDE DEF r, l
<1>2. \A id \in K : DOMAIN l[id].meta = DOMAIN file[id].meta
        /\ \A k \in DOMAIN l[id].meta : l[id].meta[k] = Or(Resolve, file[id].meta[k])
  BY <1>1 DEF Resolved
<1>3. \A id \in K : /\ IsEntry(file[id]) /\ Sealable(file[id].meta) /\ file[id].type \in Known
                    /\ Has(file[id].meta, "Encrypted Password") => hasKey \/ Has(file[id].meta, "Password")
  BY <1>1, <1>2 DEF FileOK, IsFile, Unlockable, Has, l
<1>4. \A id \in K : /\ Normal(r[id])
                    /\ PlainValues => \A k \in DOMAIN r[id].meta : r[id].meta[k] \notin DOMAIN Resolve
                    /\ hasKey /\ Has(file[id].meta, "Password") => Has(r[id].meta, "Encrypted Password")
                    /\ ~(Has(file[id].meta, "Password") /\ (hasKey \/ Has(file[id].meta, "Encrypted Password"))) =>
                         Backs(file[id], r[id]) /\ Reads(file[id], r[id])
  BY <1>1, <1>3, LoadBacks
<1>5. Presets(r) /\ (PlainValues => Literal(r))
  BY <1>1, <1>4 DEF Presets, Literal, FileOK, IsFile
<1>6. CASE Changed(l)
  <2> DEFINE f == Merged(file, l, r)
  <2>1. IsFile(f) /\ \A id \in DOMAIN f : Sealable(f[id].meta)
    BY <1>5, MergedFile DEF Merges
  <2>2. /\ \A id \in IDs : IF id \in DOMAIN r THEN id \in DOMAIN f /\ Backs(f[id], r[id])
                                              ELSE id \in DOMAIN f => f[id].type \notin Known
        /\ (/\ Literal(r)
            /\ \A id \in IDs : id \in DOMAIN l /\ id \in DOMAIN file =>
                 \A k \in DOMAIN l[id].meta : k \in DOMAIN file[id].meta =>
                   Or(Resolve, file[id].meta[k]) = l[id].meta[k])
           => \A id \in IDs : id \in DOMAIN r => Reads(f[id], r[id])
    <3>1. \A id \in IDs : id \in DOMAIN file /\ id \in DOMAIN l =>
            /\ file[id].type = l[id].type /\ Or(Ports, file[id].host) = l[id].host
            /\ hasKey /\ Has(file[id].meta, "Password") /\ id \in DOMAIN r => Has(r[id].meta, "Encrypted Password")
      BY <1>1, <1>4
    <3>2. \A id \in IDs : id \in DOMAIN file /\ id \notin DOMAIN l => file[id].type \notin Known
      BY <1>1
    <3> QED BY <1>5, <3>1, <3>2, MergedBacks
  <2>3. \A id \in IDs : id \in DOMAIN l /\ id \in DOMAIN file =>
          \A k \in DOMAIN l[id].meta : k \in DOMAIN file[id].meta =>
            Or(Resolve, file[id].meta[k]) = l[id].meta[k]
    BY <1>1, <1>2
  <2> HIDE DEF f
  <2>4. PlainValues => \A id \in IDs : id \in DOMAIN r => Reads(f[id], r[id])
    BY <1>5, <2>2, <2>3
  <2> QED BY <1>5, <1>6, <2>1, <2>2, <2>4 DEF f, l, r
<1>7. CASE ~Changed(l)
  <2>1. \A id \in K : Backs(file[id], r[id]) /\ Reads(file[id], r[id])
    <3>1. \A id \in K : ~(Has(file[id].meta, "Password") /\ (hasKey \/ Has(file[id].meta, "Encrypted Password")))
      BY <1>1, <1>2, <1>7 DEF Changed, Has
    <3> QED BY <1>4, <3>1
  <2> QED BY <1>1, <1>5, <1>7, <2>1 DEF FileOK, l, r
<1> QED BY <1>6, <1>7

LEMMA NobodyDown == StoreInv /\ ~up => \A h \in Handlers : put[h] = Idle
BY DEF StoreInv, PutOK

LEMMA StartInv ==
  ASSUME StoreInv, Start
  PROVE  StoreInv' /\ (PlainValues => Readback') /\ \A h \in Handlers : Narrow(h)'
<1>1. FileOK(file) /\ Unlockable(Loaded) /\ ~up /\ up' = TRUE /\ edited' = {} /\ hasKey' = hasKey /\ put' = put
  BY DEF StoreInv, StoreOK, Start
<1>2. runtime' = AfterRestart
      /\ file' = IF Changed(Loaded) THEN Merged(file, Loaded, AfterRestart) ELSE file
  BY DEF Start, AfterRestart
<1>3. /\ Presets(runtime') /\ IsFile(file') /\ \A id \in DOMAIN file' : Sealable(file'[id].meta)
      /\ \A id \in IDs : IF id \in DOMAIN runtime' THEN id \in DOMAIN file' /\ Backs(file'[id], runtime'[id])
                                                   ELSE id \in DOMAIN file' => file'[id].type \notin Known
      /\ PlainValues => Literal(runtime') /\ \A id \in IDs : id \in DOMAIN runtime' => Reads(file'[id], runtime'[id])
  BY <1>1, <1>2, Starting
<1>4. \A h \in Handlers : put'[h] = Idle
  BY <1>1, NobodyDown
<1>5. Presets(runtime)' /\ FileOK(file)'
  BY <1>1, <1>3 DEF Presets, Normal, FileOK
<1>6. FileBacks(runtime)' /\ (PlainValues => FileReads(runtime)')
  <2>1. \A id \in IDs \ edited' : IF id \in DOMAIN runtime' THEN id \in DOMAIN file' /\ Backs(file[id], runtime[id])'
                                                   ELSE id \in DOMAIN file' => file'[id].type \notin Known
    BY <1>1, <1>3 DEF Backs
  <2> QED BY <1>1, <1>3, <2>1 DEF FileBacks, FileReads, Presets, Reads
<1>7. StoreOK'
  BY <1>1, <1>5 DEF StoreOK, StoreInv
<1>8. PlainValues => Literal(runtime)'
  BY <1>3 DEF Literal
<1> QED BY <1>4, <1>6, <1>7, <1>8 DEF StoreInv, PutOK, Keeps, Backed, Readback, Narrow, Written

LEMMA CrashInv ==
  ASSUME StoreInv, Crash
  PROVE  StoreInv' /\ (Readback => Readback') /\ \A h \in Handlers : Narrow(h)'
<1>1. up' = FALSE /\ DOMAIN put' = Handlers /\ runtime' = NoPresets /\ file' = file /\ hasKey' = hasKey /\ edited' = edited
      /\ \A h \in Handlers : put'[h] = Idle
  BY DEF Crash
<1>2. FileOK(file)' /\ Presets(runtime)'
  BY <1>1 DEF FileOK, StoreInv, StoreOK, Presets, NoPresets
<1>3. StoreOK'
  BY <1>1, <1>2 DEF StoreOK, StoreInv
<1>4. Literal(runtime)'
  BY <1>1 DEF Literal, NoPresets
<1> QED BY <1>1, <1>3, <1>4 DEF StoreInv, PutOK, Keeps, Backed, Readback, Narrow, Written

LEMMA EditInv ==
  ASSUME StoreInv, Edit
  PROVE  StoreInv' /\ (Readback => Readback') /\ ((\A h \in Handlers : Narrow(h)) => \A h \in Handlers : Narrow(h)')
<1>1. PICK e \in Edits : edited' = {e.id} /\ file' = Over(e.now, Without(file, {e.id}))
  BY DEF Edit
<1>2. up' = up /\ runtime' = runtime /\ put' = put /\ hasKey' = hasKey /\ up /\ edited = {}
  BY DEF Edit
<1>3. e.id \in IDs /\ DOMAIN e.now \subseteq {e.id} /\ IsFile(e.now)
      /\ \A id \in DOMAIN e.now : Sealable(e.now[id].meta)
  BY PresetAssumption
<1>4. /\ DOMAIN file' = DOMAIN e.now \union (DOMAIN file \ {e.id})
      /\ \A id \in DOMAIN file' : file'[id] = IF id \in DOMAIN e.now THEN e.now[id] ELSE file[id]
  BY <1>1 DEF Over, Without, Restrict
<1>5. FileOK(file)'
  <2>1. IsFile(file) /\ \A id \in DOMAIN file : Sealable(file[id].meta)
    BY DEF StoreInv, StoreOK, FileOK
  <2> QED BY <1>3, <1>4, <2>1 DEF FileOK, IsFile
<1>6. \A id \in IDs : id # e.id => (id \in DOMAIN file' <=> id \in DOMAIN file) /\ (id \in DOMAIN file => file'[id] = file[id])
  BY <1>3, <1>4
<1>7. FileBacks(runtime) => FileBacks(runtime)' /\ (FileReads(runtime) => FileReads(runtime)')
  <2> SUFFICES ASSUME FileBacks(runtime) PROVE FileBacks(runtime)' /\ (FileReads(runtime) => FileReads(runtime)')
    OBVIOUS
  <2>0. DOMAIN runtime \subseteq IDs
    BY DEF StoreInv, StoreOK, Presets
  <2>1. ASSUME NEW id \in IDs, id # e.id
        PROVE  IF id \in DOMAIN runtime THEN id \in DOMAIN file' /\ file'[id] = file[id] /\ Backs(file[id], runtime[id])
                                         ELSE id \in DOMAIN file' => file'[id].type \notin Known
    BY <1>2, <1>6, <2>1 DEF FileBacks
  <2>2. FileBacks(runtime)'
    BY <1>1, <1>2, <2>1 DEF FileBacks, Backs
  <2>3. \A id \in DOMAIN runtime \ {e.id} : file'[id] = file[id]
    BY <2>0, <2>1
  <2>4. FileReads(runtime) => FileReads(runtime)'
    <3>1. edited' = {e.id} /\ edited = {} /\ runtime' = runtime
      BY <1>1, <1>2
    <3> QED BY <2>3, <3>1 DEF FileReads, Reads
  <2> QED BY <2>2, <2>4
<1>8. ASSUME NEW h \in Handlers, put[h] # Idle, FileBacks(put[h].next)
      PROVE  FileBacks(put[h].next)' /\ (FileReads(put[h].next) => FileReads(put[h].next)')
  <2> DEFINE next == put[h].next
  <2>0. DOMAIN next \subseteq IDs /\ next' = next
    BY <1>2, <1>8 DEF StoreInv, PutOK, Presets
  <2>1. ASSUME NEW id \in IDs, id # e.id
        PROVE  IF id \in DOMAIN next THEN id \in DOMAIN file' /\ file'[id] = file[id] /\ Backs(file[id], next[id])
                                      ELSE id \in DOMAIN file' => file'[id].type \notin Known
    BY <1>2, <1>6, <1>8, <2>1 DEF FileBacks
  <2> HIDE DEF next
  <2>2. FileBacks(next)'
    BY <1>1, <1>2, <2>0, <2>1 DEF FileBacks, Backs
  <2>3. FileReads(next) => FileReads(next)'
    <3>1. \A id \in DOMAIN next \ {e.id} : file'[id] = file[id]
      BY <2>0, <2>1
    <3>2. edited' = {e.id} /\ edited = {} /\ next' = next
      BY <1>1, <1>2, <2>0
    <3> QED BY <3>1, <3>2 DEF FileReads, Reads
  <2> QED BY <2>2, <2>3 DEF next
<1>9. StoreOK'
  BY <1>1, <1>2, <1>3, <1>5 DEF StoreOK, StoreInv, Presets, Normal
<1>10. \A h \in Handlers : PutOK(h)' /\ Keeps(h)'
  <2>1. ASSUME NEW h \in Handlers, PutOK(h), put[h] # Idle PROVE PutOK(h)'
    <3>1. put[h].seen = {} /\ put[h].seen \subseteq edited'
      BY <1>2, <2>1 DEF PutOK
    <3>2. \A g : Source(g, h) => Source(g, h)'
      <4>1. edited \ put[h].seen = {} /\ (edited \ put[h].seen)' = {e.id}
        BY <1>1, <1>2, <3>1
      <4> QED BY <1>6, <4>1 DEF Source
    <3>3. Draft(h)'
      <4>1. Draft(h) /\ put[h]' = put[h] /\ runtime' = runtime
        BY <1>2, <2>1 DEF PutOK
      <4> QED BY <3>2, <4>1 DEF Draft
    <3>4. Presets(put[h].next)'
      BY <1>2, <2>1 DEF PutOK, Presets, Normal
    <3> QED BY <1>2, <2>1, <3>1, <3>3, <3>4 DEF PutOK
  <2>2. \A h \in Handlers : Keeps(h) => Keeps(h)'
    BY <1>2 DEF Keeps
  <2>3. \A h \in Handlers : put[h] = Idle => PutOK(h)'
    BY <1>2 DEF PutOK
  <2> QED BY <2>1, <2>2, <2>3 DEF StoreInv
<1>11. Backed'
  BY <1>2, <1>7, <1>8 DEF StoreInv, Backed, Written
<1>12. Readback => Readback'
  <2>1. Readback => Literal(runtime)' /\ \A h \in Handlers : put'[h] # Idle => Literal(put[h].next)'
    BY <1>2 DEF Readback, Literal
  <2> QED BY <1>2, <1>7, <1>8, <2>1 DEF StoreInv, Backed, Readback, Written
<1>13. (\A h \in Handlers : Narrow(h)) => \A h \in Handlers : Narrow(h)'
  BY <1>2 DEF Narrow
<1> QED BY <1>9, <1>10, <1>11, <1>12, <1>13 DEF StoreInv

----------------------------------------------------------------------------
(* A request: the file is read and replaced, and the list published.        *)

\* The request that holds the lock.
Locked(h) == put[h] # Idle /\ up /\ \A g \in Handlers : g # h => put[g] = Idle

LEMMA Holder == ASSUME StoreInv, NEW h \in Handlers, put[h] # Idle PROVE Locked(h)
BY DEF StoreInv, PutOK, Locked

LEMMA ReadFileInv ==
  ASSUME StoreInv, NEW h \in Handlers, ReadFile(h)
  PROVE  StoreInv' /\ (Readback => Readback')
         /\ ((\A x \in Handlers : Narrow(x)) => \A x \in Handlers : Narrow(x)')
<1> DEFINE p == put[h]
<1> DEFINE merged == Merged(file, runtime, p.next)
<1>1. /\ p # Idle /\ p.at = "checked" /\ DOMAIN put = Handlers /\ FileOK(file) /\ PutOK(h) /\ Locked(h)
      /\ p = [at |-> p.at, kind |-> p.kind, target |-> p.target, current |-> runtime,
              asked |-> p.asked, next |-> p.next, merged |-> p.merged, seen |-> p.seen]
      /\ Presets(p.next)
  <2>1. p # Idle /\ p.at = "checked" /\ PutOK(h) /\ StoreOK
    BY DEF ReadFile, StoreInv
  <2> QED BY <2>1, Holder DEF PutOK, StoreOK
<1>2. /\ put' = [put EXCEPT ![h].at = "read", ![h].seen = edited, ![h].merged = Merged(file, p.current, p.next)]
      /\ up' = up /\ runtime' = runtime /\ hasKey' = hasKey /\ edited' = edited /\ file' = file
  BY DEF ReadFile
<1>3. p.current = runtime
  <2> HIDE DEF p
  <2> QED BY <1>1
<1>4. /\ put'[h] = [at |-> "read", kind |-> p.kind, target |-> p.target, current |-> runtime,
                    asked |-> p.asked, next |-> p.next, merged |-> merged, seen |-> edited]
      /\ \A x \in Handlers : x # h => put'[x] = put[x] /\ put'[x] = Idle
  <2>1. put'[h] = [p EXCEPT !.at = "read", !.seen = edited, !.merged = merged]
    BY <1>1, <1>2, <1>3
  <2>2. \A x \in Handlers : x # h => put'[x] = put[x] /\ put'[x] = Idle
    BY <1>1, <1>2 DEF Locked
  <2>3. PICK q : q = p
    OBVIOUS
  <2>4. q = [at |-> q.at, kind |-> q.kind, target |-> q.target, current |-> runtime,
             asked |-> q.asked, next |-> q.next, merged |-> q.merged, seen |-> q.seen]
    BY <1>1, <2>3
  <2>5. PICK m : m = merged
    OBVIOUS
  <2>6. [q EXCEPT !.at = "read", !.seen = edited, !.merged = m] =
        [at |-> "read", kind |-> q.kind, target |-> q.target, current |-> runtime,
         asked |-> q.asked, next |-> q.next, merged |-> m, seen |-> edited]
    <3>1. PICK kind, target, asked, next, a, b, c, d :
            q = [at |-> a, kind |-> kind, target |-> target, current |-> b,
                 asked |-> asked, next |-> next, merged |-> c, seen |-> d] /\ b = runtime
      BY <2>4
    <3>2. q.kind = kind /\ q.target = target /\ q.asked = asked /\ q.next = next
      BY <3>1
    <3>3. [q EXCEPT !.at = "read", !.seen = edited, !.merged = m] =
          [at |-> "read", kind |-> kind, target |-> target, current |-> runtime,
           asked |-> asked, next |-> next, merged |-> m, seen |-> edited]
      <4>1. PICK x : x = [q EXCEPT !.at = "read"]
        OBVIOUS
      <4>2. x = [at |-> "read", kind |-> kind, target |-> target, current |-> runtime,
                 asked |-> asked, next |-> next, merged |-> c, seen |-> d]
        BY <3>1, <4>1
      <4>3. PICK y : y = [x EXCEPT !.seen = edited]
        OBVIOUS
      <4>4. y = [at |-> "read", kind |-> kind, target |-> target, current |-> runtime,
                 asked |-> asked, next |-> next, merged |-> c, seen |-> edited]
        BY <4>2, <4>3
      <4>5. [y EXCEPT !.merged = m] =
            [at |-> "read", kind |-> kind, target |-> target, current |-> runtime,
             asked |-> asked, next |-> next, merged |-> m, seen |-> edited]
        BY <4>4
      <4>6. [q EXCEPT !.at = "read", !.seen = edited, !.merged = m] = [y EXCEPT !.merged = m]
        BY <4>1, <4>3
      <4> QED BY <4>5, <4>6
    <3> QED BY <3>2, <3>3
  <2>7. put'[h] = [q EXCEPT !.at = "read", !.seen = edited, !.merged = m]
    BY <2>1, <2>3, <2>5
  <2> HIDE DEF p, merged
  <2> QED BY <2>2, <2>3, <2>5, <2>6, <2>7
<1>5. IsFile(merged)
  <2>1. FileOK(file) /\ Presets(p.next)
    BY <1>1
  <2>2. Merges(merged, file, runtime, p.next)
    BY <2>1, MergedFile
  <2> QED BY <2>2 DEF Merges
<1> HIDE DEF merged
<1>6. /\ put'[h] # Idle /\ put'[h].at = "read" /\ put'[h].next = put[h].next /\ put'[h].kind = put[h].kind
      /\ put'[h].target = put[h].target /\ put'[h].asked = put[h].asked
      /\ put'[h].merged = merged /\ put'[h].seen = edited
  BY <1>4 DEF Idle
<1>7. \A x \in Handlers : ~Written(x) /\ ~Written(x)'
  BY <1>1, <1>4, <1>6 DEF Written, Locked
<1>8. StoreOK'
  <2>1. DOMAIN put' = Handlers
    BY <1>1, <1>2
  <2>2. StoreOK
    BY DEF StoreInv
  <2>3. FileOK(file)' /\ (Presets(runtime) => Presets(runtime)')
    BY <1>1, <1>2 DEF FileOK, Presets, Normal
  <2> QED BY <1>2, <2>1, <2>2, <2>3 DEF StoreOK
<1>9. \A x \in Handlers : PutOK(x)' /\ Keeps(x)'
  <2>1. Presets(put[h].next)'
    <3>1. PICK n : n = put[h].next /\ n = put'[h].next
      BY <1>6
    <3>2. Presets(n) /\ hasKey' = hasKey
      BY <1>1, <1>2, <3>1
    <3>3. DOMAIN n \subseteq IDs /\ \A id \in DOMAIN n : Normal(n[id]) /\ Normal(n[id])'
      BY <3>2 DEF Presets, Normal
    <3> QED BY <3>1, <3>3 DEF Presets, Normal
  <2>2. Draft(h)'
    <3>1. Source(file, h)'
      BY <1>1, <1>2 DEF Source
    <3>2. put'[h].merged = Merged(file', runtime', put'[h].next)
      BY <1>2, <1>6 DEF merged
    <3> QED BY <3>1, <3>2 DEF Draft
  <2>3. PutOK(h)'
    BY <1>1, <1>2, <1>4, <1>5, <1>6, <2>1, <2>2 DEF PutOK, Locked
  <2>4. Keeps(h)'
    <3>1. Keeps(h)
      BY DEF StoreInv
    <3> QED BY <1>1, <1>2, <1>6, <3>1 DEF Keeps
  <2>5. \A x \in Handlers : x # h => PutOK(x)' /\ Keeps(x)'
    BY <1>4 DEF PutOK, Keeps
  <2> QED BY <2>3, <2>4, <2>5
<1>10. Backed'
  <2>1. FileBacks(runtime)
    BY <1>1, <1>7 DEF StoreInv, Backed, Locked
  <2>2. FileBacks(runtime)'
    BY <1>2, <2>1 DEF FileBacks, Backs
  <2> QED BY <1>7, <2>2 DEF Backed
<1>11. Readback => Readback'
  <2> SUFFICES ASSUME Readback PROVE Readback'
    OBVIOUS
  <2>1. Literal(runtime)' /\ FileReads(runtime)'
    <3>1. Literal(runtime) /\ FileReads(runtime)
      BY <1>1, <1>7 DEF Readback, Locked
    <3> QED BY <1>2, <3>1 DEF Literal, FileReads
  <2>2. \A x \in Handlers : put'[x] # Idle => Literal(put[x].next)'
    <3>1. Literal(put[h].next)
      BY <1>1 DEF Readback
    <3> QED BY <1>4, <1>6, <3>1 DEF Literal
  <2> QED BY <1>7, <2>1, <2>2 DEF Readback
<1>12. (\A x \in Handlers : Narrow(x)) => \A x \in Handlers : Narrow(x)'
  <2>1. Narrow(h) => Narrow(h)'
    BY <1>1, <1>2, <1>6 DEF Narrow
  <2>2. \A x \in Handlers : x # h => Narrow(x)'
    BY <1>4 DEF Narrow
  <2> QED BY <2>1, <2>2
<1> QED BY <1>8, <1>9, <1>10, <1>11, <1>12 DEF StoreInv

LEMMA WriteInv ==
  ASSUME StoreInv, NEW h \in Handlers, Write(h)
  PROVE  StoreInv' /\ (Readback => Readback')
         /\ ((\A x \in Handlers : Narrow(x)) => \A x \in Handlers : Narrow(x)')
<1> DEFINE made == put[h].next
<1>1. put[h] # Idle /\ put[h].at = "read" /\ put' = [put EXCEPT ![h].at = "written"]
      /\ up' = up /\ runtime' = runtime /\ hasKey' = hasKey /\ edited' = edited
  BY DEF Write
<1>2. Locked(h) /\ put[h].current = runtime /\ Presets(made) /\ FileOK(file) /\ DOMAIN put = Handlers
  <2>1. PutOK(h) /\ FileOK(file) /\ DOMAIN put = Handlers
    BY DEF StoreInv, StoreOK
  <2> QED BY <1>1, <2>1, Holder DEF PutOK
<1>g. PICK g : Source(g, h) /\ put[h].merged = Merged(g, runtime, made)
  BY <1>1 DEF StoreInv, PutOK, Draft
<1>m. put[h].seen \subseteq edited
  BY <1>1 DEF StoreInv, PutOK
<1>s. FileOK(g) /\ \A id \in IDs \ edited :
        (id \in DOMAIN g <=> id \in DOMAIN file) /\ (id \in DOMAIN file => g[id] = file[id])
  BY <1>g DEF Source
<1>3. file' = Merged(g, runtime, made)
  BY <1>g DEF Write
<1>4. \A x \in Handlers : ~Written(x)
  BY <1>1, <1>2 DEF Written, Locked
<1>5. FileBacks(runtime)
  BY <1>2, <1>4 DEF StoreInv, Backed, Locked
<1> HIDE DEF made
<1>6. FileOK(file)'
  <2> DEFINE f == Merged(g, runtime, made)
  <2>1. IsFile(f) /\ \A id \in DOMAIN f : Sealable(f[id].meta)
    <3>1. FileOK(g) /\ Presets(made)
      BY <1>2, <1>s
    <3>2. Merges(f, g, runtime, made)
      BY <3>1, MergedFile
    <3> QED BY <3>2 DEF Merges
  <2> QED BY <1>3, <2>1 DEF FileOK
<1>7. /\ \A id \in IDs \ edited : IF id \in DOMAIN made THEN id \in DOMAIN file' /\ Backs(file'[id], made[id])
                                                        ELSE id \in DOMAIN file' => file'[id].type \notin Known
      /\ (/\ Literal(made)
          /\ \A id \in IDs \ edited : id \in DOMAIN runtime /\ id \in DOMAIN g =>
               \A k \in DOMAIN runtime[id].meta : k \in DOMAIN g[id].meta =>
                 Or(Resolve, g[id].meta[k]) = runtime[id].meta[k])
         => \A id \in IDs \ edited : id \in DOMAIN made => Reads(file'[id], made[id])
  <2>1. \A id \in IDs \ edited : id \in DOMAIN g /\ id \in DOMAIN runtime =>
          /\ g[id].type = runtime[id].type /\ Or(Ports, g[id].host) = runtime[id].host
          /\ hasKey /\ Has(g[id].meta, "Password") /\ id \in DOMAIN made => Has(made[id].meta, "Encrypted Password")
    BY <1>5, <1>s DEF FileBacks, Backs
  <2>2. \A id \in IDs \ edited : id \in DOMAIN g /\ id \notin DOMAIN runtime => g[id].type \notin Known
    BY <1>5, <1>s DEF FileBacks
  <2> DEFINE f == Merged(g, runtime, made)
  <2> DEFINE S == IDs \ edited
  <2>3. /\ \A id \in S : IF id \in DOMAIN made THEN id \in DOMAIN f /\ Backs(f[id], made[id])
                                              ELSE id \in DOMAIN f => f[id].type \notin Known
        /\ (/\ Literal(made)
            /\ \A id \in S : id \in DOMAIN runtime /\ id \in DOMAIN g =>
                 \A k \in DOMAIN runtime[id].meta : k \in DOMAIN g[id].meta =>
                   Or(Resolve, g[id].meta[k]) = runtime[id].meta[k])
           => \A id \in S : id \in DOMAIN made => Reads(f[id], made[id])
    <3>1. FileOK(g) /\ Presets(made)
      BY <1>2, <1>s
    <3>2. \A id \in S : id \in DOMAIN g /\ id \in DOMAIN runtime =>
            /\ g[id].type = runtime[id].type /\ Or(Ports, g[id].host) = runtime[id].host
            /\ hasKey /\ Has(g[id].meta, "Password") /\ id \in DOMAIN made => Has(made[id].meta, "Encrypted Password")
      BY <2>1
    <3>3. \A id \in S : id \in DOMAIN g /\ id \notin DOMAIN runtime => g[id].type \notin Known
      BY <2>2
    <3> HIDE DEF S, f
    <3> QED BY <3>1, <3>2, <3>3, MergedBacks DEF f
  <2> QED BY <1>3, <2>3
<1>8. put'[h].at = "written" /\ put'[h].next = made /\ put'[h] # Idle
      /\ put'[h].merged = put[h].merged /\ put'[h].seen = put[h].seen
      /\ put'[h] = [at |-> "written", kind |-> put[h].kind, target |-> put[h].target, current |-> runtime,
                    asked |-> put[h].asked, next |-> made, merged |-> put[h].merged, seen |-> put[h].seen]
      /\ \A x \in Handlers : x # h => put'[x] = put[x] /\ put'[x] = Idle
  <2>1. put[h] = [at |-> put[h].at, kind |-> put[h].kind, target |-> put[h].target, current |-> runtime,
                  asked |-> put[h].asked, next |-> made, merged |-> put[h].merged, seen |-> put[h].seen]
    BY <1>1 DEF StoreInv, PutOK, made
  <2>2. h \in DOMAIN put => put'[h] = [put[h] EXCEPT !.at = "written"]
    BY <1>1
  <2>3. put'[h] = [at |-> "written", kind |-> put[h].kind, target |-> put[h].target, current |-> runtime,
                    asked |-> put[h].asked, next |-> made, merged |-> put[h].merged, seen |-> put[h].seen]
    BY <1>2, <2>1, <2>2
  <2>4. \A x \in Handlers : x # h => put'[x] = put[x] /\ put'[x] = Idle
    BY <1>1, <1>2 DEF Locked
  <2> QED BY <2>3, <2>4 DEF Idle
<1>9. StoreOK' /\ Presets(made)'
  <2>1. Presets(runtime)' /\ Presets(made)'
    <3>1. Presets(runtime) /\ hasKey' = hasKey /\ runtime' = runtime /\ made' = made
      BY <1>1, <1>8 DEF StoreInv, StoreOK, made
    <3> QED BY <1>2, <3>1 DEF Presets, Normal
  <2>2. DOMAIN put' = Handlers
    BY <1>1, <1>2
  <2> QED BY <1>1, <1>6, <2>1, <2>2 DEF StoreInv, StoreOK
<1>10. \A x \in Handlers : PutOK(x)' /\ Keeps(x)'
  <2>1. PutOK(h)'
    <3>1. IsFile(put[h].merged)
      BY <1>1 DEF StoreInv, PutOK
    <3> QED BY <1>1, <1>2, <1>8, <1>9, <1>m, <3>1 DEF PutOK, Draft, Locked, made
  <2>2. Keeps(h)'
    <3>1. Keeps(h) /\ runtime' = runtime /\ put'[h].next = put[h].next /\ put'[h].asked = put[h].asked
      BY <1>1, <1>8 DEF StoreInv, made
    <3> QED BY <1>1, <3>1 DEF Keeps
  <2>3. \A x \in Handlers : x # h => PutOK(x)' /\ Keeps(x)'
    BY <1>8 DEF PutOK, Keeps
  <2> QED BY <2>1, <2>2, <2>3
<1>11. Backed'
  <2>1. FileBacks(made)'
    <3>1. \A id \in IDs \ edited' : IF id \in DOMAIN made' THEN id \in DOMAIN file' /\ Backs(file[id], made[id])'
                                                       ELSE id \in DOMAIN file' => file'[id].type \notin Known
      <4>1. made' = made /\ edited' = edited /\ hasKey' = hasKey
        BY <1>1, <1>8 DEF made
      <4> QED BY <1>7, <4>1 DEF Backs
    <3> QED BY <3>1 DEF FileBacks
  <2>2. \A x \in Handlers : Written(x)' <=> x = h
    BY <1>8 DEF Written
  <2> QED BY <2>1, <2>2 DEF Backed, made
<1>12. Readback => Readback'
  <2> SUFFICES ASSUME Readback PROVE Readback'
    OBVIOUS
  <2>0. made' = made /\ edited' = edited /\ runtime' = runtime
    BY <1>1, <1>8 DEF made
  <2>1. Literal(runtime)' /\ Literal(made)'
    <3>1. Literal(runtime) /\ Literal(made)
      BY <1>1 DEF Readback, made
    <3> QED BY <2>0, <3>1 DEF Literal
  <2>2. FileReads(made)'
    <3>1. Literal(made) /\ FileReads(runtime)
      BY <1>1, <1>2, <1>4 DEF Readback, made, Locked
    <3>2. \A id \in IDs \ edited : id \in DOMAIN runtime /\ id \in DOMAIN g =>
            \A k \in DOMAIN runtime[id].meta : k \in DOMAIN g[id].meta =>
              Or(Resolve, g[id].meta[k]) = runtime[id].meta[k]
      BY <1>s, <3>1 DEF FileReads, Reads
    <3>3. \A id \in IDs \ edited : id \in DOMAIN made => Reads(file'[id], made[id])
      BY <1>7, <3>1, <3>2
    <3>4. DOMAIN made \subseteq IDs
      BY <1>2 DEF Presets
    <3> QED BY <2>0, <3>3, <3>4 DEF FileReads, Reads
  <2>3. \A x \in Handlers : (Written(x)' => x = h) /\ (put'[x] # Idle => x = h)
    BY <1>8 DEF Written
  <2> QED BY <1>8, <2>1, <2>2, <2>3 DEF Readback, made, Written
<1>13. (\A x \in Handlers : Narrow(x)) => \A x \in Handlers : Narrow(x)'
  <2>1. runtime' = runtime /\ put'[h].next = put[h].next /\ put'[h].kind = put[h].kind /\ put'[h].target = put[h].target
    BY <1>1, <1>8 DEF made
  <2>2. Narrow(h) => Narrow(h)'
    BY <1>1, <2>1 DEF Narrow
  <2>3. \A x \in Handlers : x # h => Narrow(x)'
    BY <1>8 DEF Narrow
  <2> QED BY <2>2, <2>3
<1> QED BY <1>9, <1>10, <1>11, <1>12, <1>13 DEF StoreInv

LEMMA WriteFailsInv ==
  ASSUME StoreInv, NEW h \in Handlers, WriteFails(h)
  PROVE  StoreInv' /\ (Readback => Readback') /\ \A g \in Handlers : Narrow(g)'
<1>1. put[h] # Idle /\ put[h].at \in {"checked", "read"} /\ put' = [put EXCEPT ![h] = Idle]
      /\ up' = up /\ runtime' = runtime /\ hasKey' = hasKey /\ edited' = edited /\ file' = file
  BY DEF WriteFails
<1>2. Locked(h) /\ DOMAIN put = Handlers
  BY <1>1, Holder DEF StoreInv, StoreOK
<1>3. \A g \in Handlers : put'[g] = Idle /\ ~Written(g)
  BY <1>1, <1>2 DEF Locked, Written
<1>4. StoreOK'
  <2>1. DOMAIN put' = Handlers
    BY <1>1, <1>2
  <2> QED BY <1>1, <2>1 DEF StoreInv, StoreOK, FileOK, Presets, Normal
<1>5. FileBacks(runtime)'
  <2>1. FileBacks(runtime)
    BY <1>2, <1>3 DEF StoreInv, Backed, Locked
  <2> QED BY <1>1, <2>1 DEF FileBacks, Backs
<1>6. Readback => Literal(runtime)' /\ FileReads(runtime)'
  <2>1. Readback => Literal(runtime) /\ FileReads(runtime)
    BY <1>2, <1>3 DEF Readback, Locked
  <2> QED BY <1>1, <2>1 DEF Literal, FileReads
<1>7. \A g \in Handlers : PutOK(g)' /\ Keeps(g)' /\ Narrow(g)' /\ ~Written(g)'
  BY <1>3 DEF PutOK, Keeps, Narrow, Written
<1> QED BY <1>3, <1>4, <1>5, <1>6, <1>7 DEF StoreInv, Backed, Readback

LEMMA PublishInv ==
  ASSUME StoreInv, NEW h \in Handlers, Publish(h)
  PROVE  StoreInv' /\ (Readback => Readback') /\ \A g \in Handlers : Narrow(g)'
<1> DEFINE made == put[h].next
<1>1. put[h] # Idle /\ put[h].at = "written" /\ put' = [put EXCEPT ![h] = Idle]
      /\ up' = up /\ runtime' = made /\ hasKey' = hasKey /\ edited' = edited /\ file' = file
  BY DEF Publish
<1>2. Locked(h) /\ DOMAIN put = Handlers /\ Presets(made)
  <2>1. PutOK(h)
    BY DEF StoreInv
  <2> QED BY <1>1, <2>1, Holder DEF StoreInv, StoreOK, PutOK
<1>3. \A g \in Handlers : put'[g] = Idle
  BY <1>1, <1>2 DEF Locked
<1>4. FileBacks(made)
  BY <1>1 DEF StoreInv, Backed, Written
<1>5. Readback => Literal(made) /\ FileReads(made)
  BY <1>1 DEF Readback, Written
<1> HIDE DEF made
<1>6. Presets(runtime)'
  BY <1>1, <1>2 DEF Presets, Normal
<1>7. StoreOK'
  <2>1. DOMAIN put' = Handlers
    BY <1>1, <1>2
  <2> QED BY <1>1, <1>2, <1>6, <2>1 DEF StoreInv, StoreOK, FileOK, Locked
<1>8. FileBacks(runtime)'
  BY <1>1, <1>4 DEF FileBacks, Backs
<1>9. Readback => Literal(runtime)' /\ FileReads(runtime)'
  BY <1>1, <1>5 DEF Literal, FileReads
<1>10. \A g \in Handlers : PutOK(g)' /\ Keeps(g)' /\ Narrow(g)' /\ ~Written(g)'
  BY <1>3 DEF PutOK, Keeps, Narrow, Written
<1> QED BY <1>3, <1>7, <1>8, <1>9, <1>10 DEF StoreInv, Backed, Readback

----------------------------------------------------------------------------
(* A request: what it asks for is checked and prepared.                     *)

Askable(list) ==
  /\ DOMAIN list \subseteq IDs
  /\ \A id \in DOMAIN list :
       /\ DOMAIN list[id].meta \subseteq Keys
       /\ Has(list[id].meta, "Password") => list[id].meta["Password"] \in DOMAIN Cipher

\* The list differs from the live one in a fingerprint only.
SavesOne(list, target) ==
  /\ DOMAIN list = DOMAIN runtime
  /\ \A id \in DOMAIN runtime :
       /\ list[id].type = runtime[id].type /\ list[id].host = runtime[id].host
       /\ \A k \in Keys \ {"Fingerprint"} :
            /\ k \in DOMAIN list[id].meta <=> k \in DOMAIN runtime[id].meta
            /\ k \in DOMAIN list[id].meta => list[id].meta[k] = runtime[id].meta[k]
       /\ id # target =>
            /\ Fingerprint(list[id]) = Fingerprint(runtime[id])
            /\ Has(list[id].meta, "Fingerprint") => Has(runtime[id].meta, "Fingerprint")

LEMMA AuthenticationStays ==
  ASSUME NEW m, Ready(m) PROVE ByPassword(SealedMeta(m)) <=> ByPassword(m)
<1>1. "Authentication" \in Keys \ Passwords
  BY DEF Keys, Passwords
<1>2. /\ "Authentication" \in DOMAIN SealedMeta(m) <=> "Authentication" \in DOMAIN m
      /\ "Authentication" \in DOMAIN m => SealedMeta(m)["Authentication"] = m["Authentication"]
  BY <1>1, SealedIs
<1> QED BY <1>2 DEF ByPassword, Get

\* What a request makes of a list.
LEMMA Prepared ==
  ASSUME NEW list, Askable(list), Unlockable(list)
  PROVE  LET next == Reconfigure(ApplySecrets(list))
         IN  /\ Presets(next) /\ DOMAIN next = {i \in DOMAIN list : list[i].type \in Known}
             /\ \A id \in DOMAIN next : /\ Ready(list[id].meta)
                                        /\ next[id] = Made(list[id].type, list[id].host, list[id].meta)
             /\ PlainValues /\ Literal(list) => Literal(next)
<1> DEFINE made == Reconfigure(ApplySecrets(list))
<1>1. /\ DOMAIN made = {i \in DOMAIN list : list[i].type \in Known}
      /\ \A id \in DOMAIN made : made[id] = Made(list[id].type, list[id].host, list[id].meta)
  <2>1. made = [id \in {i \in DOMAIN list : list[i].type \in Known} |->
                  Made(list[id].type, list[id].host, list[id].meta)]
    BY ListMade
  <2> HIDE DEF made
  <2> QED BY <2>1
<1> HIDE DEF made
<1>2. \A id \in DOMAIN list : Ready(list[id].meta)
  BY DEF Askable, Unlockable, Ready
<1>3. Presets(made)
  BY <1>1, <1>2, MadeNormal DEF Presets, Askable
<1>4. ASSUME PlainValues, Literal(list), NEW id \in DOMAIN made
      PROVE  \A k \in DOMAIN made[id].meta : made[id].meta[k] \notin DOMAIN Resolve
  <2>1. made[id].meta = SealedMeta(list[id].meta)
    <3>1. made[id] = Made(list[id].type, list[id].host, list[id].meta)
      BY <1>1
    <3> QED BY <3>1 DEF Made
  <2>2. Ready(list[id].meta) /\ \A k \in DOMAIN list[id].meta : list[id].meta[k] \notin DOMAIN Resolve
    BY <1>1, <1>2, <1>4 DEF Literal
  <2> QED BY <1>4, <2>1, <2>2, SealedLiteral
<1>5. PlainValues /\ Literal(list) => Literal(made)
  BY <1>4 DEF Literal
<1> QED BY <1>1, <1>2, <1>3, <1>5 DEF made

\* What differs in a fingerprint still does when it is prepared.
LEMMA PreparedNarrow ==
  ASSUME NEW list, NEW target, Askable(list), Unlockable(list), Presets(runtime), SavesOne(list, target)
  PROVE  SavesOne(Reconfigure(ApplySecrets(list)), target)
<1> DEFINE made == Reconfigure(ApplySecrets(list))
<1>1. /\ DOMAIN made = {i \in DOMAIN list : list[i].type \in Known}
      /\ \A id \in DOMAIN made : /\ Ready(list[id].meta)
                                 /\ made[id] = Made(list[id].type, list[id].host, list[id].meta)
  BY Prepared
<1> HIDE DEF made
<1>2. DOMAIN made = DOMAIN runtime
  BY <1>1 DEF SavesOne, Presets, Normal
<1>3. ASSUME NEW id \in DOMAIN runtime
      PROVE  /\ made[id].type = list[id].type /\ made[id].host = list[id].host
             /\ DOMAIN made[id].meta = DOMAIN list[id].meta
             /\ \A k \in DOMAIN list[id].meta : made[id].meta[k] = list[id].meta[k]
  <2> DEFINE m == list[id].meta
  <2> DEFINE r == runtime[id]
  <2>1. made[id].type = list[id].type /\ made[id].host = Or(Ports, list[id].host) /\ made[id].meta = SealedMeta(m)
    <3>1. made[id] = Made(list[id].type, list[id].host, m)
      BY <1>1, <1>2
    <3> QED BY <3>1 DEF Made
  <2>2. Normal(r) /\ list[id].host = r.host /\ Ready(m)
    BY <1>1, <1>2 DEF SavesOne, Presets
  <2>3. \A k \in Passwords : k \in DOMAIN m <=> k \in DOMAIN r.meta
    BY DEF SavesOne, Keys, Passwords
  <2> HIDE DEF m, r
  <2>4. DOMAIN SealedMeta(m) = DOMAIN m /\ \A k \in DOMAIN m : SealedMeta(m)[k] = m[k]
    <3>1. CASE ~Has(m, "Password")
      BY <2>2, <3>1, SealedIs
    <3>2. CASE Has(m, "Password")
      <4>1. ~hasKey /\ ~Has(m, "Encrypted Password")
        BY <2>2, <2>3, <3>2 DEF Normal, Has, Passwords
      <4>2. SealedMeta(m) = Without(m, {"Encrypted Password"})
        BY <3>2, <4>1 DEF SealedMeta
      <4> QED BY <4>1, <4>2 DEF Without, Restrict, Has
    <3> QED BY <3>1, <3>2
  <2>5. made[id].host = list[id].host
    BY <2>1, <2>2 DEF Normal
  <2> QED BY <2>1, <2>4, <2>5 DEF m
<1>4. ASSUME NEW id \in DOMAIN runtime
      PROVE  Fingerprint(made[id]) = Fingerprint(list[id]) /\ (Has(made[id].meta, "Fingerprint") <=> Has(list[id].meta, "Fingerprint"))
  BY <1>3 DEF Fingerprint, Get, Has
<1> QED BY <1>2, <1>3, <1>4 DEF SavesOne, made

LEMMA BeginInv ==
  ASSUME StoreInv, NEW h \in Handlers, NEW kind, NEW target, NEW asked, NEW list,
         up, Free, Begin(h, kind, target, asked, list), Askable(list),
         \A id \in DOMAIN list \cap DOMAIN runtime :
           /\ ByPassword(runtime[id].meta) /\ ByPassword(list[id].meta) /\ DOMAIN asked[id] \cap Passwords = {}
           => SecretOf(list[id].meta) = runtime[id].secret
  PROVE  /\ StoreInv'
         /\ PlainValues /\ Literal(list) /\ Readback => Readback'
         /\ (kind = "save" => SavesOne(list, target)) => \A g \in Handlers : Narrow(g)'
<1> DEFINE made == Reconfigure(ApplySecrets(list))
<1>1. put' = [put EXCEPT ![h] = [at |-> "checked", kind |-> kind, target |-> target, current |-> runtime,
                                 asked |-> asked, next |-> made, merged |-> NoPresets, seen |-> {}]]
      /\ Unlockable(list)
      /\ up' = up /\ runtime' = runtime /\ hasKey' = hasKey /\ edited' = edited /\ file' = file
  BY DEF Begin
<1>2. /\ Presets(made) /\ DOMAIN made = {i \in DOMAIN list : list[i].type \in Known}
      /\ \A id \in DOMAIN made : /\ Ready(list[id].meta)
                                 /\ made[id] = Made(list[id].type, list[id].host, list[id].meta)
      /\ PlainValues /\ Literal(list) => Literal(made)
  BY <1>1, Prepared
<1>3. SavesOne(list, target) => SavesOne(made, target)
  BY <1>1, PreparedNarrow DEF StoreInv, StoreOK
<1> HIDE DEF made
<1>4. DOMAIN put = Handlers /\ \A g \in Handlers : put[g] = Idle /\ ~Written(g)
  BY DEF StoreInv, StoreOK, Free, Written
<1>5. put'[h] = [at |-> "checked", kind |-> kind, target |-> target, current |-> runtime,
                 asked |-> asked, next |-> made, merged |-> NoPresets, seen |-> {}]
      /\ \A g \in Handlers : g # h => put'[g] = Idle
  BY <1>1, <1>4
<1>6. put'[h] # Idle /\ put'[h].at = "checked" /\ put'[h].kind = kind /\ put'[h].target = target
      /\ put'[h].asked = asked /\ put'[h].next = made /\ put'[h].merged = NoPresets /\ put'[h].seen = {}
  BY <1>5 DEF Idle
<1>7. \A g \in Handlers : ~Written(g)'
  BY <1>5, <1>6 DEF Written
<1>8. StoreOK'
  <2>1. DOMAIN put' = Handlers
    BY <1>1, <1>4
  <2> QED BY <1>1, <2>1 DEF StoreInv, StoreOK, FileOK, Presets, Normal
<1>9. \A g \in Handlers : PutOK(g)'
  <2>1. Presets(put[h].next)'
    BY <1>1, <1>2, <1>6 DEF Presets, Normal
  <2>2. IsFile(NoPresets)
    BY DEF IsFile, NoPresets
  <2> QED BY <1>1, <1>5, <1>6, <2>1, <2>2 DEF PutOK, Draft
<1>10. \A g \in Handlers : Keeps(g)'
  <2>1. ASSUME NEW id \in DOMAIN made \cap DOMAIN runtime,
               ByPassword(runtime[id].meta), ByPassword(made[id].meta), DOMAIN asked[id] \cap Passwords = {}
        PROVE  made[id].secret = runtime[id].secret
    <3>1. made[id].secret = SecretOf(list[id].meta) /\ made[id].meta = SealedMeta(list[id].meta)
          /\ id \in DOMAIN list
      <4>1. made[id] = Made(list[id].type, list[id].host, list[id].meta) /\ id \in DOMAIN list
        BY <1>2
      <4> QED BY <4>1 DEF Made
    <3>2. ByPassword(list[id].meta)
      BY <1>2, <2>1, <3>1, AuthenticationStays
    <3> QED BY <2>1, <3>1, <3>2
  <2>2. Keeps(h)'
    BY <1>1, <1>6, <2>1 DEF Keeps
  <2>3. \A g \in Handlers : g # h => Keeps(g)'
    BY <1>5 DEF Keeps
  <2> QED BY <2>2, <2>3
<1>11. Backed'
  <2>1. FileBacks(runtime)
    BY <1>4 DEF StoreInv, Backed
  <2>2. FileBacks(runtime)'
    BY <1>1, <2>1 DEF FileBacks, Backs
  <2> QED BY <1>7, <2>2 DEF Backed
<1>12. PlainValues /\ Literal(list) /\ Readback => Readback'
  <2> SUFFICES ASSUME PlainValues, Literal(list), Readback PROVE Readback'
    OBVIOUS
  <2>1. Literal(runtime) /\ FileReads(runtime)
    BY <1>4 DEF Readback
  <2>2. Literal(runtime)' /\ FileReads(runtime)'
    BY <1>1, <2>1 DEF Literal, FileReads
  <2>3. \A g \in Handlers : put'[g] # Idle => Literal(put[g].next)'
    BY <1>2, <1>5, <1>6 DEF Literal
  <2> QED BY <1>7, <2>2, <2>3 DEF Readback
<1>13. (kind = "save" => SavesOne(list, target)) => \A g \in Handlers : Narrow(g)'
  <2>1. \A g \in Handlers : g # h => Narrow(g)'
    BY <1>5 DEF Narrow
  <2>2. (kind = "save" => SavesOne(made, target)) => Narrow(h)'
    BY <1>1, <1>6 DEF Narrow, SavesOne
  <2> QED BY <1>3, <2>1, <2>2
<1> QED BY <1>8, <1>9, <1>10, <1>11, <1>12, <1>13 DEF StoreInv

\* A password that is not sent is the one the preset had.
LEMMA Hidden ==
  ASSUME StoreOK, NEW id, NEW body \in Bodies
  PROVE  LET b == PreserveHidden(id, body)
         IN  /\ b.type = body.type /\ b.host = body.host
             /\ DOMAIN b.meta \subseteq Keys
             /\ Has(b.meta, "Password") => b.meta["Password"] \in DOMAIN Cipher
             /\ \A k \in Keys \ Passwords : (k \in DOMAIN b.meta <=> k \in DOMAIN body.meta)
                                            /\ (k \in DOMAIN body.meta => b.meta[k] = body.meta[k])
             /\ (/\ id \in DOMAIN runtime /\ ByPassword(runtime[id].meta) /\ ByPassword(b.meta)
                 /\ DOMAIN body.meta \cap Passwords = {}) => SecretOf(b.meta) = runtime[id].secret
             /\ PlainValues /\ Literal(runtime) => \A k \in DOMAIN b.meta : b.meta[k] \notin DOMAIN Resolve
<1> DEFINE b == PreserveHidden(id, body)
<1> DEFINE m == body.meta
<1>1. /\ body = [type |-> body.type, host |-> body.host, meta |-> m] /\ DOMAIN m \subseteq Keys
      /\ Has(m, "Password") => m["Password"] \in DOMAIN Cipher
  BY PresetAssumption DEF IsEntry, Entry
<1>2. PlainValues => \A k \in DOMAIN m : m[k] \notin DOMAIN Resolve
  BY DEF PlainValues
<1>3. CASE id \in DOMAIN runtime /\ KeepsHidden(m, runtime[id].meta)
  <2> DEFINE r == runtime[id]
  <2>1. Normal(r)
    BY <1>3 DEF StoreOK, Presets
  <2>2. b = [body EXCEPT !.meta = Over(m, Restrict(r.meta, DOMAIN r.meta \cap Passwords))]
    BY <1>3 DEF PreserveHidden
  <2>3. b.type = body.type /\ b.host = body.host /\ b.meta = Over(m, Restrict(r.meta, DOMAIN r.meta \cap Passwords))
    BY <1>1, <2>2
  <2>4. DOMAIN m \cap Passwords = {} /\ ByPassword(m)
    BY <1>3 DEF KeepsHidden
  <2>5. PlainValues /\ Literal(runtime) => \A k \in DOMAIN r.meta : r.meta[k] \notin DOMAIN Resolve
    BY <1>3 DEF Literal
  <2> HIDE DEF b, m, r
  <2>6. /\ DOMAIN b.meta = DOMAIN m \union (DOMAIN r.meta \cap Passwords)
        /\ \A k \in DOMAIN m : b.meta[k] = m[k]
        /\ \A k \in DOMAIN r.meta \cap Passwords : b.meta[k] = r.meta[k]
    BY <2>3, <2>4 DEF Over, Restrict
  <2>7. DOMAIN r.meta \subseteq Keys /\ r.secret = SecretOf(r.meta)
        /\ (Has(r.meta, "Password") => r.meta["Password"] \in DOMAIN Cipher)
    BY <2>1 DEF Normal
  <2>8. DOMAIN b.meta \subseteq Keys
    BY <1>1, <2>6, <2>7
  <2>9. \A k \in Keys \ Passwords : (k \in DOMAIN b.meta <=> k \in DOMAIN m)
                                     /\ (k \in DOMAIN m => b.meta[k] = m[k])
    BY <2>6
  <2>10. \A k \in Passwords : (k \in DOMAIN b.meta <=> k \in DOMAIN r.meta)
                               /\ (k \in DOMAIN r.meta => b.meta[k] = r.meta[k])
    BY <2>4, <2>6
  <2>11. Has(b.meta, "Password") => b.meta["Password"] \in DOMAIN Cipher
    BY <2>7, <2>10 DEF Has, Passwords
  <2>12. SecretOf(b.meta) = r.secret
    BY <2>7, <2>10 DEF SecretOf, Has, Passwords
  <2>13. PlainValues /\ Literal(runtime) => \A k \in DOMAIN b.meta : b.meta[k] \notin DOMAIN Resolve
    BY <1>2, <2>5, <2>6
  <2> QED BY <2>3, <2>8, <2>9, <2>11, <2>12, <2>13 DEF b, m, r
<1>4. CASE ~(id \in DOMAIN runtime /\ KeepsHidden(m, runtime[id].meta))
  <2>1. b = body
    BY <1>4 DEF PreserveHidden
  <2> QED BY <1>1, <1>2, <1>4, <2>1 DEF KeepsHidden
<1> QED BY <1>3, <1>4

LEMMA SaveCompactInv ==
  ASSUME StoreInv, NEW h \in Handlers, SaveCompact(h)
  PROVE  StoreInv' /\ (PlainValues /\ Readback => Readback') /\ \A g \in Handlers : Narrow(g)'
<1>1. PICK id \in DOMAIN runtime, body \in Bodies :
        /\ Fingerprint(body) \notin {"", Fingerprint(runtime[id])}
        /\ Begin(h, "save", id, [i \in DOMAIN runtime |-> runtime[i].meta],
             [runtime EXCEPT ![id].meta = With(@, "Fingerprint", Fingerprint(body))])
  BY DEF SaveCompact
<1>2. up /\ Free
  BY DEF SaveCompact
<1> DEFINE asked == [i \in DOMAIN runtime |-> runtime[i].meta]
<1> DEFINE list == [runtime EXCEPT ![id].meta = With(@, "Fingerprint", Fingerprint(body))]
<1> DEFINE m == With(runtime[id].meta, "Fingerprint", Fingerprint(body))
<1>3. StoreOK /\ Presets(runtime)
  BY DEF StoreInv, StoreOK
<1>4. /\ DOMAIN list = DOMAIN runtime
      /\ \A i \in DOMAIN runtime : /\ i # id => list[i] = runtime[i]
                                   /\ i = id => list[i] = [runtime[id] EXCEPT !.meta = m]
  OBVIOUS
<1>5. /\ DOMAIN m = DOMAIN runtime[id].meta \union {"Fingerprint"}
      /\ \A k \in DOMAIN runtime[id].meta \ {"Fingerprint"} : m[k] = runtime[id].meta[k]
      /\ m["Fingerprint"] = Fingerprint(body)
  BY DEF With, Over
<1>6. Normal(runtime[id])
  BY <1>3 DEF Presets
<1>7. Begin(h, "save", id, asked, list)
  BY <1>1
<1>8. Fingerprint(body) # "" /\ PresetAssumption
  BY <1>1, PresetAssumption
<1>9. PlainValues => Fingerprint(body) \notin DOMAIN Resolve
  BY <1>8 DEF PlainValues, Fingerprint, Get
<1> HIDE DEF list, m
<1>10. list[id].type = runtime[id].type /\ list[id].host = runtime[id].host /\ list[id].meta = m
  BY <1>4, <1>6 DEF Normal
<1>11. \A i \in DOMAIN runtime :
         /\ list[i].type = runtime[i].type /\ list[i].host = runtime[i].host
         /\ \A k \in Keys \ {"Fingerprint"} :
              /\ k \in DOMAIN list[i].meta <=> k \in DOMAIN runtime[i].meta
              /\ k \in DOMAIN list[i].meta => list[i].meta[k] = runtime[i].meta[k]
         /\ DOMAIN list[i].meta \subseteq Keys
  <2> TAKE i \in DOMAIN runtime
  <2>1. CASE i = id
    BY <1>5, <1>6, <1>10, <2>1 DEF Normal, Keys
  <2>2. CASE i # id
    <3>1. list[i] = runtime[i] /\ Normal(runtime[i])
      BY <1>3, <1>4, <2>2 DEF Presets
    <3> QED BY <3>1 DEF Normal
  <2> QED BY <2>1, <2>2
<1>12. Askable(list)
  <2>1. DOMAIN list \subseteq IDs
    BY <1>3, <1>4 DEF Presets
  <2>2. ASSUME NEW i \in DOMAIN list, Has(list[i].meta, "Password") PROVE list[i].meta["Password"] \in DOMAIN Cipher
    <3>1. Has(runtime[i].meta, "Password") /\ list[i].meta["Password"] = runtime[i].meta["Password"]
      BY <1>4, <1>11, <2>2 DEF Has, Keys, Passwords
    <3> QED BY <1>3, <1>4, <3>1 DEF Presets, Normal
  <2> QED BY <1>4, <1>11, <2>1, <2>2 DEF Askable
<1>13. SavesOne(list, id)
  BY <1>4, <1>11 DEF SavesOne
<1>14. \A i \in DOMAIN list \cap DOMAIN runtime : SecretOf(list[i].meta) = runtime[i].secret
  <2> TAKE i \in DOMAIN list \cap DOMAIN runtime
  <2>1. SecretOf(list[i].meta) = SecretOf(runtime[i].meta)
    <3>1. \A k \in Passwords : (k \in DOMAIN list[i].meta <=> k \in DOMAIN runtime[i].meta)
                               /\ (k \in DOMAIN list[i].meta => list[i].meta[k] = runtime[i].meta[k])
      BY <1>11 DEF Keys, Passwords
    <3> QED BY <3>1 DEF SecretOf, Has, Passwords
  <2> QED BY <1>3, <2>1 DEF Presets, Normal
<1>15. PlainValues /\ Readback => Literal(list)
  <2> SUFFICES ASSUME PlainValues, Readback, NEW i \in DOMAIN list, NEW k \in DOMAIN list[i].meta
               PROVE  list[i].meta[k] \notin DOMAIN Resolve
    BY DEF Literal
  <2>1. CASE i = id /\ k = "Fingerprint"
    BY <1>5, <1>9, <1>10, <2>1
  <2>2. CASE i = id /\ k # "Fingerprint"
    BY <1>5, <1>10, <2>2 DEF Readback, Literal
  <2>3. CASE i # id
    BY <1>4, <2>3 DEF Readback, Literal
  <2> QED BY <2>1, <2>2, <2>3
<1> HIDE DEF asked
<1>16. /\ StoreInv'
       /\ PlainValues /\ Literal(list) /\ Readback => Readback'
       /\ SavesOne(list, id) => \A g \in Handlers : Narrow(g)'
  BY <1>2, <1>7, <1>12, <1>14, BeginInv
<1> QED BY <1>13, <1>15, <1>16

\* A list that is sent names presets.
LEMMA Sent ==
  ASSUME NEW request \in Requests
  PROVE  /\ \E n \in 0 .. 2 : DOMAIN request = 1 .. n /\ Len(request) = n
         /\ \A i \in DOMAIN request : request[i].id \in IDs \union {New} /\ request[i].body \in Bodies
<1>1. PICK n \in 0 .. 2 : request \in [1 .. n -> [id : IDs \union {New}, body : Bodies]]
  BY DEF Requests
<1> DEFINE S == [id : IDs \union {New}, body : Bodies]
<1>2. DOMAIN request = 1 .. n /\ request \in Seq(S)
  <2> HIDE DEF S
  <2>1. request \in [1 .. n -> S] /\ n \in Nat
    BY <1>1 DEF S
  <2> QED BY <2>1
<1>3. \A i \in DOMAIN request : request[i] \in [id : IDs \union {New}, body : Bodies]
  BY <1>1
<1>4. Len(request) = n
  BY <1>2
<1>5. DOMAIN request = 1 .. n /\ Len(request) = n
  BY <1>2, <1>4
<1> QED BY <1>3, <1>5

\* As many different presets as there are: all of them.
LEMMA SentAll ==
  ASSUME NEW request \in Requests, NEW S, IsFiniteSet(S), New \notin S, Unique(request),
         Len(request) = Cardinality(S), \A i \in DOMAIN request : request[i].id \in S
  PROVE  {request[i].id : i \in DOMAIN request} = S
<1> DEFINE D == {request[i].id : i \in DOMAIN request}
<1>1. PICK n \in 0 .. 2 : DOMAIN request = 1 .. n /\ Len(request) = n
  BY Sent
<1>2. D \subseteq S
  OBVIOUS
<1>3. Cardinality(D) = n
  <2>1. CASE n = 0
    <3>1. D = {}
      BY <1>1, <2>1
    <3> QED BY <2>1, <3>1, FS_EmptySet
  <2>2. CASE n = 1
    <3>1. D = {request[1].id}
      BY <1>1, <2>2
    <3> HIDE DEF D
    <3> QED BY <2>2, <3>1, FS_Singleton
  <2>3. CASE n = 2
    <3>1. D = {request[1].id} \union {request[2].id}
      BY <1>1, <2>3
    <3>2. request[2].id \notin {request[1].id}
      <4>1. 1 \in DOMAIN request /\ 2 \in DOMAIN request
        BY <1>1, <2>3
      <4> QED BY <4>1 DEF Unique
    <3>3. IsFiniteSet({request[1].id}) /\ Cardinality({request[1].id}) = 1
      BY FS_Singleton
    <3> HIDE DEF D
    <3>4. Cardinality({request[1].id} \union {request[2].id}) = Cardinality({request[1].id}) + 1
      BY <3>2, <3>3, FS_AddElement
    <3> QED BY <2>3, <3>1, <3>3, <3>4
  <2>4. n = 0 \/ n = 1 \/ n = 2
    OBVIOUS
  <2> QED BY <2>1, <2>2, <2>3, <2>4
<1> HIDE DEF D
<1>4. Cardinality(D) = Cardinality(S)
  BY <1>1, <1>3
<1>5. D = S
  BY <1>2, <1>4, FS_Subset
<1> QED BY <1>5 DEF D

LEMMA SaveListInv ==
  ASSUME StoreInv, NEW h \in Handlers, SaveList(h)
  PROVE  /\ StoreInv' /\ (PlainValues /\ Readback => Readback')
         /\ NoBlanks => \A g \in Handlers : Narrow(g)'
<1>1. PICK request \in Requests, target \in DOMAIN runtime :
       LET bodies == [i \in DOMAIN request |-> PreserveHidden(request[i].id, request[i].body)]
       IN  /\ ValidSave(request, bodies, target)
           /\ Unique(request)
           /\ LET sent == [id \in {request[i].id : i \in DOMAIN request} |->
                            request[CHOOSE i \in DOMAIN request : request[i].id = id].body]
               IN  Begin(h, "save", target, [id \in DOMAIN sent |-> sent[id].meta],
                     [id \in DOMAIN sent |-> PreserveHidden(id, sent[id])])
  BY DEF SaveList
<1>2. up /\ Free
  BY DEF SaveList
<1> DEFINE bodies == [i \in DOMAIN request |-> PreserveHidden(request[i].id, request[i].body)]
<1> DEFINE D == {request[i].id : i \in DOMAIN request}
<1> DEFINE sent == [id \in D |-> request[CHOOSE i \in DOMAIN request : request[i].id = id].body]
<1> DEFINE asked == [id \in DOMAIN sent |-> sent[id].meta]
<1> DEFINE list == [id \in DOMAIN sent |-> PreserveHidden(id, sent[id])]
<1>3. ValidSave(request, bodies, target) /\ Unique(request) /\ Begin(h, "save", target, asked, list)
  <2>1. ValidSave(request, bodies, target)
    BY <1>1
  <2>2. Unique(request)
    BY <1>1
  <2>3. Begin(h, "save", target, asked, list)
    BY <1>1
  <2> QED BY <2>1, <2>2, <2>3
<1> DEFINE At(id) == CHOOSE i \in DOMAIN request : request[i].id = id
<1>4. StoreOK /\ Presets(runtime) /\ DOMAIN runtime \subseteq IDs
  BY DEF StoreInv, StoreOK, Presets
<1>5. /\ Len(request) = Cardinality(DOMAIN runtime)
      /\ \A i \in DOMAIN request :
           request[i].id \in DOMAIN runtime /\ SameButFingerprint(bodies[i], runtime[request[i].id])
      /\ \A i \in DOMAIN request : Fingerprint(bodies[i]) # Fingerprint(runtime[request[i].id]) => request[i].id = target
  BY <1>3 DEF ValidSave
<1>6. D = DOMAIN runtime
  <2>1. IsFiniteSet(DOMAIN runtime) /\ New \notin DOMAIN runtime
    BY <1>4, PresetAssumption, FS_Subset
  <2> QED BY <1>3, <1>5, <2>1, SentAll
<1>7. \A id \in D : At(id) \in DOMAIN request /\ request[At(id)].id = id
  OBVIOUS
<1>8. DOMAIN list = DOMAIN runtime /\ DOMAIN sent = DOMAIN runtime
      /\ \A id \in DOMAIN runtime : /\ sent[id] = request[At(id)].body /\ asked[id] = sent[id].meta
                                    /\ sent[id] \in Bodies /\ list[id] = PreserveHidden(id, sent[id])
  BY <1>6, <1>7, Sent
<1>9. \A id \in DOMAIN runtime : list[id] = bodies[At(id)]
  BY <1>6, <1>7
<1> HIDE DEF bodies, list, sent, asked, D, At
<1>10. \A id \in DOMAIN runtime :
         /\ SameButFingerprint(list[id], runtime[id])
         /\ id # target => Fingerprint(list[id]) = Fingerprint(runtime[id])
  <2> TAKE id \in DOMAIN runtime
  <2>1. At(id) \in DOMAIN request /\ request[At(id)].id = id /\ list[id] = bodies[At(id)]
    BY <1>6, <1>7, <1>9
  <2> QED BY <1>5, <2>1
<1>11. ASSUME NEW id \in DOMAIN runtime
       PROVE  /\ DOMAIN list[id].meta \subseteq Keys
              /\ Has(list[id].meta, "Password") => list[id].meta["Password"] \in DOMAIN Cipher
              /\ ByPassword(runtime[id].meta) /\ ByPassword(list[id].meta) /\ DOMAIN asked[id] \cap Passwords = {}
                   => SecretOf(list[id].meta) = runtime[id].secret
              /\ PlainValues /\ Literal(runtime) => \A k \in DOMAIN list[id].meta : list[id].meta[k] \notin DOMAIN Resolve
              /\ \A k \in Keys \ Passwords : (k \in DOMAIN list[id].meta <=> k \in DOMAIN asked[id])
                                            /\ (k \in DOMAIN asked[id] => list[id].meta[k] = asked[id][k])
  BY <1>4, <1>8, Hidden
<1>12. Askable(list)
  BY <1>4, <1>8, <1>11 DEF Askable
<1>13. PlainValues /\ Readback => Literal(list)
  BY <1>8, <1>11 DEF Literal, Readback
<1>14. NoBlanks => SavesOne(list, target)
  <2> SUFFICES ASSUME NoBlanks PROVE SavesOne(list, target)
    OBVIOUS
  <2>1. ASSUME NEW id \in DOMAIN runtime
        PROVE  /\ list[id].type = runtime[id].type /\ list[id].host = runtime[id].host
               /\ \A k \in Keys \ {"Fingerprint"} :
                    /\ k \in DOMAIN list[id].meta <=> k \in DOMAIN runtime[id].meta
                    /\ k \in DOMAIN list[id].meta => list[id].meta[k] = runtime[id].meta[k]
    <3> DEFINE m == list[id].meta
    <3> DEFINE r == runtime[id].meta
    <3>1. list[id].type = runtime[id].type /\ list[id].host = runtime[id].host
          /\ Without(m, {"Fingerprint"}) = Without(r, {"Fingerprint"})
      BY <1>10 DEF SameButFingerprint
    <3> HIDE DEF m, r
    <3>2. DOMAIN Without(m, {"Fingerprint"}) = DOMAIN m \ {"Fingerprint"}
          /\ \A k \in DOMAIN m \ {"Fingerprint"} : Without(m, {"Fingerprint"})[k] = m[k]
      BY DEF Without, Restrict
    <3>3. DOMAIN Without(r, {"Fingerprint"}) = DOMAIN r \ {"Fingerprint"}
          /\ \A k \in DOMAIN r \ {"Fingerprint"} : Without(r, {"Fingerprint"})[k] = r[k]
      BY DEF Without, Restrict
    <3> QED BY <3>1, <3>2, <3>3 DEF m, r
  <2>2. ASSUME NEW id \in DOMAIN runtime, id # target
        PROVE  /\ Fingerprint(list[id]) = Fingerprint(runtime[id])
               /\ Has(list[id].meta, "Fingerprint") => Has(runtime[id].meta, "Fingerprint")
    <3>1. "Fingerprint" \in Keys \ Passwords
      BY DEF Keys, Passwords
    <3>2. Has(list[id].meta, "Fingerprint") => Fingerprint(list[id]) = Fingerprint(sent[id]) /\ Has(sent[id].meta, "Fingerprint")
      <4> DEFINE m == list[id].meta
      <4> DEFINE k == "Fingerprint"
      <4>1. (k \in DOMAIN m <=> k \in DOMAIN asked[id]) /\ (k \in DOMAIN asked[id] => m[k] = asked[id][k])
        BY <1>11, <3>1
      <4>2. asked[id] = sent[id].meta
        BY <1>8
      <4> QED BY <4>1, <4>2 DEF Fingerprint, Get, Has
    <3>3. Has(list[id].meta, "Fingerprint") => Fingerprint(list[id]) # ""
      BY <1>8, <3>2 DEF NoBlanks
    <3> QED BY <1>10, <2>2, <3>3 DEF Fingerprint, Get, Has
  <2> QED BY <1>8, <2>1, <2>2 DEF SavesOne
<1>15. /\ StoreInv'
       /\ PlainValues /\ Literal(list) /\ Readback => Readback'
       /\ SavesOne(list, target) => \A g \in Handlers : Narrow(g)'
  <2>1. \A id \in DOMAIN list \cap DOMAIN runtime :
           /\ ByPassword(runtime[id].meta) /\ ByPassword(list[id].meta) /\ DOMAIN asked[id] \cap Passwords = {}
           => SecretOf(list[id].meta) = runtime[id].secret
    BY <1>11
  <2>2. Begin(h, "save", target, asked, list)
    BY <1>3
  <2> QED BY <1>2, <1>12, <2>1, <2>2, BeginInv
<1> QED BY <1>13, <1>14, <1>15

\* The identifiers of a replaced list are identifiers, its presets are those sent.
LEMMA FreshExists ==
  ASSUME NEW request \in Requests, NEW taken, NEW n \in 0 .. 2, DOMAIN request = 1 .. n,
         \A i \in DOMAIN request : request[i].id # New => request[i].id \in taken,
         NEW N, N \subseteq 1 .. n, \A i \in DOMAIN request : i \in N <=> request[i].id = New,
         Cardinality(N) <= Cardinality(IDs \ taken)
  PROVE  \E f \in [DOMAIN request -> IDs] :
           \A i \in DOMAIN request :
             IF request[i].id = New
             THEN f[i] \notin taken /\ \A j \in DOMAIN request : f[j] = f[i] => j = i
             ELSE f[i] = request[i].id
<1> DEFINE A == IDs \ taken
<1>1. IsFiniteSet(A) /\ Cardinality(A) \in Nat
  BY PresetAssumption, FS_Subset, FS_CardinalityType
<1>2. \A i \in DOMAIN request : request[i].id \in IDs \union {New}
  BY Sent
<1>3. Cardinality(N) <= Cardinality(A) /\ A \subseteq IDs /\ \A a \in A : a \notin taken
  OBVIOUS
<1> HIDE DEF A
<1>4. \A i \in DOMAIN request : i \in N <=> request[i].id = New
  OBVIOUS
<1>5. N \subseteq 1 .. n
  OBVIOUS
<1>6. A = {} => N = {}
  <2> SUFFICES ASSUME A = {}, N # {} PROVE FALSE
    OBVIOUS
  <2>1. Cardinality(A) = 0
    BY FS_EmptySet
  <2>2. IsFiniteSet(N) /\ Cardinality(N) \in Nat
    <3>1. IsFiniteSet(1 .. n)
      BY FS_Interval
    <3> QED BY <1>5, <3>1, FS_Subset, FS_CardinalityType
  <2>3. Cardinality(N) # 0
    BY <2>2, FS_EmptySet
  <2> QED BY <1>3, <2>1, <2>2, <2>3
<1>7. ASSUME n = 2, N = {1, 2} PROVE \E a, b \in A : a # b
  <2>1. Cardinality(N) = 2
    <3>1. IsFiniteSet({1}) /\ Cardinality({1}) = 1
      BY FS_Singleton
    <3>2. N = {1} \union {2} /\ 2 \notin {1}
      BY <1>7
    <3>3. Cardinality({1} \union {2}) = Cardinality({1}) + 1
      BY <3>1, <3>2, FS_AddElement
    <3>4. Cardinality(N) = 1 + 1
      BY <3>1, <3>2, <3>3
    <3> QED BY <3>4
  <2>2. PICK a \in A : TRUE
    BY <1>6, <1>7
  <2>3. A # {a}
    <3>1. Cardinality({a}) = 1
      BY FS_Singleton
    <3>2. A = {a} => Cardinality(A) = 1
      BY <3>1
    <3> QED BY <1>3, <2>1, <3>2
  <2> QED BY <2>2, <2>3
<1>8. CASE n = 0 \/ N = {}
  <2> DEFINE f == [i \in DOMAIN request |-> request[i].id]
  <2>1. \A i \in DOMAIN request : request[i].id # New
    BY <1>4, <1>8
  <2>2. f \in [DOMAIN request -> IDs] /\ \A i \in DOMAIN request : f[i] = request[i].id
    BY <1>2, <2>1
  <2> HIDE DEF f
  <2> QED BY <2>1, <2>2
<1>9. CASE n = 1 /\ N # {}
  <2>1. PICK a \in A : TRUE
    BY <1>6, <1>9
  <2> DEFINE f == [i \in DOMAIN request |-> a]
  <2>2. DOMAIN request = {1} /\ request[1].id = New
    <3>1. DOMAIN request = {1} /\ 1 .. n = {1}
      BY <1>9
    <3> QED BY <1>4, <1>5, <1>9, <3>1
  <2>3. f \in [DOMAIN request -> IDs] /\ f[1] = a
    BY <1>3, <2>2
  <2> HIDE DEF f
  <2> QED BY <1>3, <2>1, <2>2, <2>3
<1>10. CASE n = 2 /\ N # {}
  <2>1. DOMAIN request = {1, 2}
    BY <1>10
  <2>2. CASE N = {1, 2}
    <3>1. PICK a, b \in A : a # b
      BY <1>7, <1>10, <2>2
    <3> DEFINE f == [i \in {1, 2} |-> IF i = 1 THEN a ELSE b]
    <3>2. f \in [DOMAIN request -> IDs] /\ f[1] = a /\ f[2] = b
      BY <1>3, <2>1
    <3> HIDE DEF f
    <3>3. request[1].id = New /\ request[2].id = New
      BY <1>4, <2>1, <2>2
    <3> QED BY <1>3, <2>1, <3>1, <3>2, <3>3
  <2>3. CASE N = {1}
    <3>1. PICK a \in A : TRUE
      BY <1>6, <2>3
    <3> DEFINE f == [i \in {1, 2} |-> IF i = 1 THEN a ELSE request[2].id]
    <3>2. request[1].id = New /\ request[2].id # New
      BY <1>4, <2>1, <2>3
    <3>3. request[2].id \in IDs /\ request[2].id \in taken
      BY <1>2, <2>1, <3>2
    <3>4. f \in [DOMAIN request -> IDs] /\ f[1] = a /\ f[2] = request[2].id
      BY <1>3, <2>1, <3>3
    <3> HIDE DEF f
    <3> QED BY <1>3, <2>1, <3>1, <3>2, <3>3, <3>4
  <2>4. CASE N = {2}
    <3>1. PICK a \in A : TRUE
      BY <1>6, <2>4
    <3> DEFINE f == [i \in {1, 2} |-> IF i = 2 THEN a ELSE request[1].id]
    <3>2. request[2].id = New /\ request[1].id # New
      BY <1>4, <2>1, <2>4
    <3>3. request[1].id \in IDs /\ request[1].id \in taken
      BY <1>2, <2>1, <3>2
    <3>4. f \in [DOMAIN request -> IDs] /\ f[2] = a /\ f[1] = request[1].id
      BY <1>3, <2>1, <3>3
    <3> HIDE DEF f
    <3> QED BY <1>3, <2>1, <3>1, <3>2, <3>3, <3>4
  <2>5. N \subseteq {1, 2}
    BY <1>5, <1>10
  <2>6. N = {1, 2} \/ N = {1} \/ N = {2}
    BY <1>10, <2>5
  <2> QED BY <2>2, <2>3, <2>4, <2>6
<1>11. n = 0 \/ n = 1 \/ n = 2
  OBVIOUS
<1> QED BY <1>8, <1>9, <1>10, <1>11

LEMMA ReplaceInv ==
  ASSUME StoreInv, NEW h \in Handlers, Replace(h)
  PROVE  StoreInv' /\ (PlainValues /\ Readback => Readback') /\ \A g \in Handlers : Narrow(g)'
<1>1. PICK request \in Requests :
       /\ Unique(request) /\ Identifiable(request)
       /\ LET list == Identified(request)
          IN  Begin(h, "replace", New, [id \in DOMAIN list |-> list[id].meta], [id \in DOMAIN list |-> PreserveHidden(id, list[id])])
  BY DEF Replace
<1>2. up /\ Free
  BY DEF Replace
<1> DEFINE sent == Identified(request)
<1> DEFINE asked == [id \in DOMAIN sent |-> sent[id].meta]
<1> DEFINE list == [id \in DOMAIN sent |-> PreserveHidden(id, sent[id])]
<1>3. Begin(h, "replace", New, asked, list)
  BY <1>1
<1>4. StoreOK
  BY DEF StoreInv
<1>5. DOMAIN sent \subseteq IDs /\ \A id \in DOMAIN sent : sent[id] \in Bodies
  <2> DEFINE taken == DOMAIN file \union DOMAIN runtime \union {request[i].id : i \in DOMAIN request}
  <2> DEFINE P(f) == \A i \in DOMAIN request :
                       IF request[i].id = New
                       THEN f[i] \notin taken /\ \A j \in DOMAIN request : f[j] = f[i] => j = i
                       ELSE f[i] = request[i].id
  <2> DEFINE fresh == CHOOSE f \in [DOMAIN request -> IDs] : P(f)
  <2>1. PICK n \in 0 .. 2 : DOMAIN request = 1 .. n
    BY Sent
  <2>2. \A i \in DOMAIN request : request[i].id # New => request[i].id \in taken
    OBVIOUS
  <2>3. Cardinality({i \in DOMAIN request : request[i].id = New}) <= Cardinality(IDs \ taken)
    BY <1>1 DEF Identifiable
  <2>4. sent = [id \in {fresh[i] : i \in DOMAIN request} |->
                  request[CHOOSE i \in DOMAIN request : fresh[i] = id].body]
    BY DEF Identified
  <2> HIDE DEF taken
  <2>5. \E f \in [DOMAIN request -> IDs] : P(f)
    <3> DEFINE N == {i \in DOMAIN request : request[i].id = New}
    <3>1. N \subseteq 1 .. n /\ \A i \in DOMAIN request : i \in N <=> request[i].id = New
      BY <2>1
    <3>2. Cardinality(N) <= Cardinality(IDs \ taken)
      BY <2>3
    <3> HIDE DEF N, fresh, sent
    <3> QED BY <2>1, <2>2, <3>1, <3>2, FreshExists
  <2> HIDE DEF P
  <2>6. fresh \in [DOMAIN request -> IDs]
    BY <2>5
  <2> HIDE DEF fresh, sent
  <2>7. DOMAIN sent = {fresh[i] : i \in DOMAIN request}
    BY <2>4
  <2>8. \A id \in DOMAIN sent : \E i \in DOMAIN request : sent[id] = request[i].body
    BY <2>4
  <2> QED BY <2>6, <2>7, <2>8, Sent
<1> HIDE DEF sent
<1>6. DOMAIN list = DOMAIN sent /\ \A id \in DOMAIN sent : asked[id] = sent[id].meta /\ list[id] = PreserveHidden(id, sent[id])
  OBVIOUS
<1> HIDE DEF list, asked
<1>7. ASSUME NEW id \in DOMAIN list
       PROVE  /\ DOMAIN list[id].meta \subseteq Keys
              /\ Has(list[id].meta, "Password") => list[id].meta["Password"] \in DOMAIN Cipher
              /\ id \in DOMAIN runtime /\ ByPassword(runtime[id].meta) /\ ByPassword(list[id].meta)
                 /\ DOMAIN asked[id] \cap Passwords = {}
                   => SecretOf(list[id].meta) = runtime[id].secret
              /\ PlainValues /\ Literal(runtime) => \A k \in DOMAIN list[id].meta : list[id].meta[k] \notin DOMAIN Resolve
  BY <1>4, <1>5, <1>6, Hidden
<1>8. Askable(list)
  BY <1>5, <1>6, <1>7 DEF Askable
<1>9. PlainValues /\ Readback => Literal(list)
  BY <1>7 DEF Literal, Readback
<1>10. /\ StoreInv'
       /\ PlainValues /\ Literal(list) /\ Readback => Readback'
       /\ ("replace" = "save" => SavesOne(list, New)) => \A g \in Handlers : Narrow(g)'
  <2>1. \A id \in DOMAIN list \cap DOMAIN runtime :
           /\ ByPassword(runtime[id].meta) /\ ByPassword(list[id].meta) /\ DOMAIN asked[id] \cap Passwords = {}
           => SecretOf(list[id].meta) = runtime[id].secret
    BY <1>7
  <2> QED BY <1>2, <1>3, <1>8, <2>1, BeginInv
<1> QED BY <1>9, <1>10

----------------------------------------------------------------------------
(* What every behaviour keeps.                                              *)

StoreState ==
  /\ StoreInv
  /\ PlainValues => Readback
  /\ NoBlanks => \A h \in Handlers : Narrow(h)

LEMMA NextInv == StoreState /\ [Next]_vars => StoreState'
<1> SUFFICES ASSUME StoreState, [Next]_vars PROVE StoreState'
  OBVIOUS
<1>1. StoreInv /\ (PlainValues => Readback) /\ (NoBlanks => \A h \in Handlers : Narrow(h))
  BY DEF StoreState
<1>2. CASE Start
  BY <1>1, <1>2, StartInv DEF StoreState
<1>3. CASE Crash
  BY <1>1, <1>3, CrashInv DEF StoreState
<1>4. CASE Edit
  BY <1>1, <1>4, EditInv DEF StoreState
<1>5. ASSUME NEW h \in Handlers, SaveCompact(h) PROVE StoreState'
  BY <1>1, <1>5, SaveCompactInv DEF StoreState
<1>6. ASSUME NEW h \in Handlers, SaveList(h) PROVE StoreState'
  BY <1>1, <1>6, SaveListInv DEF StoreState
<1>7. ASSUME NEW h \in Handlers, Replace(h) PROVE StoreState'
  BY <1>1, <1>7, ReplaceInv DEF StoreState
<1>8. ASSUME NEW h \in Handlers, Write(h) PROVE StoreState'
  BY <1>1, <1>8, WriteInv DEF StoreState
<1>r. ASSUME NEW h \in Handlers, ReadFile(h) PROVE StoreState'
  BY <1>1, <1>r, ReadFileInv DEF StoreState
<1>9. ASSUME NEW h \in Handlers, WriteFails(h) PROVE StoreState'
  BY <1>1, <1>9, WriteFailsInv DEF StoreState
<1>10. ASSUME NEW h \in Handlers, Publish(h) PROVE StoreState'
  BY <1>1, <1>10, PublishInv DEF StoreState
<1>11. CASE UNCHANGED vars
  <2>1. file' = file /\ runtime' = runtime /\ up' = up /\ hasKey' = hasKey /\ put' = put /\ edited' = edited
    BY <1>11 DEF vars
  <2>2. Presets(runtime) => Presets(runtime)'
    BY <2>1 DEF Presets, Normal
  <2>3. StoreOK'
    BY <1>1, <2>1, <2>2 DEF StoreInv, StoreOK, FileOK
  <2>4. \A h \in Handlers : PutOK(h)' /\ Keeps(h)'
    <3>1. \A h \in Handlers : PutOK(h) /\ Keeps(h)
      BY <1>1 DEF StoreInv
    <3>2. \A h \in Handlers : PutOK(h) => PutOK(h)'
      <4>1. put' = put /\ runtime' = runtime /\ up' = up /\ hasKey' = hasKey
        BY <2>1
      <4>2. \A h \in Handlers : Draft(h) => Draft(h)'
        BY <2>1 DEF Draft, Source
      <4>3. \A h \in Handlers : Presets(put[h].next) => Presets(put[h].next)'
        BY <2>1 DEF Presets, Normal
      <4>4. put' = put /\ edited' = edited /\ runtime' = runtime /\ up' = up /\ hasKey' = hasKey
        BY <2>1
      <4> QED BY <4>2, <4>3, <4>4 DEF PutOK
    <3>3. \A h \in Handlers : Keeps(h)'
      BY <2>1, <3>1 DEF Keeps
    <3> QED BY <3>1, <3>2, <3>3
  <2>5. Backed'
    <3>1. Backed
      BY <1>1 DEF StoreInv
    <3> QED BY <2>1, <3>1 DEF Backed, Written, FileBacks, Backs
  <2>6. Readback => Readback'
    BY <2>1 DEF Readback, Literal, FileReads, Written
  <2>7. (\A h \in Handlers : Narrow(h)) => \A h \in Handlers : Narrow(h)'
    BY <2>1 DEF Narrow
  <2> QED BY <1>1, <2>3, <2>4, <2>5, <2>6, <2>7 DEF StoreState, StoreInv
<1> QED BY <1>2, <1>3, <1>4, <1>5, <1>6, <1>7, <1>8, <1>9, <1>10, <1>11, <1>r DEF Next

LEMMA StoreStates == Spec => []StoreState
<1>1. Init => StoreState
  BY InitInv DEF StoreState
<1> QED BY <1>1, NextInv, PTL DEF Spec

----------------------------------------------------------------------------
(* The theorems.                                                            *)

\* The file and the lists hold presets, those of the clients are of a known type, and one
\* request at a time holds the lock.
THEOREM StoreTypes == Spec => []TypeOK
<1>1. StoreState => TypeOK
  <2> SUFFICES ASSUME StoreState PROVE TypeOK
    OBVIOUS
  <2>1. StoreOK /\ \A h \in Handlers : PutOK(h)
    BY DEF StoreState, StoreInv
  <2>2. \A list : Presets(list) => IsList(list) /\ \A id \in DOMAIN list : list[id].type \in Known
    BY DEF Presets, Normal, IsList
  <2>3. IsList(file)
    BY <2>1 DEF StoreOK, FileOK, IsFile, IsEntry, IsList
  <2>4. Presets(runtime) /\ edited \subseteq IDs
    BY <2>1 DEF StoreOK
  <2>5. \A h \in Handlers : put[h] # Idle =>
          /\ put[h].at \in {"checked", "read", "written"} /\ put[h].seen \subseteq IDs
          /\ put[h].current = runtime /\ Presets(put[h].next) /\ IsList(put[h].merged)
    <3> TAKE h \in Handlers
    <3>1. PutOK(h)
      BY <2>1
    <3> DEFINE p == put[h]
    <3>2. p # Idle => /\ p.at \in {"checked", "read", "written"} /\ p.seen \subseteq IDs /\ Presets(p.next)
                      /\ IsFile(p.merged)
                      /\ p = [at |-> p.at, kind |-> p.kind, target |-> p.target, current |-> runtime,
                              asked |-> p.asked, next |-> p.next, merged |-> p.merged, seen |-> p.seen]
      BY <2>4, <3>1 DEF PutOK
    <3>m. p # Idle => IsList(p.merged)
      BY <3>2 DEF IsFile, IsEntry, IsList
    <3> HIDE DEF p
    <3>3. p # Idle => p.current = runtime
      BY <3>2
    <3> QED BY <3>2, <3>3, <3>m DEF p
  <2>6. Cardinality({h \in Handlers : put[h] # Idle}) <= 1
    <3> DEFINE S == {h \in Handlers : put[h] # Idle}
    <3>1. CASE S = {}
      <4>1. Cardinality(S) = 0
        BY <3>1, FS_EmptySet
      <4> HIDE DEF S
      <4>2. 0 <= 1
        OBVIOUS
      <4> QED BY <4>1, <4>2 DEF S
    <3>2. CASE S # {}
      <4>1. PICK h \in S : TRUE
        BY <3>2
      <4>2. S = {h}
        BY <2>1, <4>1 DEF PutOK
      <4> HIDE DEF S
      <4>3. Cardinality(S) = 1
        BY <4>2, FS_Singleton
      <4>4. 1 <= 1
        OBVIOUS
      <4> QED BY <4>3, <4>4 DEF S
    <3> QED BY <3>1, <3>2
  <2> QED BY <2>2, <2>3, <2>4, <2>5, <2>6 DEF TypeOK
<1> QED BY <1>1, StoreStates, PTL

\* When nobody updates them, the file backs the presets that the clients see.
LEMMA SettledBacks == StoreState /\ Settled => StoreOK /\ FileBacks(runtime) /\ (PlainValues => FileReads(runtime))
<1> SUFFICES ASSUME StoreState, Settled PROVE StoreOK /\ FileBacks(runtime) /\ (PlainValues => FileReads(runtime))
  OBVIOUS
<1>1. up /\ \A h \in Handlers : ~Written(h)
  BY DEF Settled, Written
<1> QED BY <1>1 DEF StoreState, StoreInv, Backed, Readback

\* With a key no password the server knows stays readable in the file.
THEOREM PasswordsHidden == Spec => []NoPlaintextLeft
<1>1. StoreState => NoPlaintextLeft
  <2> SUFFICES ASSUME StoreState, Settled, hasKey, NEW id \in DOMAIN runtime \ edited
               PROVE  ~Has(file[id].meta, "Password")
    BY DEF NoPlaintextLeft
  <2>1. id \in IDs
    BY SettledBacks DEF StoreOK, Presets
  <2>2. Backs(file[id], runtime[id])
    BY <2>1, SettledBacks DEF FileBacks
  <2> QED BY <2>2 DEF Backs
<1> QED BY <1>1, StoreStates, PTL

\* A restart brings back what the clients see, if no value is spelled like a reference.
THEOREM RestartsKeep == ASSUME PlainValues PROVE Spec => []RestartKeeps
<1>1. StoreState => RestartKeeps
  <2> SUFFICES ASSUME StoreState, Settled
               PROVE  /\ DOMAIN AfterRestart \ edited = DOMAIN runtime \ edited
                      /\ \A id \in DOMAIN runtime \ edited :
                           LET old == runtime[id]
                               new == AfterRestart[id]
                           IN  /\ new.type = old.type /\ new.host = old.host
                               /\ old.secret # "" => new.secret = old.secret
                               /\ \A k \in DOMAIN old.meta : Get(new.meta, k) = old.meta[k]
    BY DEF RestartKeeps
  <2>1. StoreOK /\ FileBacks(runtime) /\ FileReads(runtime)
    BY SettledBacks
  <2>2. IsFile(file) /\ Presets(runtime) /\ \A id \in DOMAIN file : Sealable(file[id].meta)
    BY <2>1 DEF StoreOK, FileOK
  <2> DEFINE K == {i \in DOMAIN file : file[i].type \in Known}
  <2>3. DOMAIN AfterRestart = K
        /\ \A id \in K : AfterRestart[id] = Made(file[id].type, file[id].host, Resolved(file[id].meta))
    BY <2>2, FileMade
  <2>4. ASSUME NEW id \in DOMAIN runtime \ edited
        PROVE  /\ id \in K /\ Backs(file[id], runtime[id]) /\ Reads(file[id], runtime[id])
               /\ Normal(runtime[id]) /\ IsEntry(file[id]) /\ Sealable(file[id].meta)
    <3>1. id \in IDs /\ Normal(runtime[id])
      BY <2>2 DEF Presets
    <3>2. id \in DOMAIN file /\ Backs(file[id], runtime[id]) /\ Reads(file[id], runtime[id])
      BY <2>1, <3>1 DEF FileBacks, FileReads
    <3>3. IsEntry(file[id]) /\ Sealable(file[id].meta)
      BY <2>2, <3>2 DEF IsFile
    <3>4. file[id].type \in Known
      BY <3>1, <3>2 DEF Backs, Normal
    <3> QED BY <3>1, <3>2, <3>3, <3>4
  <2>5. \A id \in K \ edited : id \in DOMAIN runtime
    <3>1. DOMAIN file \subseteq IDs
      BY <2>2 DEF IsFile
    <3> QED BY <2>1, <3>1 DEF FileBacks
  <2> HIDE DEF K
  <2>6. DOMAIN AfterRestart \ edited = DOMAIN runtime \ edited
    BY <2>3, <2>4, <2>5
  <2>7. ASSUME NEW id \in DOMAIN runtime \ edited
        PROVE  LET old == runtime[id]
                   new == AfterRestart[id]
               IN  /\ new.type = old.type /\ new.host = old.host
                   /\ old.secret # "" => new.secret = old.secret
                   /\ \A k \in DOMAIN old.meta : Get(new.meta, k) = old.meta[k]
    <3>1. AfterRestart[id] = Made(file[id].type, file[id].host, Resolved(file[id].meta))
      BY <2>3, <2>4
    <3>2. /\ Backs(file[id], runtime[id]) /\ Reads(file[id], runtime[id])
          /\ Normal(runtime[id]) /\ IsEntry(file[id]) /\ Sealable(file[id].meta)
      BY <2>4
    <3> DEFINE e == file[id]
    <3> DEFINE r == runtime[id]
    <3> DEFINE new == Made(e.type, e.host, Resolved(e.meta))
    <3>3. /\ Backs(e, r) /\ Reads(e, r) /\ Normal(r) /\ IsEntry(e) /\ Sealable(e.meta)
      BY <3>2
    <3>4. AfterRestart[id] = new
      BY <3>1
    <3> HIDE DEF e, r
    <3>5. /\ new.type = r.type /\ new.host = r.host
          /\ r.secret # "" => new.secret = r.secret
          /\ \A k \in DOMAIN r.meta : Get(new.meta, k) = r.meta[k]
      BY <3>3, RestartEntry
    <3> HIDE DEF new
    <3> QED BY <3>4, <3>5 DEF r
  <2> QED BY <2>6, <2>7
<1> QED BY <1>1, StoreStates, PTL

\* A client that sends a preset back without its password does not take it away.
THEOREM PasswordsKept == Spec => PasswordKept
<1>1. StoreState /\ [Next]_vars =>
        [ \A h \in Handlers, id \in DOMAIN runtime :
            (/\ Publish(h) /\ id \in DOMAIN put[h].next
             /\ ByPassword(runtime[id].meta) /\ ByPassword(put[h].next[id].meta)
             /\ DOMAIN put[h].asked[id] \cap Passwords = {}) =>
              runtime'[id].secret = runtime[id].secret ]_vars
  <2> SUFFICES ASSUME StoreState, NEW h \in Handlers, NEW id \in DOMAIN runtime,
                      Publish(h), id \in DOMAIN put[h].next,
                      ByPassword(runtime[id].meta), ByPassword(put[h].next[id].meta),
                      DOMAIN put[h].asked[id] \cap Passwords = {}
               PROVE  runtime'[id].secret = runtime[id].secret
    OBVIOUS
  <2>1. put[h] # Idle /\ runtime' = put[h].next
    BY DEF Publish
  <2>2. Keeps(h)
    BY DEF StoreState, StoreInv
  <2> QED BY <2>1, <2>2 DEF Keeps
<1> QED BY <1>1, StoreStates, PTL DEF Spec, PasswordKept

\* A save in the making leaves the entry of every other preset as it is, and of its
\* target all but the fingerprint.
LEMMA SavedEntry ==
  ASSUME NEW e, NEW r, NEW n, IsEntry(e), Normal(r), Normal(n), Backs(e, r),
         n.type = r.type, n.host = r.host,
         \A k \in Keys \ {"Fingerprint"} :
           (k \in DOMAIN n.meta <=> k \in DOMAIN r.meta) /\ (k \in DOMAIN n.meta => n.meta[k] = r.meta[k])
  PROVE  LET m == MergedEntry(e, r, n)
         IN  /\ m.type = e.type /\ m.host = e.host
             /\ \A k \in Keys \ {"Fingerprint"} : Get(m.meta, k) = Get(e.meta, k)
             /\ /\ Fingerprint(n) = Fingerprint(r)
                /\ Has(n.meta, "Fingerprint") => Has(r.meta, "Fingerprint")
                => Get(m.meta, "Fingerprint") = Get(e.meta, "Fingerprint")
<1> DEFINE m == MergedEntry(e, r, n)
<1>1. /\ m = [type |-> m.type, host |-> m.host, meta |-> m.meta]
      /\ m.type = PreserveRaw(e.type, r.type, n.type)
      /\ m.host = PreserveRaw(e.host, r.host, n.host)
      /\ DOMAIN m.meta = MergedKeys(e.meta, n.meta)
  BY DEF MergedEntry, MergedMeta
<1>2. \A k \in MergedKeys(e.meta, n.meta) :
        m.meta[k] = IF ~Has(n.meta, k) THEN e.meta[k]
                    ELSE IF Has(r.meta, k) /\ n.meta[k] = r.meta[k] /\ Has(e.meta, k)
                    THEN e.meta[k] ELSE n.meta[k]
  BY DEF MergedEntry, MergedMeta
<1> HIDE DEF m
<1>3. m.type = e.type /\ m.host = e.host
  BY <1>1 DEF PreserveRaw
<1>4. DOMAIN r.meta \subseteq DOMAIN e.meta /\ DOMAIN e.meta \subseteq Keys /\ (hasKey => ~Has(e.meta, "Password"))
      /\ \A k \in DOMAIN e.meta \cap Passwords : k \in DOMAIN r.meta \/ ByPassword(r.meta)
  BY DEF Backs, IsEntry
<1>5. ByPassword(n.meta) <=> ByPassword(r.meta)
  <2>1. "Authentication" \in Keys \ {"Fingerprint"}
    BY DEF Keys
  <2> QED BY <2>1 DEF ByPassword, Get
<1>6. /\ DOMAIN n.meta \subseteq MergedKeys(e.meta, n.meta)
      /\ MergedKeys(e.meta, n.meta) \subseteq DOMAIN n.meta \union DOMAIN e.meta
      /\ \A k \in DOMAIN e.meta : k \in MergedKeys(e.meta, n.meta) \/ k \in Passwords
      /\ \A k \in DOMAIN e.meta \cap Passwords : ByPassword(n.meta) => 
           k \in MergedKeys(e.meta, n.meta) \/ (k = "Password" /\ Has(n.meta, "Encrypted Password"))
  <2>1. ~(Has(n.meta, "Password") /\ Has(n.meta, "Encrypted Password"))
    BY DEF Normal
  <2> QED BY <2>1 DEF MergedKeys, Passwords, Has
<1>7. Has(n.meta, "Encrypted Password") => hasKey
  BY DEF Normal
<1>8. ASSUME NEW k \in Keys, k \in DOMAIN n.meta <=> k \in DOMAIN r.meta, k \in DOMAIN n.meta => n.meta[k] = r.meta[k]
      PROVE  Get(m.meta, k) = Get(e.meta, k)
  <2>1. CASE k \in DOMAIN n.meta
    <3>1. k \in DOMAIN m.meta /\ k \in DOMAIN e.meta /\ m.meta[k] = e.meta[k]
      BY <1>1, <1>2, <1>4, <1>6, <1>8, <2>1 DEF Has
    <3> QED BY <3>1 DEF Get
  <2>2. CASE k \notin DOMAIN n.meta /\ k \in DOMAIN e.meta
    <3>1. k \in MergedKeys(e.meta, n.meta)
      <4>1. CASE k \notin Passwords
        BY <1>6, <2>2, <4>1
      <4>2. CASE k \in Passwords
        <5>1. ByPassword(n.meta)
          BY <1>4, <1>5, <1>8, <2>2, <4>2
        <5>2. ~(k = "Password" /\ Has(n.meta, "Encrypted Password"))
          BY <1>4, <1>7, <2>2 DEF Has
        <5> QED BY <1>6, <2>2, <4>2, <5>1, <5>2
      <4> QED BY <4>1, <4>2
    <3>2. m.meta[k] = e.meta[k]
      BY <1>2, <2>2, <3>1 DEF Has
    <3> QED BY <1>1, <2>2, <3>1, <3>2 DEF Get
  <2>3. CASE k \notin DOMAIN n.meta /\ k \notin DOMAIN e.meta
    <3>1. k \notin DOMAIN m.meta
      BY <1>1, <1>6, <2>3
    <3> QED BY <2>3, <3>1 DEF Get
  <2> QED BY <2>1, <2>2, <2>3
<1>9. \A k \in Keys \ {"Fingerprint"} : Get(m.meta, k) = Get(e.meta, k)
  BY <1>8
<1>10. ASSUME Fingerprint(n) = Fingerprint(r), Has(n.meta, "Fingerprint") => Has(r.meta, "Fingerprint")
       PROVE  Get(m.meta, "Fingerprint") = Get(e.meta, "Fingerprint")
  <2> DEFINE k == "Fingerprint"
  <2>0. k \in Keys \ Passwords
    BY DEF Keys, Passwords
  <2>1. CASE k \in DOMAIN n.meta
    <3>1. k \in DOMAIN r.meta /\ n.meta[k] = r.meta[k]
      BY <1>10, <2>1 DEF Fingerprint, Get, Has
    <3> QED BY <1>8, <2>0, <2>1, <3>1
  <2>2. CASE k \notin DOMAIN n.meta
    <3>1. k \in DOMAIN m.meta <=> k \in DOMAIN e.meta
      BY <1>1, <1>6, <2>0, <2>2
    <3>2. k \in DOMAIN m.meta => m.meta[k] = e.meta[k]
      BY <1>1, <1>2, <2>2 DEF Has
    <3> QED BY <3>1, <3>2 DEF Get
  <2> QED BY <2>1, <2>2
<1> QED BY <1>3, <1>9, <1>10 DEF m

\* A fingerprint save changes the fingerprint of its target and nothing else, if no client
\* sends an empty fingerprint.
THEOREM SavesAreNarrow == ASSUME NoBlanks PROVE Spec => SaveIsNarrow
<1>1. ASSUME StoreState, NEW h \in Handlers, put[h] # Idle, put[h].kind = "save", Publish(h)
      PROVE  SameExcept(runtime, runtime', put[h].target)
  <2>1. Narrow(h) /\ runtime' = put[h].next
    BY <1>1 DEF StoreState, Publish
  <2> DEFINE n == put[h].next
  <2> DEFINE t == put[h].target
  <2>2. /\ DOMAIN n = DOMAIN runtime
        /\ \A id \in DOMAIN runtime :
             /\ n[id].type = runtime[id].type /\ n[id].host = runtime[id].host
             /\ \A k \in Keys \ {"Fingerprint"} : Get(n[id].meta, k) = Get(runtime[id].meta, k)
             /\ id # t => Get(n[id].meta, "Fingerprint") = Get(runtime[id].meta, "Fingerprint")
    <3>1. /\ DOMAIN n = DOMAIN runtime
          /\ \A id \in DOMAIN runtime :
               /\ n[id].type = runtime[id].type /\ n[id].host = runtime[id].host
               /\ \A k \in Keys \ {"Fingerprint"} :
                    (k \in DOMAIN n[id].meta <=> k \in DOMAIN runtime[id].meta)
                    /\ (k \in DOMAIN n[id].meta => n[id].meta[k] = runtime[id].meta[k])
               /\ id # t => Fingerprint(n[id]) = Fingerprint(runtime[id])
      BY <1>1, <2>1 DEF Narrow
    <3> HIDE DEF n, t
    <3> QED BY <3>1 DEF Get, Fingerprint
  <2> HIDE DEF n, t
  <2>3. SameExcept(runtime, n, t)
    BY <2>2 DEF SameExcept
  <2> QED BY <2>1, <2>3 DEF n, t
<1>2. ASSUME StoreState, NEW h \in Handlers, put[h] # Idle, put[h].kind = "save", Write(h)
      PROVE  SameExcept(file, file', put[h].target)
  <2> DEFINE n == put[h].next
  <2> DEFINE t == put[h].target
  <2>1. StoreInv /\ Narrow(h) /\ PutOK(h) /\ StoreOK
    BY <1>2 DEF StoreState, StoreInv
  <2>2. Locked(h) /\ Presets(n) /\ FileOK(file) /\ Presets(runtime)
    BY <1>2, <2>1, Holder DEF PutOK, StoreOK
  <2>3. put[h].at = "read"
    BY <1>2 DEF Write
  <2>g. PICK g : Source(g, h) /\ put[h].merged = Merged(g, runtime, n)
    BY <1>2, <2>1, <2>3 DEF PutOK, Draft
  <2>s. FileOK(g) /\ \A id \in IDs \ edited :
          (id \in DOMAIN g <=> id \in DOMAIN file) /\ (id \in DOMAIN file => g[id] = file[id])
    BY <2>g DEF Source
  <2>4. FileBacks(runtime)
    <3>1. up /\ \A x \in Handlers : ~Written(x)
      BY <2>2, <2>3 DEF Locked, Written
    <3> QED BY <2>1, <3>1 DEF StoreInv, Backed
  <2>5. file' = Merged(g, runtime, n)
    BY <1>2, <2>g DEF Write
  <2>6. /\ DOMAIN n = DOMAIN runtime
        /\ \A id \in DOMAIN runtime :
             /\ n[id].type = runtime[id].type /\ n[id].host = runtime[id].host
             /\ \A k \in Keys \ {"Fingerprint"} :
                  (k \in DOMAIN n[id].meta <=> k \in DOMAIN runtime[id].meta)
                  /\ (k \in DOMAIN n[id].meta => n[id].meta[k] = runtime[id].meta[k])
             /\ id # t => /\ Fingerprint(n[id]) = Fingerprint(runtime[id])
                          /\ Has(n[id].meta, "Fingerprint") => Has(runtime[id].meta, "Fingerprint")
    BY <1>2, <2>1 DEF Narrow
  <2> HIDE DEF n, t
  <2> DEFINE f == Merged(g, runtime, n)
  <2>7. /\ DOMAIN f = DOMAIN n \union (DOMAIN g \ DOMAIN runtime)
        /\ \A id \in DOMAIN f :
             f[id] = IF id \notin DOMAIN n THEN g[id]
                     ELSE IF id \in DOMAIN g /\ id \in DOMAIN runtime
                     THEN MergedEntry(g[id], runtime[id], n[id])
                     ELSE Entry(n[id])
    <3>1. FileOK(g) /\ Presets(n)
      BY <2>2, <2>s
    <3>2. Merges(f, g, runtime, n)
      BY <3>1, MergedFile
    <3> HIDE DEF f
    <3> QED BY <3>2 DEF Merges
  <2> HIDE DEF f
  <2>8. \A id \in DOMAIN runtime \ edited : id \in DOMAIN file /\ Backs(file[id], runtime[id])
    BY <2>2, <2>4 DEF FileBacks, Presets
  <2>d. DOMAIN file \subseteq IDs /\ DOMAIN g \subseteq IDs
    BY <2>2, <2>s DEF FileOK, IsFile
  <2>9. DOMAIN f \ edited = DOMAIN file \ edited
    BY <2>6, <2>7, <2>8, <2>s, <2>d
  <2>10. ASSUME NEW id \in DOMAIN file \ edited
         PROVE  /\ f[id].type = file[id].type /\ f[id].host = file[id].host
                /\ \A k \in Keys : k # "Fingerprint" \/ id # t => Get(f[id].meta, k) = Get(file[id].meta, k)
    <3>0. id \in DOMAIN g /\ g[id] = file[id]
      BY <2>s, <2>d
    <3>1. CASE id \notin DOMAIN runtime
      <4>1. f[id] = file[id]
        BY <2>6, <2>7, <3>0, <3>1
      <4> QED BY <4>1
    <3>2. CASE id \in DOMAIN runtime
      <4> DEFINE e == file[id]
      <4> DEFINE r == runtime[id]
      <4> DEFINE p == n[id]
      <4>1. f[id] = MergedEntry(e, r, p)
        BY <2>6, <2>7, <3>0, <3>2
      <4>2. IsEntry(e) /\ Normal(r) /\ Normal(p) /\ Backs(e, r)
        BY <2>2, <2>6, <2>8, <3>2 DEF FileOK, IsFile, Presets
      <4>3. /\ p.type = r.type /\ p.host = r.host
            /\ \A k \in Keys \ {"Fingerprint"} :
                 (k \in DOMAIN p.meta <=> k \in DOMAIN r.meta) /\ (k \in DOMAIN p.meta => p.meta[k] = r.meta[k])
        BY <2>6, <3>2
      <4>4. id # t => Fingerprint(p) = Fingerprint(r) /\ (Has(p.meta, "Fingerprint") => Has(r.meta, "Fingerprint"))
        BY <2>6, <3>2
      <4> HIDE DEF e, r, p
      <4> DEFINE m == MergedEntry(e, r, p)
      <4>5. /\ m.type = e.type /\ m.host = e.host
            /\ \A k \in Keys \ {"Fingerprint"} : Get(m.meta, k) = Get(e.meta, k)
            /\ /\ Fingerprint(p) = Fingerprint(r)
               /\ Has(p.meta, "Fingerprint") => Has(r.meta, "Fingerprint")
               => Get(m.meta, "Fingerprint") = Get(e.meta, "Fingerprint")
        BY <4>2, <4>3, SavedEntry
      <4> HIDE DEF m
      <4>6. \A k \in Keys : k # "Fingerprint" \/ id # t => Get(m.meta, k) = Get(e.meta, k)
        BY <4>4, <4>5
      <4> QED BY <4>1, <4>5, <4>6 DEF e, m
    <3> QED BY <3>1, <3>2
  <2>11. SameExcept(file, f, t)
    BY <2>9, <2>10 DEF SameExcept
  <2> QED BY <2>5, <2>11 DEF f, n, t
<1>3. StoreState /\ [Next]_vars =>
        [ \A h \in Handlers :
            put[h] # Idle /\ put[h].kind = "save" =>
              /\ Write(h) => SameExcept(file, file', put[h].target)
              /\ Publish(h) => SameExcept(runtime, runtime', put[h].target) ]_vars
  BY <1>1, <1>2
<1> QED BY <1>3, StoreStates, PTL DEF Spec, SaveIsNarrow

\* The entries the server does not understand, and those added to the file while it runs,
\* survive every update that does not use their identifier, but for an edit between the
\* reading and the replacement of the file.
THEOREM StrangersKept == Spec => StrangersSurvive
<1>1. ASSUME StoreState, [Next]_vars, ~Edit, NEW id \in DOMAIN file \ DOMAIN runtime,
             \A h \in Handlers : ~Endangered(h, id)
      PROVE  id \in DOMAIN file' /\ (up => file'[id] = file[id])
  <2>1. StoreOK /\ FileOK(file) /\ \A h \in Handlers : PutOK(h)
    BY <1>1 DEF StoreState, StoreInv, StoreOK
  <2>2. CASE Start
    <3>1. ~up /\ Unlockable(Loaded) /\ file' = IF Changed(Loaded) THEN Merged(file, Loaded, AfterRestart) ELSE file
      BY <2>2 DEF Start, AfterRestart
    <3>2. Presets(AfterRestart)
      BY <2>1, <3>1, Starting
    <3>3. DOMAIN AfterRestart = DOMAIN Loaded
      BY DEF AfterRestart, ApplySecrets
    <3> DEFINE f == Merged(file, Loaded, AfterRestart)
    <3>4. DOMAIN f = DOMAIN AfterRestart \union (DOMAIN file \ DOMAIN Loaded)
      <4>1. FileOK(file) /\ Presets(AfterRestart)
        BY <2>1, <3>2
      <4>2. Merges(f, file, Loaded, AfterRestart)
        BY <4>1, MergedFile
      <4> HIDE DEF f
      <4> QED BY <4>2 DEF Merges
    <3> HIDE DEF f
    <3> QED BY <3>1, <3>3, <3>4 DEF f
  <2>3. ASSUME NEW h \in Handlers, Write(h) PROVE id \in DOMAIN file' /\ (up => file'[id] = file[id])
    <3> DEFINE p == put[h]
    <3>1. p # Idle /\ p.at = "read" /\ file' = p.merged
      BY <2>3 DEF Write
    <3>2. Draft(h) /\ Presets(p.next)
      BY <2>1, <3>1 DEF PutOK
    <3> DEFINE n == p.next
    <3>g. PICK g : Source(g, h) /\ p.merged = Merged(g, runtime, n)
      BY <3>1, <3>2 DEF Draft
    <3>s. FileOK(g) /\ id \in DOMAIN g /\ g[id] = file[id]
      <4>1. id \in IDs /\ id \notin edited \ p.seen
        BY <1>1, <2>1, <3>1 DEF Endangered, FileOK, IsFile
      <4> QED BY <1>1, <3>g, <4>1 DEF Source
    <3> DEFINE f == Merged(g, runtime, n)
    <3>4. DOMAIN f = DOMAIN n \union (DOMAIN g \ DOMAIN runtime)
          /\ \A i \in DOMAIN f :
               f[i] = IF i \notin DOMAIN n THEN g[i]
                      ELSE IF i \in DOMAIN g /\ i \in DOMAIN runtime
                      THEN MergedEntry(g[i], runtime[i], n[i])
                      ELSE Entry(n[i])
      <4>1. FileOK(g) /\ Presets(n)
        BY <3>2, <3>s
      <4>2. Merges(f, g, runtime, n)
        BY <4>1, MergedFile
      <4> HIDE DEF f
      <4> QED BY <4>2 DEF Merges
    <3>5. id \notin DOMAIN n
      BY <1>1, <3>1 DEF Endangered
    <3> HIDE DEF f, n
    <3>6. id \in DOMAIN f /\ f[id] = file[id]
      BY <1>1, <3>4, <3>5, <3>s
    <3> QED BY <3>1, <3>6, <3>g DEF f, n
  <2>4. CASE file' = file
    BY <1>1, <2>4
  <2>5. Start \/ (\E h \in Handlers : Write(h)) \/ file' = file
    BY <1>1 DEF Next, vars, Crash, SaveCompact, SaveList, Replace, Begin, ReadFile, WriteFails, Publish
  <2> QED BY <2>2, <2>3, <2>4, <2>5
<1>2. StoreState /\ [Next]_vars =>
        [ ~Edit =>
            \A id \in DOMAIN file \ DOMAIN runtime :
              (\A h \in Handlers : ~Endangered(h, id)) =>
                id \in DOMAIN file' /\ (up => file'[id] = file[id]) ]_vars
  BY <1>1
<1> QED BY <1>2, StoreStates, PTL DEF Spec, StrangersSurvive

----------------------------------------------------------------------------
(* AppLifecycle: the inductive invariant.                                   *)

\* Before the shutdown begins no server is closed by it, and only a failure can
\* have closed the channel.
Undisturbed ==
  main \in {"load", "start", "wait"} =>
    /\ shutdown = {}
    /\ channel = "closed" => err = "failed"
    /\ main = "load" => channel = "none"

\* A goroutine that has called Done is over; http.ErrServerClosed comes after
\* Shutdown only.
ClosedByShutdown ==
  /\ \A s \in joined : serving[s] \in {"failed", "closed"}
  /\ \A s \in Server : serving[s] = "closed" => s \in shutdown

\* The channel is closed exactly when the variable no longer holds it, and only
\* signals that are registered get into its buffer.
Registered ==
  /\ closeNotify = "set" <=> channel = "open"
  /\ closes = IF channel = "closed" THEN 1 ELSE 0
  /\ buffer \in {"none", "HUP", "INT"}

\* Servers from the loop variable on have not been started; when closing, those
\* above it have been shut down and are drained.
ShutDown(s) == s \in shutdown /\ requests[s] = 0

Progress ==
  /\ main = "load" => turn = 1
  /\ main \in {"load", "start"} => turn >= 1 /\ \A s \in Server : s >= turn => serving[s] = "new"
  /\ main = "close" => turn \in 1 .. Servers /\ \A s \in Server : s > turn => ShutDown(s)
  /\ main \in {"join", "end", "return"} => \A s \in Server : ShutDown(s)
  /\ main \in {"end", "return"} => joined = Server

LifeInv == LifeTypeOK /\ Undisturbed /\ ClosedByShutdown /\ Registered /\ Progress

USE LifecycleAssumption

LEMMA LifeInitInv == LifeInit => LifeInv
BY DEF LifeInit, LifeInv, LifeTypeOK, Undisturbed, ClosedByShutdown, Registered, Progress, Server, Ended

LEMMA StopTyped ==
  ASSUME LifeInv, StopNotify
  PROVE  /\ closeNotify' = "nil" /\ channel' # "open" /\ channel' \in {"none", "closed"}
         /\ closes' = IF channel' = "closed" THEN 1 ELSE 0
         /\ closeNotify # "set" => channel' = channel
BY DEF LifeInv, Registered, StopNotify, LifeTypeOK

\* A goroutine that moves on stays within its states.
LEMMA MoveTyped ==
  ASSUME LifeTypeOK, NEW s \in Server, NEW v \in {"starting", "serving", "failed", "closed"},
         serving' = [serving EXCEPT ![s] = v]
  PROVE  /\ serving' \in [Server -> {"new", "starting", "serving", "failed", "closed"}]
         /\ \A t \in Server : serving'[t] = IF t = s THEN v ELSE serving[t]
BY DEF LifeTypeOK

\* The steps of main.
LEMMA RunInv == LifeInv /\ Run => LifeInv'
<1> SUFFICES ASSUME LifeInv, Run PROVE LifeInv'
  OBVIOUS
<1> USE DEF serverVars, notifyVars, mainVars
<1>1. CASE Load
  <2>1. LifeTypeOK' /\ Progress'
    BY <1>1 DEF Load, LifeInv, LifeTypeOK, Progress, Ended
  <2>2. Undisturbed' /\ ClosedByShutdown' /\ Registered'
    BY <1>1 DEF Load, LifeInv, Undisturbed, ClosedByShutdown, Registered
  <2> QED
    BY <2>1, <2>2 DEF LifeInv
<1>2. CASE LoadFails
  BY <1>2 DEF LoadFails, LifeInv, LifeTypeOK, Undisturbed, ClosedByShutdown, Registered, Progress, Server, Ended, ShutDown
<1>3. CASE Serve
  <2>1. turn \in Server /\ turn + 1 \in 0 .. Servers + 1
    BY <1>3 DEF Serve, LifeInv, LifeTypeOK, Progress, Server
  <2>2. turn \notin joined
    BY <1>3, <2>1 DEF Serve, LifeInv, LifeTypeOK, ClosedByShutdown, Progress
  <2>3. LifeTypeOK'
    BY <1>3, <2>1, MoveTyped DEF Serve, LifeInv, LifeTypeOK
  <2>4. ClosedByShutdown'
    BY <1>3, <2>2 DEF Serve, LifeInv, LifeTypeOK, ClosedByShutdown
  <2>5. Undisturbed' /\ Registered'
    BY <1>3 DEF Serve, LifeInv, Undisturbed, Registered
  <2>6. Progress'
    BY <1>3, <2>1 DEF Serve, LifeInv, LifeTypeOK, Progress, Server
  <2> QED
    BY <2>3, <2>4, <2>5, <2>6 DEF LifeInv
<1>4. CASE Wait
  BY <1>4 DEF Wait, LifeInv, LifeTypeOK, Undisturbed, ClosedByShutdown, Registered, Progress, Server, Ended, ShutDown
<1>5. CASE Receive
  <2>1. LifeTypeOK' /\ Undisturbed' /\ ClosedByShutdown' /\ Registered'
    BY <1>5 DEF Receive, LifeInv, LifeTypeOK, Undisturbed, ClosedByShutdown, Registered, Server, Ended
  <2>2. Progress'
    BY <1>5 DEF Receive, LifeInv, LifeTypeOK, Progress, Server, ShutDown
  <2> QED
    BY <2>1, <2>2 DEF LifeInv
<1>6. CASE Close
  BY <1>6 DEF Close, LifeInv, LifeTypeOK, Undisturbed, ClosedByShutdown, Registered, Progress, Server, Ended, ShutDown
<1>7. CASE CloseReturns
  <2>1. LifeTypeOK' /\ Undisturbed' /\ ClosedByShutdown' /\ Registered'
    BY <1>7 DEF CloseReturns, LifeInv, LifeTypeOK, Undisturbed, ClosedByShutdown, Registered, Progress, Server, Ended
  <2>2. ShutDown(turn)
    BY <1>7 DEF CloseReturns, Drained, ShutDown
  <2>3. turn \in Nat /\ \A s \in Server : s >= turn => ShutDown(s)'
    BY <1>7, <2>2 DEF CloseReturns, LifeInv, LifeTypeOK, Progress, Server, ShutDown
  <2>4. Progress'
    BY <1>7, <2>3 DEF CloseReturns, LifeInv, LifeTypeOK, Progress, Server
  <2> QED
    BY <2>1, <2>4 DEF LifeInv
<1>8. CASE Join
  BY <1>8 DEF Join, AllDone, LifeInv, LifeTypeOK, Undisturbed, ClosedByShutdown, Registered, Progress, Server, Ended, ShutDown
<1>9. CASE End
  BY <1>9, StopTyped DEF End, LifeInv, LifeTypeOK, Undisturbed, ClosedByShutdown, Registered, Progress, Server, Ended, ShutDown
<1>10. CASE Restart
  BY <1>10 DEF Restart, LifeInv, LifeTypeOK, Undisturbed, ClosedByShutdown, Registered, Progress, Server, Ended, ShutDown
<1>11. CASE Exit
  BY <1>11 DEF Exit, LifeInv, LifeTypeOK, Undisturbed, ClosedByShutdown, Registered, Progress, Server, Ended, ShutDown
<1> QED
  BY <1>1, <1>2, <1>3, <1>4, <1>5, <1>6, <1>7, <1>8, <1>9, <1>10, <1>11 DEF Run

\* The steps of a server's goroutine.
LEMMA ServingInv == ASSUME LifeInv, NEW s \in Server, Serving(s) PROVE LifeInv'
<1> USE DEF serverVars, notifyVars, mainVars
<1>1. CASE Listen(s) \/ ListenFails(s) \/ ServeFails(s) \/ ServeReturns(s)
  <2>1. PICK v \in {"serving", "failed", "closed"} :
          /\ serving[s] \in {"starting", "serving"} /\ serving' = [serving EXCEPT ![s] = v]
          /\ v = "closed" => s \in shutdown
          /\ UNCHANGED <<mainVars, err, notifyVars, joined, called, shutdown, requests>>
    BY <1>1 DEF Listen, ListenFails, ServeFails, ServeReturns, Becomes
  <2>2. LifeTypeOK'
    BY <2>1, MoveTyped DEF LifeInv, LifeTypeOK
  <2>3. ClosedByShutdown'
    BY <2>1, MoveTyped DEF LifeInv, LifeTypeOK, ClosedByShutdown
  <2>4. Undisturbed' /\ Registered'
    BY <2>1 DEF LifeInv, Undisturbed, Registered
  <2>5. Progress'
    BY <2>1, MoveTyped DEF LifeInv, Progress, ShutDown
  <2> QED
    BY <2>2, <2>3, <2>4, <2>5 DEF LifeInv
<1>2. CASE Done(s)
  <2>1. LifeTypeOK'
    BY <1>2 DEF Done, LifeInv, LifeTypeOK, Server, Ended
  <2>2. Undisturbed' /\ ClosedByShutdown' /\ Registered'
    BY <1>2 DEF Done, Finished, LifeInv, Undisturbed, ClosedByShutdown, Registered
  <2>3. Progress'
    BY <1>2 DEF Done, LifeInv, LifeTypeOK, Progress, Server, ShutDown
  <2> QED
    BY <2>1, <2>2, <2>3 DEF LifeInv
<1>3. CASE Callback(s)
  <2>1. serving[s] \in {"failed", "closed"}
    BY <1>3 DEF Callback, LifeInv, ClosedByShutdown
  <2>2. StopNotify
    BY <1>3 DEF Callback
  <2>3. LifeTypeOK'
    <3>1. err' \in {"none", "failed", "closed"}
      BY <1>3, <2>1 DEF Callback, Reported, LifeInv, LifeTypeOK
    <3>2. closeNotify' \in {"set", "nil"} /\ channel' \in {"none", "open", "closed"} /\ closes' \in 0 .. 1
      BY <2>2, StopTyped
    <3>3. called' \subseteq joined'
      BY <1>3 DEF Callback, LifeInv, LifeTypeOK
    <3> QED
      BY <1>3, <3>1, <3>2, <3>3 DEF Callback, LifeInv, LifeTypeOK
  <2>4. Undisturbed'
    <3>1. main # "load"
      BY <2>1 DEF LifeInv, Progress, Server
    <3> QED
      BY <1>3, <2>1, <2>2, <3>1, StopTyped DEF Callback, Reported, LifeInv, Undisturbed, ClosedByShutdown
  <2>5. ClosedByShutdown' /\ Registered'
    BY <1>3, <2>2, StopTyped DEF Callback, LifeInv, ClosedByShutdown, Registered
  <2>6. Progress'
    BY <1>3 DEF Callback, LifeInv, LifeTypeOK, Progress, Server, ShutDown
  <2> QED
    BY <2>3, <2>4, <2>5, <2>6 DEF LifeInv
<1> QED
  BY <1>1, <1>2, <1>3 DEF Serving

LEMMA RequestInv == ASSUME LifeInv, NEW s \in Server, Request(s) \/ RequestEnds(s) PROVE LifeInv'
<1> USE DEF notifyVars, mainVars
<1>1. LifeTypeOK'
  <2>1. PICK n \in 0 .. MaxRequests : requests' = [requests EXCEPT ![s] = n]
    BY DEF Request, RequestEnds, LifeInv, LifeTypeOK
  <2>2. requests' \in [Server -> 0 .. MaxRequests]
    BY <2>1 DEF LifeInv, LifeTypeOK
  <2> QED
    BY <2>2 DEF Request, RequestEnds, LifeInv, LifeTypeOK
<1>2. Undisturbed' /\ ClosedByShutdown' /\ Registered'
  BY DEF Request, RequestEnds, LifeInv, Undisturbed, ClosedByShutdown, Registered
<1>3. Progress'
  <2>1. \A t \in Server : ShutDown(t) => ShutDown(t)'
    BY DEF Request, RequestEnds, LifeInv, LifeTypeOK, ShutDown
  <2> QED
    BY <2>1 DEF Request, RequestEnds, LifeInv, Progress
<1> QED
  BY <1>1, <1>2, <1>3 DEF LifeInv

LEMMA SignalInv == ASSUME LifeInv, NEW sig \in Signals, Signal(sig) PROVE LifeInv'
<1> USE DEF serverVars
<1>1. LifeTypeOK'
  BY DEF Signal, LifeInv, LifeTypeOK, Server, Ended
<1>2. Undisturbed' /\ ClosedByShutdown' /\ Registered'
  BY DEF Signal, Notified, LifeInv, Undisturbed, ClosedByShutdown, Registered, Ended
<1>3. Progress'
  BY DEF Signal, LifeInv, Progress, ShutDown
<1> QED
  BY <1>1, <1>2, <1>3 DEF LifeInv

LEMMA LifeStepInv == LifeInv /\ [LifeNext]_lifeVars => LifeInv'
<1> SUFFICES ASSUME LifeInv, [LifeNext]_lifeVars PROVE LifeInv'
  OBVIOUS
<1>1. CASE UNCHANGED lifeVars
  BY <1>1 DEF lifeVars, mainVars, notifyVars, serverVars, LifeInv, LifeTypeOK, Undisturbed, ClosedByShutdown, Registered,
     Progress, ShutDown
<1> QED
  BY <1>1, RunInv, ServingInv, RequestInv, SignalInv DEF LifeNext

----------------------------------------------------------------------------
(* Theorems.                                                                *)

LEMMA LifeInvariant == LifeSpec => []LifeInv
BY LifeInitInv, LifeStepInv, PTL DEF LifeSpec

\* Every variable keeps its type; in particular closes never passes 1: closeNotify
\* is closed once, by run or by the first callback (application.go:105-114, 129-137).
THEOREM LifeTypes == LifeSpec => []LifeTypeOK
<1>1. LifeInv => LifeTypeOK
  BY DEF LifeInv
<1> QED
  BY <1>1, LifeInvariant, PTL

\* When run returns every server's goroutine has called Done and every request has
\* been answered (application.go:120-125, server.go:156-197).
THEOREM RunLeavesNothing == LifeSpec => []NothingOutlivesRun
<1>1. LifeInv => NothingOutlivesRun
  BY DEF LifeInv, Progress, ShutDown, NothingOutlivesRun
<1> QED
  BY <1>1, LifeInvariant, PTL

\* The value run returns names its cause: SIGHUP, an interrupt, or the error of a
\* server that failed (application.go:142-156).
THEOREM OutcomeExplained == LifeSpec => EndsExplained
<1> DEFINE Explained ==
      outcome' # outcome /\ outcome' # "none" =>
        CASE outcome' = "restart" -> buffer = "HUP"
          [] outcome' = "stop" -> buffer = "INT"
          [] outcome' = "error" -> main = "load" \/ err = "failed"
<1>1. ASSUME LifeInv, [LifeNext]_lifeVars PROVE [Explained]_lifeVars
  <2> USE DEF lifeVars, mainVars, notifyVars, serverVars
  <2>1. CASE Receive
    BY <1>1, <2>1 DEF Receive, LifeInv, Undisturbed, Registered
  <2>2. CASE LoadFails
    BY <2>2 DEF LoadFails
  <2>3. CASE Restart
    BY <2>3 DEF Restart
  <2>4. CASE Load \/ Serve \/ Wait \/ Close \/ CloseReturns \/ Join \/ End \/ Exit
    BY <2>4 DEF Load, Serve, Wait, Close, CloseReturns, Join, End, Exit
  <2>5. ASSUME NEW s \in Server, Serving(s) \/ Request(s) \/ RequestEnds(s) PROVE outcome' = outcome
    BY <2>5 DEF Serving, Listen, ListenFails, ServeFails, ServeReturns, Becomes, Done, Callback, Request, RequestEnds
  <2>6. ASSUME NEW sig \in Signals, Signal(sig) PROVE outcome' = outcome
    BY <2>6 DEF Signal
  <2>7. CASE UNCHANGED lifeVars
    BY <2>7
  <2> QED
    BY <1>1, <2>1, <2>2, <2>3, <2>4, <2>5, <2>6, <2>7 DEF LifeNext, Run
<1> QED
  BY <1>1, LifeInvariant, PTL DEF LifeSpec, EndsExplained

===============================================================================
