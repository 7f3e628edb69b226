----------------------------- MODULE PresetStore -----------------------------
(***************************************************************************)
(* The presets of a server: the configuration file, the live repository    *)
(* and the API that updates both (application/controller/preset_config.go, *)
(* application/configuration/preset*.go, application.go,                   *)
(* normalizeStartupPresets, and command/commands.go, Reconfigure).         *)
(* A list of presets is a function from identifiers, its order is left     *)
(* out; a preset has a type, one string field ("host", which stands for    *)
(* title, host and tab colour) and its Meta as a partial function. Meta    *)
(* values in the file may be references (environment:// and file://).      *)
(* Every preset in the file has an identifier: those generated at start    *)
(* are left out.                                                           *)
(***************************************************************************)
EXTENDS Naturals, Sequences, FiniteSets, Functions

CONSTANTS
  IDs,       \* identifiers of presets
  Known,     \* the types of the registered commands
  Files,     \* the configuration files to start from
  Bodies,    \* the presets clients send, without identifier
  Edits,     \* what an operator does to the file by hand: an entry and what it leaves of it
  Ports,     \* the hosts without a port, and what they become
  Resolve,   \* the values String.Parse resolves, and what they stand for
  Unknown,   \* the values it refuses, of a scheme it does not know
  Cipher,    \* the encryption of passwords
  Handlers,  \* concurrent requests
  MaxUpdates \* bound: updates begun in all

New == "" \* a preset sent without identifier

VARIABLES
  file,    \* the presets in the file, by identifier
  runtime, \* PresetRepository.presets, by identifier
  up,      \* the server runs
  hasKey,  \* SHELLPORT_PRESET_SECRET_KEY is set
  put,     \* [Handlers -> the update a request is making]
  edited,  \* identifiers whose entry was edited by hand since the server started
  updates  \* updates begun, to bound them

vars == <<file, runtime, up, hasKey, put, edited, updates>>

Idle == [at |-> "idle"]

NoPresets == [id \in {} |-> {}]

Passwords == {"Password", "Encrypted Password"}
Keys == Passwords \cup {"Authentication", "Fingerprint"}

IsList(list) == DOMAIN list \subseteq IDs /\ \A id \in DOMAIN list : DOMAIN list[id].meta \subseteq Keys

TypeOK ==
  /\ IsList(file) /\ IsList(runtime) /\ edited \subseteq IDs
  /\ \A id \in DOMAIN runtime : runtime[id].type \in Known
  /\ \A h \in Handlers : put[h] # Idle =>
       /\ put[h].at \in {"checked", "read", "written"} /\ put[h].seen \subseteq IDs
       /\ IsList(put[h].current) /\ IsList(put[h].next) /\ IsList(put[h].merged)
  /\ Cardinality({h \in Handlers : put[h] # Idle}) <= 1

Init ==
  /\ file \in Files /\ runtime = NoPresets /\ up = FALSE /\ hasKey \in BOOLEAN
  /\ put = [h \in Handlers |-> Idle] /\ edited = {} /\ updates = 0

----------------------------------------------------------------------------
(* Metadata.                                                                *)

Get(meta, key) == IF key \in DOMAIN meta THEN meta[key] ELSE ""
Has(meta, key) == key \in DOMAIN meta
Without(meta, keys) == Restrict(meta, DOMAIN meta \ keys)

\* f, and g where f says nothing.
Over(f, g) == [x \in DOMAIN f \cup DOMAIN g |-> IF x \in DOMAIN f THEN f[x] ELSE g[x]]
With(meta, key, value) == Over([k \in {key} |-> value], meta)

ByPassword(meta) == Get(meta, "Authentication") = "Password"

Or(f, value) == IF value \in DOMAIN f THEN f[value] ELSE value

\* presetInputs.concretize; one value of an unknown scheme fails the whole file.
Concretize(list) ==
  [id \in DOMAIN list |->
    [list[id] EXCEPT !.meta = [k \in DOMAIN @ |-> Or(Resolve, @[k])]]]

Readable(list) == \A id \in DOMAIN list : \A k \in DOMAIN list[id].meta : list[id].meta[k] \notin Unknown

\* Commands.Reconfigure drops what no command claims and adds missing ports.
Reconfigure(list) ==
  [id \in {i \in DOMAIN list : list[i].type \in Known} |->
    [list[id] EXCEPT !.host = Or(Ports, @)]]

\* ApplyPresetSecrets: a plaintext password wins, and is encrypted if there is a key.
Decrypt(text) == CHOOSE p \in DOMAIN Cipher : Cipher[p] = text

SecretOf(meta) ==
  IF Has(meta, "Password") THEN meta["Password"]
  ELSE IF Has(meta, "Encrypted Password") THEN Decrypt(meta["Encrypted Password"]) ELSE ""

SealedMeta(meta) ==
  IF ~Has(meta, "Password") THEN meta
  ELSE IF hasKey THEN With(Without(meta, {"Password"}), "Encrypted Password", Cipher[meta["Password"]])
  ELSE Without(meta, {"Encrypted Password"})

Unlockable(list) ==
  \A id \in DOMAIN list :
    Has(list[id].meta, "Encrypted Password") => hasKey \/ Has(list[id].meta, "Password")

ApplySecrets(list) ==
  [id \in DOMAIN list |->
    [type |-> list[id].type, host |-> list[id].host, meta |-> SealedMeta(list[id].meta),
     secret |-> SecretOf(list[id].meta)]]

----------------------------------------------------------------------------
(* The file.                                                                *)

Entry(preset) == [type |-> preset.type, host |-> preset.host, meta |-> preset.meta]

PreserveRaw(raw, current, next) == IF next = current THEN raw ELSE next

\* mergePresetMeta: keys the next preset lacks stay as they are in the file, except
\* passwords a preset no longer authenticates with; a ciphertext drives out plaintext.
MergedKeys_Plaintext(raw, next) ==
  DOMAIN next \cup {k \in DOMAIN raw : k \in Passwords => ByPassword(next)}
MergedKeys(raw, next) ==
  (DOMAIN next \cup {k \in DOMAIN raw : k \in Passwords => ByPassword(next)})
    \ (IF Has(next, "Encrypted Password") THEN {"Password"} ELSE {})

MergedMeta(raw, current, next) ==
  [k \in MergedKeys(raw, next) |->
    IF ~Has(next, k) THEN raw[k]
    ELSE IF Has(current, k) /\ next[k] = current[k] /\ Has(raw, k) THEN raw[k] ELSE next[k]]

MergedEntry(raw, current, next) ==
  [type |-> PreserveRaw(raw.type, current.type, next.type),
   host |-> PreserveRaw(raw.host, current.host, next.host),
   meta |-> MergedMeta(raw.meta, current.meta, next.meta)]

\* mergePresetInputs: entries of the file the runtime never knew are kept.
Kept_All(raw, current) == DOMAIN raw
Kept(raw, current) == DOMAIN raw \ DOMAIN current

Merged(raw, current, next) ==
  [id \in DOMAIN next \cup Kept(raw, current) |->
    IF id \notin DOMAIN next THEN raw[id]
    ELSE IF id \in DOMAIN raw /\ id \in DOMAIN current
    THEN MergedEntry(raw[id], current[id], next[id])
    ELSE Entry(next[id])]

IsEntry(e) == e = Entry(e) /\ DOMAIN e.meta \subseteq Keys
IsFile(list) == DOMAIN list \subseteq IDs /\ \A id \in DOMAIN list : IsEntry(list[id])

\* A password in the file is a reference or can be encrypted.
Sealable(meta) == Has(meta, "Password") => meta["Password"] \in DOMAIN Resolve \cup DOMAIN Cipher

\* What the constants stand for. A host with a port keeps it; encryption takes every
\* password in use, and no two have the same ciphertext.
ASSUME PresetAssumption ==
  /\ IsFiniteSet(IDs) /\ New \notin IDs
  /\ \A list \in Files : IsFile(list) /\ \A id \in DOMAIN list : Sealable(list[id].meta)
  /\ \A body \in Bodies : IsEntry(body) /\ (Has(body.meta, "Password") => body.meta["Password"] \in DOMAIN Cipher)
  /\ \A edit \in Edits :
       /\ edit.id \in IDs /\ DOMAIN edit.now \subseteq {edit.id} /\ IsFile(edit.now)
       /\ \A id \in DOMAIN edit.now : Sealable(edit.now[id].meta)
  /\ \A host \in DOMAIN Ports : Ports[host] \notin DOMAIN Ports
  /\ \A value \in DOMAIN Resolve : Resolve[value] \in DOMAIN Cipher
  /\ \A p, q \in DOMAIN Cipher : Cipher[p] = Cipher[q] => p = q

----------------------------------------------------------------------------
(* The server starts: normalizeStartupPresets. It rewrites the file if it   *)
(* found passwords to encrypt or to drop.                                   *)

Loaded == Reconfigure(Concretize(file))

Changed(list) ==
  \E id \in DOMAIN list :
    Has(list[id].meta, "Password") /\ (hasKey \/ Has(list[id].meta, "Encrypted Password"))

Start ==
  /\ ~up /\ Readable(file) /\ Unlockable(Loaded)
  /\ up' = TRUE /\ runtime' = ApplySecrets(Loaded) /\ edited' = {}
  /\ file' = IF Changed(Loaded) THEN Merged(file, Loaded, runtime') ELSE file
  /\ UNCHANGED <<hasKey, put, updates>>

\* It ends at any moment, and requests with it.
Crash ==
  /\ up /\ up' = FALSE /\ runtime' = NoPresets
  /\ put' = [h \in Handlers |-> Idle]
  /\ UNCHANGED <<file, hasKey, edited, updates>>

\* The operator edits an entry, adds one or removes one while the server runs, at any
\* moment of an update (an edit in the middle of a start is left out).
Edit ==
  /\ up /\ edited = {}
  /\ \E edit \in Edits :
       /\ edited' = {edit.id}
       /\ file' = Over(edit.now, Without(file, {edit.id}))
  /\ UNCHANGED <<runtime, up, hasKey, put, updates>>

----------------------------------------------------------------------------
(* Put. What a client sends is a list of presets, some without identifier.  *)

Requests == UNION {[1 .. n -> [id : IDs \cup {New}, body : Bodies]] : n \in 0 .. 2}

\* EnsurePresetIDs: new identifiers are random, a repeated one is refused.
Unique_Unchecked(request) == TRUE
Unique(request) == \A i, j \in DOMAIN request : request[i].id = request[j].id => i = j \/ request[i].id = New

Identified(request) ==
  LET taken == DOMAIN file \cup DOMAIN runtime \cup {request[i].id : i \in DOMAIN request}
      fresh == CHOOSE f \in [DOMAIN request -> IDs] :
                 \A i \in DOMAIN request :
                   IF request[i].id = New
                   THEN f[i] \notin taken /\ \A j \in DOMAIN request : f[j] = f[i] => j = i
                   ELSE f[i] = request[i].id
  IN  [id \in {fresh[i] : i \in DOMAIN request} |->
         request[CHOOSE i \in DOMAIN request : fresh[i] = id].body]

\* There are identifiers left for the presets without one (a bound of the model).
Identifiable(request) ==
  Cardinality({i \in DOMAIN request : request[i].id = New})
    <= Cardinality(IDs \ (DOMAIN file \cup DOMAIN runtime \cup {request[i].id : i \in DOMAIN request}))

\* preserveHiddenPresetPasswords: responses never show passwords, so a preset sent
\* back without one keeps the one it had.
KeepsHidden(meta, current) ==
  ByPassword(meta) /\ ByPassword(current) /\ DOMAIN meta \cap Passwords = {}
PreserveHidden_Never(id, body) == body
PreserveHidden(id, body) ==
  IF id \in DOMAIN runtime /\ KeepsHidden(body.meta, runtime[id].meta)
  THEN [body EXCEPT !.meta = Over(@, Restrict(runtime[id].meta, DOMAIN runtime[id].meta \cap Passwords))]
  ELSE body

\* validateFingerprintOnlyPresetUpdate.
SameButFingerprint(body, current) ==
  /\ body.type = current.type /\ body.host = current.host
  /\ Without(body.meta, {"Fingerprint"}) = Without(current.meta, {"Fingerprint"})

Fingerprint(preset) == Get(preset.meta, "Fingerprint")

ValidSave(request, bodies, target) ==
  LET changed == {i \in DOMAIN request : Fingerprint(bodies[i]) # Fingerprint(runtime[request[i].id])}
  IN  /\ Len(request) = Cardinality(DOMAIN runtime)
      /\ \A i \in DOMAIN request :
           request[i].id \in DOMAIN runtime /\ SameButFingerprint(bodies[i], runtime[request[i].id])
      /\ Cardinality(changed) = 1
      /\ \A i \in changed : request[i].id = target /\ Fingerprint(bodies[i]) # ""

\* updateLock, held from the reading of the repository to its replacement.
Free == \A h \in Handlers : put[h] = Idle

\* The update is checked and prepared against the presets of this moment.
Begin(h, kind, target, asked, next) ==
  /\ Unlockable(next)
  /\ updates < MaxUpdates /\ updates' = updates + 1
  /\ put' = [put EXCEPT ![h] = [at |-> "checked", kind |-> kind, target |-> target, current |-> runtime,
                                asked |-> asked, next |-> Reconfigure(ApplySecrets(next)),
                                merged |-> NoPresets, seen |-> {}]]
  /\ UNCHANGED <<file, runtime, up, hasKey, edited>>

\* A fingerprint as the browser saves it, for one preset (isCompactFingerprintRequest).
SaveCompact(h) ==
  /\ up /\ put[h] = Idle /\ Free
  /\ \E id \in DOMAIN runtime, body \in Bodies :
       /\ Fingerprint(body) \notin {"", Fingerprint(runtime[id])}
       /\ Begin(h, "save", id, [i \in DOMAIN runtime |-> runtime[i].meta],
            [runtime EXCEPT ![id].meta = With(@, "Fingerprint", Fingerprint(body))])

\* A fingerprint saved by sending the whole list.
SaveList(h) ==
  /\ up /\ put[h] = Idle /\ Free
  /\ \E request \in Requests, target \in DOMAIN runtime :
       LET bodies == [i \in DOMAIN request |-> PreserveHidden(request[i].id, request[i].body)]
       IN  /\ ValidSave(request, bodies, target)
           /\ Unique(request)
           /\ LET sent == [id \in {request[i].id : i \in DOMAIN request} |->
                            request[CHOOSE i \in DOMAIN request : request[i].id = id].body]
               IN  Begin(h, "save", target, [id \in DOMAIN sent |-> sent[id].meta],
                     [id \in DOMAIN sent |-> PreserveHidden(id, sent[id])])

\* An administrator replaces the list.
Replace(h) ==
  /\ up /\ put[h] = Idle /\ Free
  /\ \E request \in Requests :
       /\ Unique(request) /\ Identifiable(request)
       /\ LET list == Identified(request)
          IN  Begin(h, "replace", New, [id \in DOMAIN list |-> list[id].meta], [id \in DOMAIN list |-> PreserveHidden(id, list[id])])

\* replaceFilePresets reads the file and merges; "seen" (history) are the edits it saw.
ReadFile(h) ==
  /\ put[h] # Idle /\ put[h].at = "checked"
  /\ put' = [put EXCEPT ![h].at = "read", ![h].seen = edited,
                         ![h].merged = Merged(file, put[h].current, put[h].next)]
  /\ UNCHANGED <<file, runtime, up, hasKey, edited, updates>>

\* atomic.ReplaceFile, over whatever the file has become since.
Write(h) ==
  /\ put[h] # Idle /\ put[h].at = "read"
  /\ file' = put[h].merged
  /\ put' = [put EXCEPT ![h].at = "written"]
  /\ UNCHANGED <<runtime, up, hasKey, edited, updates>>

\* The file cannot be read or replaced: 500, and nothing has changed.
WriteFails(h) ==
  /\ put[h] # Idle /\ put[h].at \in {"checked", "read"}
  /\ put' = [put EXCEPT ![h] = Idle]
  /\ UNCHANGED <<file, runtime, up, hasKey, edited, updates>>

\* PresetRepository.Replace, and the lock is released.
Publish(h) ==
  /\ put[h] # Idle /\ put[h].at = "written"
  /\ runtime' = put[h].next
  /\ put' = [put EXCEPT ![h] = Idle]
  /\ UNCHANGED <<file, up, hasKey, edited, updates>>

Next ==
  \/ Start \/ Crash \/ Edit
  \/ \E h \in Handlers :
       SaveCompact(h) \/ SaveList(h) \/ Replace(h) \/ ReadFile(h) \/ Write(h) \/ WriteFails(h) \/ Publish(h)

Spec == Init /\ [][Next]_vars

----------------------------------------------------------------------------
(* Properties.                                                              *)

\* What the next start would load.
AfterRestart == ApplySecrets(Loaded)

Settled == up /\ \A h \in Handlers : put[h] = Idle

\* Hand edits apart, a restart brings back what the clients see: every preset with
\* everything it holds, its password included, and none that was deleted, whatever
\* was added, replaced, saved or interrupted before.
RestartKeeps ==
  Settled =>
    /\ DOMAIN AfterRestart \ edited = DOMAIN runtime \ edited
    /\ \A id \in DOMAIN runtime \ edited :
         LET old == runtime[id]
             new == AfterRestart[id]
         IN  /\ new.type = old.type /\ new.host = old.host
             /\ old.secret # "" => new.secret = old.secret
             /\ \A k \in DOMAIN old.meta : Get(new.meta, k) = old.meta[k]

\* preset_config.go:68, "Put replaces the full preset list, ... persisting the file",
\* and CONFIGURATION.md:303-304: what a restart loads is what Put has answered, so
\* that a key an update removed is gone.
RestartExact == Settled /\ edited = {} => AfterRestart = runtime

\* CONFIGURATION.md:372-375, "startup migrates plaintext preset passwords to Encrypted
\* Password": whatever the server and the API have written themselves loads again.
StartsAgain == Settled /\ edited = {} => Readable(file) /\ Unlockable(Loaded)

SameExcept(old, new, target) ==
  /\ DOMAIN new \ edited = DOMAIN old \ edited
  /\ \A id \in DOMAIN old \ edited :
       /\ new[id].type = old[id].type /\ new[id].host = old[id].host
       /\ \A k \in Keys :
            k # "Fingerprint" \/ id # target => Get(new[id].meta, k) = Get(old[id].meta, k)

\* A fingerprint save changes the fingerprint of its target and nothing else, in the
\* repository and, entries edited by hand apart, in the file, whoever else updates
\* presets meanwhile; references and what other requests have just stored stay.
SaveIsNarrow ==
  [][ \A h \in Handlers :
        put[h] # Idle /\ put[h].kind = "save" =>
          /\ Write(h) => SameExcept(file, file', put[h].target)
          /\ Publish(h) => SameExcept(runtime, runtime', put[h].target) ]_vars

\* An update under way uses the identifier, or has read the file before the entry was
\* edited by hand and is about to replace it.
Endangered(h, id) ==
  put[h] # Idle /\ (id \in DOMAIN put[h].next \/ (put[h].at = "read" /\ id \in edited \ put[h].seen))

\* The entries the server does not understand, and those added to the file while it
\* runs, survive every update that does not use their identifier, but for an edit that
\* falls between the reading and the replacement of the file: the update undoes it.
StrangersSurvive ==
  [][ ~Edit =>
        \A id \in DOMAIN file \ DOMAIN runtime :
          (\A h \in Handlers : ~Endangered(h, id)) =>
            id \in DOMAIN file' /\ (up => file'[id] = file[id]) ]_vars

\* A client that sends a preset back as it was shown, without its password, does not
\* take the password away.
PasswordKept ==
  [][ \A h \in Handlers, id \in DOMAIN runtime :
        (/\ Publish(h) /\ id \in DOMAIN put[h].next
         /\ ByPassword(runtime[id].meta) /\ ByPassword(put[h].next[id].meta)
         /\ DOMAIN put[h].asked[id] \cap Passwords = {}) =>
          runtime'[id].secret = runtime[id].secret ]_vars

\* With a key no password the server knows stays readable in the file.
NoPlaintextLeft ==
  Settled /\ hasKey =>
    \A id \in DOMAIN runtime \ edited : ~Has(file[id].meta, "Password")

============================================================================
