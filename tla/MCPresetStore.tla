---------------------------- MODULE MCPresetStore ----------------------------
(* Small configurations for PresetStore.                                    *)
EXTENDS PresetStore, TLC

CONSTANTS x, y

Meta(auth, fingerprint, password) ==
  Without(("Authentication" :> auth) @@ ("Fingerprint" :> fingerprint) @@ ("Password" :> password),
          {k \in Keys : (k = "Authentication" /\ auth = "") \/ (k = "Fingerprint" /\ fingerprint = "")
                          \/ (k = "Password" /\ password = "")})

Preset(type, host, meta) == [type |-> type, host |-> host, meta |-> meta]

MCPorts == "h1" :> "h1:22"
MCResolve == "env:pass" :> "p1"
MCCipher == "p1" :> "c1" @@ "p2" :> "c2" @@ "env:pass" :> "c3"

MCFiles == {
  "a" :> Preset("SSH", "h1", Meta("Password", "", "env:pass"))
    @@ "b" :> Preset("SSH", "h2:22", Meta("", "f1", ""))
    @@ "c" :> Preset("Other", "h1", Meta("", "", "p1")) }

MCBodies == {
  Preset("SSH", "h1:22", Meta("Password", "", "")),
  Preset("SSH", "h1", Meta("Password", "f2", "p2")),
  Preset("SSH", "h2:22", Meta("", "f1", "")),
  Preset("SSH", "h2:22", Meta("", "f2", "")) }

MCEdits == {
  [id |-> "a", now |-> NoPresets],
  [id |-> "b", now |-> "b" :> Preset("SSH", "h1", Meta("", "f1", ""))] }

\* A password that is written the way the file writes references.
ReferenceBodies == { Preset("SSH", "h1:22", Meta("Password", "", "env:pass")) }

Symmetry == Permutations(Handlers)

=============================================================================
