------------------------------ MODULE Keystore ------------------------------
(***************************************************************************)
(* The unix keystore (identity/keystore): one master key in the file       *)
(* master.key, under which the secrets of the personas are encrypted.  The *)
(* file is created exclusively, written, and synced in separate steps of   *)
(* the start; an existing file is never written again.                     *)
(***************************************************************************)
EXTENDS Naturals

CONSTANTS
  Persona,
  MaxKeys,      \* bound on the keys ever generated
  Absent,       \* no file, no secret, no key in memory
  OtherScheme   \* an envelope of another platform's scheme

Key == 1..MaxKeys
Short == 0      \* a file whose length is not 32 bytes

ASSUME KeystoreAssumption ==
  /\ MaxKeys \in Nat
  /\ Absent \notin Key \cup {Short} /\ OtherScheme \notin Key

VARIABLES
  file,         \* the content of master.key: Absent, Short, or a key
  synced,       \* whether sync_all has returned for that content
  readable,     \* whether the process may read the file
  secret,       \* persona -> the key its secret is encrypted under,
                \* OtherScheme, or Absent
  lastKey,      \* the keys generated so far
  master,       \* Keystore.master: a key or Absent
  init          \* KeystoreInit of this start

disk == <<file, synced, readable, secret, lastKey>>
keystoreVars == <<disk, master, init>>

KeystoreInitial ==
  /\ file = Absent /\ synced = TRUE /\ readable = TRUE /\ lastKey = 0
  /\ secret \in [Persona -> {Absent, OtherScheme}]
  /\ master = Absent /\ init = "none"

HasEncryptedPersonas == \E p \in Persona : secret[p] \in Key

\* create_new: the file exists from here on.
CreateKey ==
  /\ file = Absent /\ lastKey < MaxKeys
  /\ file' = Short /\ synced' = FALSE /\ readable' = TRUE
  /\ init' = IF HasEncryptedPersonas THEN "CreatedMissingSuspected" ELSE "Created"
  /\ UNCHANGED <<secret, lastKey, master>>

WriteKey ==
  /\ lastKey' = lastKey + 1
  /\ file' = lastKey' /\ synced' = FALSE
  /\ UNCHANGED <<readable, secret, master, init>>

\* Mutant: the key is used without waiting for the disk.
MutSyncKey ==
  /\ master' = file
  /\ UNCHANGED <<file, synced, readable, secret, lastKey, init>>

\* sync_all.  That it makes the name of a new file last too, and not only its
\* contents, is an assumption on the file system: the directory is not synced.
SyncKey ==
  /\ synced' = TRUE
  /\ master' = file
  /\ UNCHANGED <<file, readable, secret, lastKey, init>>

\* load_existing: unreadable or of the wrong size, the file is left alone.
LoadExisting ==
  /\ file # Absent
  /\ init' = CASE ~readable -> "Unreadable" [] file = Short -> "Corrupt" [] OTHER -> "Loaded"
  /\ master' = IF init' = "Loaded" THEN file ELSE Absent
  /\ UNCHANGED disk

Usable(p) == secret[p] \in Key /\ secret[p] = master

\* IdentityManager::create: protect, then one INSERT.
Protect(p) ==
  /\ secret[p] = Absent /\ master # Absent
  /\ secret' = [secret EXCEPT ![p] = master]
  /\ UNCHANGED <<file, synced, readable, lastKey, master, init>>

\* What the disk may hold after a loss of power: what was not synced may be
\* gone or incomplete.
LosePower ==
  /\ \/ UNCHANGED file
     \/ ~synced /\ file' \in {Absent, Short}
  /\ synced' = TRUE
  /\ master' = Absent /\ init' = "none"
  /\ UNCHANGED <<readable, secret, lastKey>>

\* The process dies; the operating system keeps what it was given.
Die ==
  /\ master' = Absent /\ init' = "none"
  /\ UNCHANGED disk

=============================================================================
