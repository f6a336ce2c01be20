------------------------------- MODULE Boot -------------------------------
(***************************************************************************)
(* How the panel reaches its database at start-up, with a crash possible   *)
(* between any two steps: the secret key (internal/config/config.go), the  *)
(* preflight (internal/database/preflight.go), the one-time import of the  *)
(* Python panel's data.json (internal/database/migrate.go) and the schema, *)
(* default settings and migrations of Open (internal/database/database.go).*)
(*                                                                         *)
(* A stored credential is NoRow, Plain or the key it is sealed with; the   *)
(* two directories are DATA_DIR and the parent of DB_PATH.                 *)
(***************************************************************************)
EXTENDS Naturals, FiniteSets

CONSTANTS
  Servers,          \* servers that data.json, the database or an admin names
  SettingKeys,      \* the keys of DefaultSettings other than "ssl"
  NoKey, NoRow, Plain, Default,
  MaxKeys,          \* bound: secret keys in use and one to generate
  MaxCrashes,       \* bound: crashes and failed statements
  MaxEdits          \* bound: what the operator and the admins do

ASSUME BootAssumption ==
  /\ IsFiniteSet(Servers) /\ IsFiniteSet(SettingKeys)
  /\ MaxKeys \in Nat \ {0} /\ MaxCrashes \in Nat /\ MaxEdits \in Nat
  /\ {NoKey, NoRow, Plain, Default} \cap (1..MaxKeys) = {}
  /\ NoRow \notin {Plain, Default} /\ Plain # Default

Keys == 1..MaxKeys
Dirs == {"data", "db"}
Flags == {"credentials_encrypted", "xray_private_keys_cleared", "ssl_keys_encrypted"}

VARIABLES
  env,        \* the SECRET_KEY environment variable, or NoKey
  keyFile,    \* DATA_DIR/.secret_key, or NoKey
  writable,   \* the directories the process may write
  json,       \* data.json: "absent", "valid", "bad" (refused when read) or "dup" (refused by SaveData)
  legacy,     \* the servers data.json names
  file,       \* panel.db: "absent", "empty" (0 bytes) or "made"
  creds,      \* ssh_pass and ssh_key of each row of the servers table
  bare,       \* servers whose protocols still hold a sensitive field
  settings,   \* keys of the settings table
  ssl,        \* the ssl setting: NoRow, Default, Plain or the key it is sealed with
  flags,      \* migration_flags
  imported,   \* the committed database holds what data.json held (history)
  pc, cfgKey, caller,   \* the process: next step, its key, who called Open
  crashes, edits      \* bounds

storeVars == <<creds, bare, settings, ssl, flags>>
bootVars == <<env, keyFile, writable, json, legacy, file, storeVars, imported,
              pc, cfgKey, caller, crashes, edits>>

Sealed == Keys \cup {NoRow}

BootTypeOK ==
  /\ env \in Keys \cup {NoKey} /\ keyFile \in Keys \cup {NoKey} /\ cfgKey \in Keys \cup {NoKey}
  /\ writable \subseteq Dirs
  /\ json \in {"absent", "valid", "bad", "dup"} /\ legacy \subseteq Servers
  /\ file \in {"absent", "empty", "made"}
  /\ creds \in [Servers -> Sealed \cup {Plain}] /\ bare \subseteq {s \in Servers : creds[s] # NoRow}
  /\ settings \subseteq SettingKeys /\ ssl \in Sealed \cup {Plain, Default} /\ flags \subseteq Flags
  /\ imported \in BOOLEAN /\ caller \in {"migrate", "main"}
  /\ crashes \in 0..MaxCrashes /\ edits \in 0..MaxEdits
  /\ (file # "made" => creds = [s \in Servers |-> NoRow] /\ settings = {} /\ flags = {} /\ ssl = NoRow)

NoRows == [s \in Servers |-> NoRow]

(* A fresh install, an install with data.json, or an upgrade in place of   *)
(* the Python panel's database, which has no migration flags, holds plain  *)
(* or already sealed credentials and comes with its key.                   *)
BootInit ==
  /\ env \in {NoKey, 1} /\ writable \in SUBSET Dirs
  /\ imported = FALSE /\ pc = "down" /\ cfgKey = NoKey /\ caller = "main"
  /\ crashes = 0 /\ edits = 0 /\ flags = {}
  /\ \/ /\ json \in {"absent", "valid", "bad", "dup"} /\ legacy = (IF json = "absent" THEN {} ELSE Servers)
        /\ file \in {"absent", "empty"}
        /\ keyFile = NoKey /\ creds = NoRows /\ bare = {} /\ settings = {} /\ ssl = NoRow
     \/ /\ json = "absent" /\ legacy = {} /\ file = "made"
        /\ keyFile = 1 /\ creds \in [Servers -> {Plain, 1}]
        /\ bare \in SUBSET Servers /\ settings = {} /\ ssl \in {Default, Plain}

---------------------------------------------------------------------------
(* Steps of the start-up. Exit is run() returning an error.                *)

At(l) == pc = l
Exit == pc' = "down" /\ cfgKey' = NoKey /\ UNCHANGED caller
Goto(l) == pc' = l /\ UNCHANGED <<cfgKey, caller>>

Fault == crashes < MaxCrashes /\ crashes' = crashes + 1
NoFault == UNCHANGED crashes

Static == UNCHANGED <<env, legacy, writable, edits>>
KeepKeys == UNCHANGED keyFile
KeepDB == UNCHANGED <<file, storeVars, imported>>

Unused == {k \in Keys : k # ssl /\ \A s \in Servers : creds[s] # k}

(* ResolveSecretKey: environment, file, or a new key that is written to    *)
(* the file; a failed write is only logged.                                *)
ResolveSecretKey ==
  /\ At("down") /\ NoFault /\ Static /\ KeepDB /\ UNCHANGED <<json, caller>>
  /\ pc' = "preflight"
  /\ \/ env # NoKey /\ cfgKey' = env /\ KeepKeys
     \/ env = NoKey /\ keyFile # NoKey /\ cfgKey' = keyFile /\ KeepKeys
     \/ /\ env = NoKey /\ keyFile = NoKey /\ cfgKey' \in Unused
        /\ keyFile' = IF "data" \in writable THEN cfgKey' ELSE keyFile

Writable == Dirs \subseteq writable

(* CheckPreflight over both directories.                                   *)
CheckPreflight ==
  /\ At("preflight") /\ NoFault /\ Static /\ KeepKeys /\ KeepDB /\ UNCHANGED json
  /\ IF Writable THEN Goto("stat") ELSE Exit

\* Mutant: a database file of 0 bytes stops the start-up.
StatEmptyFails ==
  /\ At("stat") /\ NoFault /\ Static /\ KeepKeys /\ UNCHANGED <<json, storeVars, imported, file, cfgKey>>
  /\ CASE file = "made"  -> pc' = "ddl" /\ caller' = "main"
       [] file = "empty" -> pc' = "down" /\ UNCHANGED caller
       [] OTHER -> IF json = "absent" THEN pc' = "ddl" /\ caller' = "main" ELSE pc' = "read" /\ UNCHANGED caller

(* MigrateFromDataJSON up to the read: a database with bytes in it skips   *)
(* the import, an empty file is removed.                                   *)
Stat ==
  /\ At("stat") /\ NoFault /\ Static /\ KeepKeys /\ UNCHANGED <<json, storeVars, imported, cfgKey>>
  /\ file' = IF file = "empty" THEN "absent" ELSE file
  /\ IF file = "made" \/ json = "absent"
     THEN pc' = "ddl" /\ caller' = "main"
     ELSE pc' = "read" /\ UNCHANGED caller

(* Reading, parsing and validateMigrationData, then the call of Open.      *)
ReadDataJSON ==
  /\ At("read") /\ NoFault /\ Static /\ KeepKeys /\ KeepDB /\ UNCHANGED json
  /\ IF json = "bad" THEN Exit ELSE pc' = "ddl" /\ caller' = "migrate" /\ UNCHANGED cfgKey

---------------------------------------------------------------------------
(* Open and InitSchema, called by the import and then by main.             *)

(* The first connection creates the file, the DDL fills it: two steps, as  *)
(* a crash between them leaves a file of 0 bytes.                          *)
CreateSchema ==
  /\ At("ddl") /\ NoFault /\ Static /\ KeepKeys /\ UNCHANGED <<json, storeVars, imported>>
  /\ \/ file = "absent" /\ file' = "empty" /\ Goto("ddl")
     \/ file # "absent" /\ file' = "made" /\ Goto("seed")

(* ensureDefaultSettingsLocked, one INSERT OR IGNORE per key.              *)
SeedSetting ==
  /\ At("seed") /\ NoFault /\ Static /\ KeepKeys /\ UNCHANGED <<json, file, creds, bare, flags, imported>>
  /\ \/ \E k \in SettingKeys \ settings : settings' = settings \cup {k} /\ UNCHANGED ssl /\ Goto("seed")
     \/ ssl = NoRow /\ ssl' = Default /\ UNCHANGED settings /\ Goto("seed")
     \/ settings = SettingKeys /\ ssl # NoRow /\ UNCHANGED <<settings, ssl>> /\ Goto("creds")

SetFlag(f) == flags' = flags \cup {f}
PlainRows == {s \in Servers : creds[s] = Plain}

\* Mutant: the flag is written before the rows.
MigrateCredentialsFlagFirst ==
  /\ At("creds") /\ NoFault /\ Static /\ KeepKeys /\ UNCHANGED <<json, file, bare, settings, ssl, imported>>
  /\ \/ "credentials_encrypted" \notin flags /\ SetFlag("credentials_encrypted") /\ UNCHANGED creds /\ Goto("creds")
     \/ "credentials_encrypted" \in flags /\ UNCHANGED <<creds, flags>> /\ Goto("xray")
     \/ \E s \in PlainRows : creds' = [creds EXCEPT ![s] = cfgKey] /\ UNCHANGED flags /\ Goto("creds")

(* migratePlaintextCredentials: the rows one UPDATE at a time, then the    *)
(* flag; a flag already set skips it.                                      *)
MigrateCredentials ==
  /\ At("creds") /\ NoFault /\ Static /\ KeepKeys /\ UNCHANGED <<json, file, bare, settings, ssl, imported>>
  /\ \/ "credentials_encrypted" \in flags /\ UNCHANGED <<creds, flags>> /\ Goto("xray")
     \/ /\ "credentials_encrypted" \notin flags
        /\ \E s \in PlainRows : creds' = [creds EXCEPT ![s] = cfgKey]
        /\ UNCHANGED flags /\ Goto("creds")
     \/ /\ "credentials_encrypted" \notin flags /\ PlainRows = {}
        /\ SetFlag("credentials_encrypted") /\ UNCHANGED creds /\ Goto("xray")

(* migrateXraySensitiveKeys: the same for the protocols column.            *)
MigrateXray ==
  /\ At("xray") /\ NoFault /\ Static /\ KeepKeys /\ UNCHANGED <<json, file, creds, settings, ssl, imported>>
  /\ \/ "xray_private_keys_cleared" \in flags /\ UNCHANGED <<bare, flags>> /\ Goto("ssl")
     \/ /\ "xray_private_keys_cleared" \notin flags
        /\ \E s \in bare : bare' = bare \ {s}
        /\ UNCHANGED flags /\ Goto("xray")
     \/ /\ "xray_private_keys_cleared" \notin flags /\ bare = {}
        /\ SetFlag("xray_private_keys_cleared") /\ UNCHANGED bare /\ Goto("ssl")

(* migratePlaintextSSLKeys, the username index, and the return of Open.    *)
MigrateSSL ==
  /\ At("ssl") /\ NoFault /\ Static /\ KeepKeys /\ UNCHANGED <<json, file, creds, bare, settings, imported>>
  /\ \/ /\ "ssl_keys_encrypted" \notin flags /\ ssl = Plain
        /\ ssl' = cfgKey /\ UNCHANGED flags /\ Goto("ssl")
     \/ /\ "ssl_keys_encrypted" \in flags \/ ssl # Plain
        /\ SetFlag("ssl_keys_encrypted") /\ UNCHANGED ssl
        /\ Goto(IF caller = "migrate" THEN "save" ELSE "running")

Remove == file' = "absent" /\ creds' = NoRows /\ bare' = {} /\ settings' = {} /\ ssl' = NoRow /\ flags' = {}

(* Open returns an error (a statement failed or timed out): the import     *)
(* removes the file, main leaves it.                                       *)
OpenFails ==
  /\ pc \in {"ddl", "seed", "creds", "xray", "ssl"} /\ Fault /\ Static /\ KeepKeys /\ UNCHANGED <<json, imported>>
  /\ IF caller = "migrate" THEN Remove ELSE UNCHANGED <<file, storeVars>>
  /\ Exit

---------------------------------------------------------------------------
(* The import proper.                                                      *)

(* saveServers seals the credentials and strips sensitive fields;          *)
(* saveSettings seals the SSL key if there is one and fills in what lacks. *)
SaveServers ==
  creds' = [s \in Servers |-> IF s \in legacy THEN cfgKey ELSE NoRow] /\ bare' = {}
SaveSettings == settings' = SettingKeys /\ ssl' \in {Default, cfgKey}

(* SaveData: one transaction replaces the content. When it fails the       *)
(* database is removed again.                                              *)
SaveData ==
  /\ At("save") /\ Static /\ KeepKeys /\ UNCHANGED json
  /\ \/ /\ json = "valid" /\ NoFault
        /\ SaveServers /\ SaveSettings /\ imported' = TRUE /\ UNCHANGED <<file, flags>> /\ Goto("rename")
     \/ json = "dup" /\ NoFault /\ Remove /\ UNCHANGED imported /\ Exit
     \/ Fault /\ Remove /\ UNCHANGED imported /\ Exit

(* SetSchemaVersion and the rename to data.json.bak, whose errors are only *)
(* logged; then main opens the database.                                   *)
Rename ==
  /\ At("rename") /\ Static /\ KeepKeys /\ KeepDB
  /\ \/ json' = "absent" /\ NoFault
     \/ UNCHANGED json /\ Fault
  /\ pc' = "ddl" /\ caller' = "main" /\ UNCHANGED cfgKey

---------------------------------------------------------------------------
(* The running panel, the operator and crashes.                            *)

(* CreateServer and RemoveServer of the running panel.                     *)
CreateServer(s) ==
  /\ At("running") /\ creds[s] = NoRow /\ edits < MaxEdits /\ edits' = edits + 1
  /\ creds' = [creds EXCEPT ![s] = cfgKey]
  /\ UNCHANGED <<env, keyFile, writable, json, legacy, file, bare, settings, ssl, flags, imported,
                 pc, cfgKey, caller, crashes>>

RemoveServer(s) ==
  /\ At("running") /\ creds[s] # NoRow /\ edits < MaxEdits /\ edits' = edits + 1
  /\ creds' = [creds EXCEPT ![s] = NoRow]
  /\ UNCHANGED <<env, keyFile, writable, json, legacy, file, bare, settings, ssl, flags, imported,
                 pc, cfgKey, caller, crashes>>

(* The operator gives the directories to the panel, or repairs data.json,  *)
(* while the panel is down.                                                *)
Operator ==
  /\ At("down") /\ edits < MaxEdits /\ edits' = edits + 1
  /\ \/ writable' \in SUBSET Dirs /\ UNCHANGED json
     \/ json \in {"bad", "dup"} /\ json' = "valid" /\ UNCHANGED writable
  /\ UNCHANGED <<env, keyFile, legacy, file, storeVars, imported, pc, cfgKey, caller, crashes>>

(* A crash, or a stop of the running panel.                                *)
Crash ==
  /\ ~At("down") /\ Fault /\ Exit /\ Static /\ KeepKeys /\ KeepDB /\ UNCHANGED json

BootStep ==
  \/ ResolveSecretKey \/ CheckPreflight \/ Stat \/ ReadDataJSON
  \/ CreateSchema \/ SeedSetting \/ MigrateCredentials \/ MigrateXray \/ MigrateSSL
  \/ SaveData \/ Rename

BootNext ==
  \/ BootStep \/ OpenFails \/ Operator \/ Crash
  \/ \E s \in Servers : CreateServer(s) \/ RemoveServer(s)

(* A panel that is down is started again and the start-up makes progress.  *)
BootSpec == BootInit /\ [][BootNext]_bootVars /\ WF_bootVars(BootStep)

---------------------------------------------------------------------------
(* Properties.                                                             *)

(* MigrateFromDataJSON never loses the Python panel's data: wherever a     *)
(* crash or an error stops it, data.json is still in place or a committed  *)
(* database holds all of it.                                               *)
LegacyDataKept ==
  (legacy # {} /\ json = "absent") => imported /\ file = "made"

(* Every sealed credential opens with the key the next start resolves:     *)
(* the preflight refuses to go on with a key that could not be written, as *)
(* it runs after ResolveSecretKey and before the first database write.     *)
KeyOpensCredentials ==
  \A k \in Keys :
    (ssl = k \/ \E s \in Servers : creds[s] = k) => k = (IF env # NoKey THEN env ELSE keyFile)

(* A panel that runs has finished the migrations of InitSchema, whatever   *)
(* crashes interrupted them: no plain credential, no sensitive protocol    *)
(* field, every default setting.                                           *)
MigrationsComplete ==
  At("running") => PlainRows = {} /\ bare = {} /\ ssl \notin {Plain, NoRow} /\ settings = SettingKeys

(* Start-up loses nothing: the imported data, the key of the credentials   *)
(* and the migrations survive every crash and every error.                 *)
BootKeepsData == LegacyDataKept /\ KeyOpensCredentials /\ MigrationsComplete

Startable == Writable /\ (json \in {"absent", "valid"} \/ file = "made")

(* Once nothing fails any more, the panel runs, unless a directory is not  *)
(* writable or data.json is refused: no earlier crash leaves files behind  *)
(* that stop every later start.                                            *)
StartsEventually == []<>(Startable => At("running"))
===========================================================================
