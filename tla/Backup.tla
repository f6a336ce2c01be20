------------------------------ MODULE Backup ------------------------------
(***************************************************************************)
(* The settings page of the panel (internal/handlers/settings.go): saving  *)
(* the settings, downloading a backup, restoring it into a panel that has  *)
(* changed since or has been installed anew, and deleting the users that   *)
(* came from RemnaWave. Each database call is one step; the handlers hold  *)
(* no lock between calls, so an admin's other requests come in between.    *)
(*                                                                         *)
(* A machine stands for a server's host and name, the pair by which a      *)
(* restore recognises it; a fingerprint is named by its machine.           *)
(***************************************************************************)
EXTENDS Naturals, FiniteSets, Functions

CONSTANTS
  Machines, Accounts, Names, Conns,
  Linked,           \* accounts that carry a RemnaWave UUID
  Secrets, NoSecret, Mask,
  MaxID,            \* bound: server ids
  MaxOps,           \* bound: requests of the admins
  MaxFaults         \* bound: failed database calls

ASSUME BackupAssumption ==
  /\ IsFiniteSet(Machines) /\ IsFiniteSet(Conns) /\ Linked \subseteq Accounts
  /\ MaxID \in Nat /\ MaxOps \in Nat /\ MaxFaults \in Nat
  /\ Mask \notin Secrets \cup {NoSecret}

IDs == 1..MaxID
Sections == {"sync", "ssl"}      \* the settings sections that hold a secret

VARIABLES
  servers, lastID,  \* servers: id -> machine, and its AUTOINCREMENT sequence
  accounts,         \* users: id -> name
  conns,            \* user_connections: id -> account, server id, home
  known,            \* known_hosts: server id -> fingerprint
  secrets,          \* settings: the secret of each section
  born,             \* accounts and connections ever created (their ids are UUIDs)
  download, backup, \* a DownloadBackup request, and what it has read so far
  restore,          \* a RestoreBackup request
  save, syncDelete, \* a SaveSettings and a SyncDelete request
  same,             \* the panel was not installed anew since the download began (history)
  ops, faults       \* bounds

rows == <<servers, lastID, accounts, conns, known>>
backupVars == <<rows, secrets, born, download, backup, restore, save, syncDelete, same, ops, faults>>

Rows(S, T) == UNION {[D -> T] : D \in SUBSET S}
Void == [x \in {} |-> x]

ConnRows == [account : Accounts, server : IDs, home : Machines]

BackupTypeOK ==
  /\ servers \in Rows(IDs, Machines) /\ lastID \in 0..MaxID
  /\ accounts \in Rows(Accounts, Names) /\ IsInjective(accounts)
  /\ conns \in Rows(Conns, ConnRows)
  /\ known \in Rows(DOMAIN servers, Machines)
  /\ \A i \in DOMAIN servers : i <= lastID
  /\ \A c \in DOMAIN conns : conns[c].account \in DOMAIN accounts
  /\ secrets \in [Sections -> Secrets \cup {NoSecret, Mask}]

NoRestore == [pc |-> "idle", todo |-> {}, map |-> Void, clean |-> FALSE, alone |-> FALSE]
NoSave == [pc |-> "idle", put |-> [x \in Sections |-> Mask], asked |-> [x \in Sections |-> Mask],
           had |-> [x \in Sections |-> NoSecret], alone |-> FALSE]

BackupInit ==
  /\ servers = Void /\ lastID = 0 /\ accounts = Void /\ conns = Void /\ known = Void
  /\ secrets = [x \in Sections |-> NoSecret] /\ born = {}
  /\ download = "none" /\ same = TRUE
  /\ backup = [servers |-> Void, accounts |-> Void, conns |-> Void, known |-> Void,
               secrets |-> [x \in Sections |-> NoSecret]]
  /\ restore = NoRestore /\ save = NoSave
  /\ syncDelete = {}
  /\ ops = 0 /\ faults = 0

Op == ops < MaxOps /\ ops' = ops + 1
Fault == faults < MaxFaults /\ faults' = faults + 1

(* Another request ran between two steps of a restore.                     *)
Disturb == restore' = [restore EXCEPT !.alone = FALSE] /\ UNCHANGED save

Dropping(f, D) == Restrict(f, DOMAIN f \ D)
With(f, x, v) == [y \in DOMAIN f \cup {x} |-> IF y = x THEN v ELSE f[y]]

---------------------------------------------------------------------------
(* The other requests of the admins.                                       *)

(* AUTOINCREMENT of servers.id.                                            *)
NextID == lastID + 1

(* ConfirmFingerprint: the server's row and its fingerprint.               *)
CreateServerRow(m) ==
  /\ Op /\ Disturb /\ NextID <= MaxID
  /\ servers' = With(servers, NextID, m) /\ known' = With(known, NextID, m)
  /\ lastID' = IF NextID > lastID THEN NextID ELSE lastID
  /\ UNCHANGED <<accounts, conns, secrets, born, download, backup, syncDelete, same, faults>>

OnServer(i) == {c \in DOMAIN conns : conns[c].server = i}
OfAccount(a) == {c \in DOMAIN conns : conns[c].account = a}

DeleteServerRows(i) ==
  /\ Op /\ Disturb /\ i \in DOMAIN servers
  /\ servers' = Dropping(servers, {i}) /\ known' = Dropping(known, {i}) /\ conns' = Dropping(conns, OnServer(i))
  /\ UNCHANGED <<lastID, accounts, secrets, born, download, backup, syncDelete, same, faults>>

AddUser(a, n) ==
  /\ Op /\ Disturb /\ a \notin born /\ n \notin Range(accounts)
  /\ accounts' = With(accounts, a, n) /\ born' = born \cup {a}
  /\ UNCHANGED <<servers, lastID, conns, known, secrets, download, backup, syncDelete, same, faults>>

DeleteUser(a) ==
  /\ Op /\ Disturb /\ a \in DOMAIN accounts
  /\ accounts' = Dropping(accounts, {a}) /\ conns' = Dropping(conns, OfAccount(a))
  /\ UNCHANGED <<servers, lastID, known, secrets, born, download, backup, syncDelete, same, faults>>

AddConnection(c, a, i) ==
  /\ Op /\ Disturb /\ c \notin born /\ a \in DOMAIN accounts /\ i \in DOMAIN servers
  /\ conns' = With(conns, c, [account |-> a, server |-> i, home |-> servers[i]]) /\ born' = born \cup {c}
  /\ UNCHANGED <<servers, lastID, accounts, known, secrets, download, backup, syncDelete, same, faults>>

(* The panel is installed anew, with an empty database; open requests end. *)
Reinstall ==
  /\ Op /\ download \in {"none", "done"} /\ restore.pc = "idle" /\ save.pc = "idle" /\ syncDelete = {}
  /\ servers' = Void /\ lastID' = 0 /\ accounts' = Void /\ conns' = Void /\ known' = Void
  /\ secrets' = [x \in Sections |-> NoSecret]
  /\ same' = (download = "none")
  /\ UNCHANGED <<born, download, backup, restore, save, syncDelete, faults>>

(* SyncDelete: the list of linked users, then for each its connection rows *)
(* and its own row, which cascades.                                        *)
SyncDelete ==
  /\ Op /\ syncDelete = {} /\ syncDelete' = Linked \cap DOMAIN accounts
  /\ UNCHANGED <<rows, secrets, born, download, backup, restore, save, same, faults>>

SyncDeleteUser(a) ==
  /\ a \in syncDelete
  /\ \/ /\ accounts' = Dropping(accounts, {a}) /\ conns' = Dropping(conns, OfAccount(a)) /\ Disturb
        /\ syncDelete' = syncDelete \ {a} /\ UNCHANGED faults
     \/ /\ Fault /\ \/ conns' = conns
                    \/ conns' = Dropping(conns, OfAccount(a))
        /\ Disturb /\ syncDelete' = {} /\ UNCHANGED accounts
  /\ UNCHANGED <<servers, lastID, known, secrets, born, download, backup, same, ops>>

---------------------------------------------------------------------------
(* SaveSettings: preserveSecretsOnSave reads the ssl and then the sync     *)
(* section, persistSettings writes sync and later ssl.                     *)

SaveSettings(asked) ==
  /\ Op /\ save.pc = "idle"
  /\ save' = [pc |-> "readSSL", put |-> asked, had |-> secrets, asked |-> asked, alone |-> TRUE]
  /\ UNCHANGED <<rows, secrets, born, download, backup, restore, syncDelete, same, faults>>

\* Mutant: a masked secret is taken as the new one.
PreservedAsAsked(x) == IF save.put[x] = Mask /\ x = "ssl" THEN secrets[x] ELSE save.put[x]

(* What a section's secret becomes: the stored one when the page sent the  *)
(* mask or nothing.                                                        *)
Preserved(x) == IF save.put[x] = Mask THEN secrets[x] ELSE save.put[x]

(* A failed read counts as no stored secret.                               *)
PreserveSecret(x, from, to) ==
  /\ save.pc = from
  /\ \/ save' = [save EXCEPT !.pc = to, !.put[x] = Preserved(x)] /\ UNCHANGED faults
     \/ Fault /\ save' = [save EXCEPT !.pc = to, !.put[x] = IF @ = Mask THEN NoSecret ELSE @, !.alone = FALSE]
  /\ UNCHANGED <<rows, secrets, born, download, backup, restore, syncDelete, same, ops>>

(* A write fails: the handler returns with the earlier sections written.   *)
PersistSection(x, from, to) ==
  /\ save.pc = from
  /\ \/ secrets' = [secrets EXCEPT ![x] = save.put[x]] /\ save' = [save EXCEPT !.pc = to] /\ UNCHANGED faults
     \/ Fault /\ save' = NoSave /\ UNCHANGED secrets
  /\ restore' = [restore EXCEPT !.alone = FALSE]
  /\ UNCHANGED <<rows, born, download, backup, syncDelete, same, ops>>

SaveReturns ==
  /\ save.pc = "done" /\ save' = NoSave
  /\ UNCHANGED <<rows, secrets, born, download, backup, restore, syncDelete, same, ops, faults>>

SaveStep ==
  \/ PreserveSecret("ssl", "readSSL", "readSync") \/ PreserveSecret("sync", "readSync", "writeSync")
  \/ PersistSection("sync", "writeSync", "writeSSL") \/ PersistSection("ssl", "writeSSL", "done")
  \/ SaveReturns

---------------------------------------------------------------------------
(* DownloadBackup: the tables one query after the other.                   *)

DownloadBackup ==
  /\ Op /\ download = "none" /\ download' = "users" /\ same' = TRUE
  /\ backup' = [backup EXCEPT !.servers = servers]
  /\ UNCHANGED <<rows, secrets, born, restore, save, syncDelete, faults>>

DownloadNext ==
  /\ \/ download = "users" /\ download' = "conns" /\ backup' = [backup EXCEPT !.accounts = accounts]
     \/ download = "conns" /\ download' = "settings" /\ backup' = [backup EXCEPT !.conns = conns]
     \/ download = "settings" /\ download' = "known" /\ backup' = [backup EXCEPT !.secrets = secrets]
     \/ download = "known" /\ download' = "done" /\ backup' = [backup EXCEPT !.known = known]
  /\ UNCHANGED <<rows, secrets, born, restore, save, syncDelete, same, ops, faults>>

(* A query fails: its part of the backup is empty.                         *)
DownloadFails ==
  /\ Fault
  /\ \/ download = "users" /\ download' = "conns" /\ UNCHANGED backup
     \/ download = "conns" /\ download' = "settings" /\ UNCHANGED backup
     \/ download = "settings" /\ download' = "known" /\ backup' = [backup EXCEPT !.secrets = Void]
     \/ download = "known" /\ download' = "done" /\ UNCHANGED backup
  /\ UNCHANGED <<rows, secrets, born, restore, save, syncDelete, same, ops>>

---------------------------------------------------------------------------
(* RestoreBackup: settings, servers, the id map, users, connections, known *)
(* hosts; every insert that fails is skipped.                              *)

RestoreBackup ==
  /\ Op /\ download = "done" /\ restore.pc = "idle"
  /\ restore' = [pc |-> "settings", todo |-> DOMAIN backup.secrets, map |-> Void,
                 clean |-> servers = Void /\ accounts = Void, alone |-> TRUE]
  /\ UNCHANGED <<rows, secrets, born, download, backup, save, syncDelete, same, faults>>

Restored(x, pc) == restore.pc = pc /\ x \in restore.todo
Rest(x) == restore' = [restore EXCEPT !.todo = @ \ {x}]
Then(from, to, todo) ==
  /\ restore.pc = from /\ restore.todo = {} /\ restore' = [restore EXCEPT !.pc = to, !.todo = todo]

(* An insert, or the query behind the id map, fails: it is passed over.    *)
RestoreFails ==
  /\ Fault
  /\ \/ \E x \in restore.todo : restore' = [restore EXCEPT !.todo = @ \ {x}, !.alone = FALSE]
     \/ restore.pc = "map" /\ restore' = [restore EXCEPT !.pc = "users", !.todo = DOMAIN backup.accounts,
                                                         !.alone = FALSE]
  /\ UNCHANGED <<rows, secrets, born, download, backup, save, syncDelete, same, ops>>

RestoreReturns == restore.pc = "done" /\ restore' = NoRestore

RestoreSetting(x) ==
  /\ Restored(x, "settings") /\ Rest(x)
  /\ secrets' = [secrets EXCEPT ![x] = backup.secrets[x]] /\ save' = [save EXCEPT !.alone = FALSE]
  /\ UNCHANGED <<rows, born, download, backup, syncDelete, same, ops, faults>>

(* CreateServer with the backup's id: refused when a row has that id.      *)
RestoreServer(i) ==
  /\ Restored(i, "servers") /\ Rest(i)
  /\ servers' = IF i \in DOMAIN servers THEN servers ELSE With(servers, i, backup.servers[i])
  /\ lastID' = IF i > lastID THEN i ELSE lastID
  /\ UNCHANGED <<accounts, conns, known, secrets, born, download, backup, save, syncDelete, same, ops, faults>>

(* serverIDMap: each server as itself, then each server of the backup as   *)
(* the first row with its host and name.                                   *)
Twins(i) == {j \in DOMAIN servers : servers[j] = backup.servers[i]}
First(S) == CHOOSE j \in S : \A k \in S : j <= k

ServerIDMap ==
  IF backup.servers = Void THEN Void
  ELSE [i \in DOMAIN servers \cup {j \in DOMAIN backup.servers : Twins(j) # {}} |->
          IF i \in DOMAIN backup.servers /\ Twins(i) # {} THEN First(Twins(i)) ELSE i]

MapServers ==
  /\ restore.pc = "map" /\ restore' = [restore EXCEPT !.pc = "users", !.todo = DOMAIN backup.accounts,
                                                      !.map = ServerIDMap]
  /\ UNCHANGED <<rows, secrets, born, download, backup, save, syncDelete, same, ops, faults>>

RestoreUser(a) ==
  /\ Restored(a, "users") /\ Rest(a)
  /\ accounts' = IF a \in DOMAIN accounts \/ backup.accounts[a] \in Range(accounts) THEN accounts
                 ELSE With(accounts, a, backup.accounts[a])
  /\ UNCHANGED <<servers, lastID, conns, known, secrets, born, download, backup, save, syncDelete, same, ops, faults>>

(* CreateConnection: refused for a known id or an unknown user; the server *)
(* is not checked.                                                         *)
RestoreConnection(c) ==
  /\ Restored(c, "conns") /\ Rest(c)
  /\ LET b == backup.conns[c]
         i == IF b.server \in DOMAIN restore.map THEN restore.map[b.server] ELSE b.server
     IN conns' = IF c \in DOMAIN conns \/ b.account \notin DOMAIN accounts THEN conns
                 ELSE With(conns, c, [b EXCEPT !.server = i])
  /\ UNCHANGED <<servers, lastID, accounts, known, secrets, born, download, backup, save, syncDelete, same, ops, faults>>

(* SaveKnownHost under the backup's id, not the mapped one: an upsert that *)
(* needs a server row.                                                     *)
RestoreKnownHost(i) ==
  /\ Restored(i, "known") /\ Rest(i)
  /\ known' = IF i \in DOMAIN servers THEN With(known, i, backup.known[i]) ELSE known
  /\ UNCHANGED <<servers, lastID, accounts, conns, secrets, born, download, backup, save, syncDelete, same, ops, faults>>

\* Mutant: the known hosts are restored before the servers they belong to.
RestoreNextKnownFirst ==
  /\ \/ Then("settings", "known", DOMAIN backup.known) \/ Then("known", "servers", DOMAIN backup.servers)
     \/ Then("servers", "map", {})
     \/ Then("users", "conns", DOMAIN backup.conns) \/ Then("conns", "done", {}) \/ RestoreReturns
  /\ UNCHANGED <<rows, secrets, born, download, backup, save, syncDelete, same, ops, faults>>

RestoreNext ==
  /\ \/ Then("settings", "servers", DOMAIN backup.servers) \/ Then("servers", "map", {})
     \/ Then("users", "conns", DOMAIN backup.conns) \/ Then("conns", "known", DOMAIN backup.known)
     \/ Then("known", "done", {}) \/ RestoreReturns
  /\ UNCHANGED <<rows, secrets, born, download, backup, save, syncDelete, same, ops, faults>>

RestoreStep ==
  \/ \E x \in Sections : RestoreSetting(x)
  \/ \E i \in IDs : RestoreServer(i) \/ RestoreKnownHost(i)
  \/ \E a \in Accounts : RestoreUser(a)
  \/ \E c \in Conns : RestoreConnection(c)
  \/ MapServers \/ RestoreFails \/ RestoreNext

AdminRequest ==
  \/ \E m \in Machines : CreateServerRow(m)
  \/ \E i \in IDs : DeleteServerRows(i)
  \/ \E a \in Accounts : DeleteUser(a) \/ (\E n \in Names : AddUser(a, n))
  \/ \E c \in Conns, a \in Accounts, i \in IDs : AddConnection(c, a, i)
  \/ Reinstall \/ SyncDelete \/ DownloadBackup \/ RestoreBackup
  \/ \E asked \in [Sections -> Secrets \cup {Mask}] : SaveSettings(asked)

BackupNext ==
  \/ AdminRequest \/ SaveStep \/ DownloadNext \/ DownloadFails \/ RestoreStep
  \/ \E a \in Accounts : SyncDeleteUser(a)

BackupSpec == BackupInit /\ [][BackupNext]_backupVars

---------------------------------------------------------------------------
(* Properties.                                                             *)

(* restoreBackupData into an empty panel, not interrupted, brings back     *)
(* every server and user of the backup, every connection whose user is in  *)
(* it, every fingerprint and every settings section: the order of its      *)
(* steps respects the foreign keys.  A connection may come back on another *)
(* row of its server, when the server has two.                             *)
RestoreComplete ==
  (restore.pc = "done" /\ restore.clean /\ restore.alone) =>
    /\ servers = backup.servers /\ accounts = backup.accounts
    /\ \A x \in DOMAIN backup.secrets : secrets[x] = backup.secrets[x]
    /\ DOMAIN conns = {c \in DOMAIN backup.conns : backup.conns[c].account \in DOMAIN accounts}
    /\ \A c \in DOMAIN conns :
         /\ conns[c].account = backup.conns[c].account /\ conns[c].home = backup.conns[c].home
         /\ IF backup.conns[c].server \in DOMAIN servers
              THEN conns[c].server \in Twins(backup.conns[c].server)
              ELSE conns[c].server = backup.conns[c].server
    /\ known = Restrict(backup.known, DOMAIN backup.known \cap DOMAIN servers)

OnItsMachine ==
  /\ \A c \in DOMAIN conns : conns[c].server \in DOMAIN servers => servers[conns[c].server] = conns[c].home
  /\ \A i \in DOMAIN known : known[i] = servers[i]

(* In the panel the backup came from, whatever was deleted or added since  *)
(* and meanwhile, a connection row never names another machine than the    *)
(* one its client is on, and a fingerprint never another server's: ids of  *)
(* deleted servers are not given out again and a restore reuses them.      *)
SamePanelOnItsMachine == same => OnItsMachine

(* A restore is faithful (restoreBackupData): complete in an empty panel,  *)
(* and true to the machines in the panel the backup came from.             *)
RestoreFaithful == BackupTypeOK /\ RestoreComplete /\ SamePanelOnItsMachine

(* SaveSettings never stores the mask GetSettings shows, and a save that   *)
(* nothing interrupts and no call fails in changes the secrets it was      *)
(* asked to and no other.                                                  *)
SavePreservesSecrets ==
  /\ \A x \in Sections : secrets[x] # Mask
  /\ (save.pc = "done" /\ save.alone) =>
       \A x \in Sections : secrets[x] = IF save.asked[x] = Mask THEN save.had[x] ELSE save.asked[x]
===========================================================================
