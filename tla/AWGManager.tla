----------------------------- MODULE AWGManager -----------------------------
(***************************************************************************)
(* The AmneziaWG manager of internal/manager/awg: clients of one server,   *)
(* kept in two remote files, the [Peer] sections of awg0.conf and the      *)
(* clientsTable.  Every operation reads them, changes its copy and writes  *)
(* it back through a temporary file at a fixed path.  A manager runs one   *)
(* operation at a time (m.mu), and the panel makes two managers: one in    *)
(* router.go for the handlers, one in cmd/panel/main.go for the background *)
(* tasks.                                                                  *)
(*                                                                         *)
(* A peer section is its key and address; the files are sets, since every  *)
(* operation treats repeated sections alike.  Names, limits and profiles   *)
(* in an entry are left out: editing them rewrites the table all the same. *)
(***************************************************************************)
EXTENDS Naturals

CONSTANTS Managers,    \* the AWGManager values of the process
          Clients,     \* public keys that may be generated
          NoClient,
          MaxIP,       \* the addresses of the subnet without the gateway
          MaxErrors    \* bound: remote commands that fail

ASSUME AWGAssumption ==
    NoClient \notin Clients /\ MaxIP \in Nat /\ MaxErrors \in Nat

ClientIPs == 1 .. MaxIP
Unassigned == 0
Peer == [client : Clients, ip : ClientIPs]
Entry == [client : Clients, ip : ClientIPs, enabled : BOOLEAN]

VARIABLES present,     \* the container runs and has a configuration
          conf,        \* awg0.conf: its peers
          table,       \* clientsTable
          tmpConf,     \* {} or {content of /tmp/_amnz_edit_config.conf}
          tmpTable,    \* {} or {content of /tmp/_amnz_clients.json}
          op,          \* the operation each manager is in
          generated,   \* keys generated so far
          returned,    \* keys AddClient returned to its caller
          errors,      \* failed commands so far
          clients,     \* history: added, and no removal asked for
          removed      \* history: RemoveClient returned without an error

files == <<present, conf, table, tmpConf, tmpTable>>
history == <<generated, returned, clients, removed>>
awgVars == <<files, op, history, errors>>

Idle == [kind |-> "idle", at |-> "idle", client |-> NoClient, ip |-> Unassigned,
         on |-> FALSE, failed |-> FALSE, conf |-> {}, table |-> {}]

Kinds == {"add", "remove", "toggle", "edit", "install", "uninstall"}
Steps == {"readConf", "uploadConf", "copyConf", "rmConf", "readTable",
          "uploadTable", "copyTable", "rmTable", "wipe", "build"}

(* Types; an operation stands at one of its own steps. *)
AWGTypeOK ==
    /\ present \in BOOLEAN /\ conf \subseteq Peer /\ table \subseteq Entry
    /\ tmpConf \subseteq SUBSET Peer /\ tmpTable \subseteq SUBSET Entry
    /\ errors \in 0 .. MaxErrors
    /\ generated \subseteq Clients /\ returned \subseteq generated
    /\ clients \subseteq returned /\ removed \subseteq generated
    /\ \A m \in Managers : op[m] # Idle =>
          /\ op[m].kind \in Kinds /\ op[m].at \in Steps
          /\ op[m].conf \subseteq Peer /\ op[m].table \subseteq Entry
          /\ op[m].kind = "edit" =>
                op[m].at \in {"readTable", "uploadTable", "copyTable", "rmTable"}
          /\ op[m].kind = "add" /\ op[m].at # "readConf" => op[m].ip \in ClientIPs

AWGInit ==
    /\ present = TRUE /\ conf = {} /\ table = {} /\ tmpConf = {} /\ tmpTable = {}
    /\ op = [m \in Managers |-> Idle]
    /\ generated = {} /\ returned = {} /\ clients = {} /\ removed = {} /\ errors = 0

-----------------------------------------------------------------------------
(* Calls *)

Begin(m, kind, c, on, at) ==
    /\ op[m] = Idle
    /\ op' = [op EXCEPT ![m] = [Idle EXCEPT !.kind = kind, !.client = c,
                                            !.on = on, !.at = at]]
    /\ UNCHANGED <<files, errors>>

Keys(s) == {x.client : x \in s}

\* The keys a caller can name: those it was given, stale ones included, and those
\* a listing of the server shows, once their addition has ended.
Known == returned \cup ((Keys(conf) \cup Keys(table)) \ {op[m].client : m \in Managers})

AddClient(m) ==
    \E c \in Clients \ generated :
        /\ Begin(m, "add", c, TRUE, "readConf")
        /\ generated' = generated \cup {c}
        /\ UNCHANGED <<returned, clients, removed>>

RemoveClient(m) ==
    \E c \in Known :
        /\ Begin(m, "remove", c, FALSE, "readTable")
        /\ clients' = clients \ {c}
        /\ UNCHANGED <<generated, returned, removed>>

ToggleClient(m) ==
    \E c \in Known, on \in BOOLEAN :
        Begin(m, "toggle", c, on, "readTable") /\ UNCHANGED history

\* No caller passes "enabled", so EditClient does not touch the configuration.
EditClient(m) ==
    \E c \in Known : Begin(m, "edit", c, FALSE, "readTable") /\ UNCHANGED history

\* The profile it sets is not part of an entry here; the steps are an edit's.
RotateMimicry(m) == EditClient(m)

Install(m) == Begin(m, "install", NoClient, FALSE, "wipe") /\ UNCHANGED history
Uninstall(m) == Begin(m, "uninstall", NoClient, FALSE, "wipe") /\ UNCHANGED history

-----------------------------------------------------------------------------
(* Steps of an operation.  A remote command fails when the container is gone,
   or for reasons of its own, at most MaxErrors times; one that changes a file
   may have changed it before it failed (a timeout, a chmod after the mv). *)

Fails == errors < MaxErrors /\ errors' = errors + 1
Works == UNCHANGED errors

Goto(m, at) == op' = [op EXCEPT ![m].at = at]

\* The operation returns; ok says whether without an error.
Return(m, ok) ==
    LET done(kind) == IF ok /\ op[m].kind = kind THEN {op[m].client} ELSE {} IN
    /\ op' = [op EXCEPT ![m] = Idle]
    /\ returned' = returned \cup done("add")
    /\ clients' = clients \cup done("add")
    /\ removed' = removed \cup done("remove")
    /\ UNCHANGED generated

FreeIPs(s) == ClientIPs \ {p.ip : p \in s}
NextIP(s) == CHOOSE i \in FreeIPs(s) : \A j \in FreeIPs(s) : i <= j

Without(s, c) == {x \in s : x.client # c}

\* The sections an operation writes, given those it read.
ConfAfter(o, s, ip) ==
    IF o.on THEN s \cup {[client |-> o.client, ip |-> ip]} ELSE Without(s, o.client)

\* The entries an operation writes, given those it read.
TableAfter(o, s) ==
    CASE o.kind = "add" -> s \cup {[client |-> o.client, ip |-> o.ip, enabled |-> TRUE]}
      [] o.kind = "remove" -> Without(s, o.client)
      [] o.kind = "toggle" -> {IF e.client = o.client THEN [e EXCEPT !.enabled = o.on]
                                                      ELSE e : e \in s}
      [] OTHER -> s

\* Mutant: a client that is enabled again takes a free address.
OwnIPFresh(o) == IF o.on /\ FreeIPs(conf) # {} THEN NextIP(conf) ELSE Unassigned

OwnIP(o) == IF o.kind = "add" THEN NextIP(conf)
            ELSE IF \E e \in o.table : e.client = o.client
                 THEN (CHOOSE e \in o.table : e.client = o.client).ip
                 ELSE Unassigned

ReadConf(m) ==
    /\ op[m].at = "readConf"
    /\ \/ /\ present /\ Works
          /\ op[m].kind = "add" => FreeIPs(conf) # {}
          /\ LET ip == OwnIP(op[m]) IN
             op' = [op EXCEPT ![m].at = "uploadConf", ![m].ip = ip,
                              ![m].conf = ConfAfter(op[m], conf, ip)]
          /\ UNCHANGED history
       \/ /\ (~present /\ Works) \/ (present /\ Fails)
          /\ Return(m, FALSE)
       \/ /\ present /\ Works /\ op[m].kind = "add" /\ FreeIPs(conf) = {}
          /\ Return(m, FALSE)
    /\ UNCHANGED files

\* Mutant: a client that is not in the table is toggled all the same.
ReadTableUnchecked(m) ==
    /\ op[m].at = "readTable" /\ Works
    /\ op' = [op EXCEPT
          ![m].table = table,
          ![m].at = IF op[m].kind \in {"add", "edit"} THEN "uploadTable" ELSE "readConf"]
    /\ UNCHANGED <<files, history>>

\* getClientsTable: a failing read is an empty table.  ToggleClient and EditClient
\* then do not find their client; AddClient and RemoveClient carry on.
ReadTable(m) ==
    /\ op[m].at = "readTable"
    /\ \E s \in {IF present THEN table ELSE {}, {}} :
        /\ IF s = table \/ ~present THEN Works ELSE Fails
        /\ IF /\ op[m].kind \in {"toggle", "edit"}
              /\ \A e \in s : e.client # op[m].client
           THEN Return(m, FALSE)
           ELSE /\ op' = [op EXCEPT
                     ![m].table = s,
                     ![m].at = IF op[m].kind \in {"add", "edit"} THEN "uploadTable"
                                                                 ELSE "readConf"]
                /\ UNCHANGED history
    /\ UNCHANGED files

\* saveServerConfig: upload, docker cp, and the deferred rm.
UploadConf(m) ==
    /\ op[m].at = "uploadConf"
    /\ \/ /\ Works /\ tmpConf' = {op[m].conf}
          /\ Goto(m, "copyConf") /\ UNCHANGED history
       \/ Fails /\ Return(m, FALSE) /\ tmpConf' \in {tmpConf, {op[m].conf}}
    /\ UNCHANGED <<present, conf, table, tmpTable>>

CopyConf(m) ==
    /\ op[m].at = "copyConf"
    /\ \/ /\ present /\ tmpConf # {} /\ Works
          /\ conf' \in tmpConf
          /\ Goto(m, "rmConf")
       \/ /\ \/ (~present \/ tmpConf = {}) /\ Works /\ UNCHANGED conf
             \/ present /\ Fails /\ conf' \in {conf} \cup tmpConf
          /\ op' = [op EXCEPT ![m].at = "rmConf", ![m].failed = TRUE]
    /\ UNCHANGED <<present, table, tmpConf, tmpTable, history>>

RmConf(m) ==
    /\ op[m].at = "rmConf"
    /\ (Works /\ tmpConf' = {}) \/ (Fails /\ UNCHANGED tmpConf)
    /\ IF op[m].failed
       THEN Return(m, FALSE)
       ELSE /\ Goto(m, IF op[m].kind = "add" THEN "readTable" ELSE "uploadTable")
            /\ UNCHANGED history
    /\ UNCHANGED <<present, conf, table, tmpTable>>

\* saveClientsTable; AddClient ignores its error.
UploadTable(m) ==
    /\ op[m].at = "uploadTable"
    /\ \/ /\ Works /\ tmpTable' = {TableAfter(op[m], op[m].table)}
          /\ Goto(m, "copyTable") /\ UNCHANGED history
       \/ /\ Fails /\ Return(m, op[m].kind = "add")
          /\ tmpTable' \in {tmpTable, {TableAfter(op[m], op[m].table)}}
    /\ UNCHANGED <<present, conf, table, tmpConf>>

CopyTable(m) ==
    /\ op[m].at = "copyTable"
    /\ \/ /\ present /\ tmpTable # {} /\ Works
          /\ table' \in tmpTable
          /\ Goto(m, "rmTable")
       \/ /\ \/ (~present \/ tmpTable = {}) /\ Works /\ UNCHANGED table
             \/ present /\ Fails /\ table' \in {table} \cup tmpTable
          /\ op' = [op EXCEPT ![m].at = "rmTable", ![m].failed = TRUE]
    /\ UNCHANGED <<present, conf, tmpConf, tmpTable, history>>

RmTable(m) ==
    /\ op[m].at = "rmTable"
    /\ (Works /\ tmpTable' = {}) \/ (Fails /\ UNCHANGED tmpTable)
    /\ Return(m, ~op[m].failed \/ op[m].kind = "add")
    /\ UNCHANGED <<present, conf, table, tmpConf>>

\* docker rm -fv takes both files with the container; its failure is ignored.
\* Install may also fail before it, and leave everything as it was.
Wipe(m) ==
    /\ op[m].at = "wipe"
    /\ \/ /\ Works
          /\ present' = FALSE /\ conf' = {} /\ table' = {} /\ clients' = {}
       \/ Fails /\ UNCHANGED <<present, conf, table, clients>>
    /\ op' = [op EXCEPT ![m] = IF @.kind = "install" THEN [@ EXCEPT !.at = "build"]
                                                      ELSE Idle]
    /\ UNCHANGED <<tmpConf, tmpTable, generated, returned, removed>>

\* A new container with a configuration without peers.  docker run is refused
\* while a container of that name exists, and any of the commands may fail.
Build(m) ==
    /\ op[m].at = "build"
    /\ \/ Works /\ present' = TRUE
       \/ ~present /\ Fails /\ UNCHANGED present
    /\ Return(m, TRUE)
    /\ UNCHANGED <<conf, table, tmpConf, tmpTable>>

-----------------------------------------------------------------------------
Call(m) ==
    \/ AddClient(m) \/ RemoveClient(m) \/ ToggleClient(m)
    \/ EditClient(m) \/ RotateMimicry(m) \/ Install(m) \/ Uninstall(m)

Step(m) ==
    \/ ReadConf(m) \/ ReadTable(m) \/ UploadConf(m) \/ CopyConf(m) \/ RmConf(m)
    \/ UploadTable(m) \/ CopyTable(m) \/ RmTable(m) \/ Wipe(m) \/ Build(m)

AWGNext == \E m \in Managers : Call(m) \/ Step(m)

AWGSpec == AWGInit /\ [][AWGNext]_awgVars

-----------------------------------------------------------------------------
AtRest == \A m \in Managers : op[m] = Idle

(* RemoveClient "removes a client from the server WireGuard configuration and
   clientsTable": once it has returned without an error, no later step brings
   the client back into either file. *)
RemoveIsFinal == removed \cap (Keys(conf) \cup Keys(table)) = {}

(* When no command has failed and no operation runs, the table lists the clients
   that were added and not removed, and the configuration serves those of them
   that are enabled. *)
FilesAgree ==
    (errors = 0 /\ AtRest /\ present) =>
        /\ Keys(table) = clients
        /\ Keys(conf) = {e.client : e \in {x \in table : x.enabled}}

(* A client has one address: its section and its entry name the same one,
   whatever fails and however often it is disabled and enabled again. *)
OneAddressPerClient ==
    /\ \A p, q \in conf : p.client = q.client => p.ip = q.ip
    /\ \A p \in conf, e \in table : p.client = e.client => p.ip = e.ip

(* The table and the configuration describe the same clients with the same
   addresses (AddClient, RemoveClient, ToggleClient). *)
FilesConsistent == AWGTypeOK /\ FilesAgree /\ OneAddressPerClient

(* GetNextIP "calculates the next sequential available IP in the subnet": two
   peers of the configuration do not share an address. *)
AddressesDistinct == \A p, q \in conf : p.ip = q.ip => p.client = q.client

=============================================================================
