---------------------------- MODULE ApplyPipeline ----------------------------
(***************************************************************************)
(* The path from a node change to the running data plane: the handlers of  *)
(* api/nodes.py, api/singbox.py, api/subscription.py and cli.py on top of  *)
(* SingBoxService (services/singbox_service.py).                           *)
(*                                                                         *)
(* Three stores have to agree: the committed proxy_nodes table (SQLite),   *)
(* the formal file config/sing-box.json, and the configuration the         *)
(* sing-box process has loaded.  Two locks protect them: SQLite's single   *)
(* write lock, taken by the first INSERT, UPDATE or DELETE of a            *)
(* transaction, and the operation lock of SingBoxService (an RLock and an  *)
(* flock on run/sing-box.apply.lock).  Node handlers take the first and    *)
(* then the second; apply, restore and the command line take them in the   *)
(* other order, and a time limit on each ends the deadlock.                *)
(*                                                                         *)
(* A session reads outside its write transaction and never refreshes a row *)
(* it has loaded, so a handler renders the row it loaded, with its own     *)
(* changes, whatever was committed since.  `seen' and `want' are that      *)
(* session: the row as loaded and the row as changed.                      *)
(***************************************************************************)
EXTENDS Naturals, Sequences

CONSTANTS
  Node,         \* primary keys of proxy_nodes
  Cfg,          \* values of (protocol, listen_port, config_json); equal values share the port
  Rejected,     \* the values in Cfg that the builder accepts and `sing-box check' refuses
  Req,          \* request threads of the API process
  Cli,          \* command line processes
  Boot,         \* the API process while it runs its lifespan startup
  Script,       \* Script[p]: the handlers that p may run in this instance
  Target,       \* Target[p]: the nodes that the handlers of p address
  Seeds,        \* the node tables a run may start from
  Installed,    \* FALSE: `init' has created the table, no file is written and nothing runs
  Faults,       \* what may go wrong in this instance, a subset of FaultKind
  BackupLimit,  \* AppSettings.backup_limit
  MaxOps,       \* bound on the handlers started
  MaxCrashes,   \* bound on the crashes
  Absent,       \* no such row
  Unloaded,     \* a row the session has not loaded
  NoFile,       \* no config/sing-box.json
  NoSidecar,    \* a backup without its state file
  Down,         \* sing-box is not running
  NoProc        \* nobody holds the lock

Api  == Req \cup {Boot}
Proc == Api \cup Cli

Edits == {"create", "update", "setEnabled", "regenerate", "delete", "regenerateAll"}
Endpoints == {"apply", "check", "restart", "restore"}
Commands  == {"restart", "check", "backup", "restore", "prepare"}
Task  == Edits \cup Endpoints \cup Commands \cup {"settings", "reconcile", "none"}
FaultKind == {"check", "restart", "disk", "fsync", "copy", "commit", "crash"}

Row    == [enabled : BOOLEAN, cfg : Cfg]
Table  == [Node -> Row \cup {Absent}]
Config == [Node -> Cfg \cup {Absent}]
File   == Config \cup {NoFile}
Session == [Node -> Row \cup {Absent, Unloaded}]
Backup == [cfg : Config, state : Table \cup {NoSidecar}]

(***************************************************************************)
(* build_singbox_config: one inbound for each enabled node; two enabled    *)
(* nodes with the same listen_port raise ConfigBuildError.                 *)
(***************************************************************************)
Inbounds(t) == [n \in Node |-> IF t[n] # Absent /\ t[n].enabled THEN t[n].cfg ELSE Absent]
Buildable(f) == \A m, n \in Node : f[m] # Absent /\ f[m] = f[n] => m = n
\* What `sing-box check -c' answers for a file.
Accepted(f) == \A n \in Node : f[n] \notin Rejected

ASSUME LimitAssumption == /\ BackupLimit \in Nat \ {0}
                          /\ MaxOps \in Nat
                          /\ MaxCrashes \in Nat
ASSUME ProcAssumption == /\ Boot \notin Req \cup Cli
                         /\ Req \cap Cli = {}
                         /\ NoProc \notin Proc
ASSUME ValueAssumption == /\ Absent \notin Row \cup Cfg
                          /\ Unloaded \notin Row \cup {Absent}
                          /\ NoFile \notin Config
                          /\ NoSidecar \notin Table
ASSUME SeedAssumption ==
  /\ Seeds \subseteq Table
  /\ \A t \in Seeds : Buildable(Inbounds(t)) /\ Accepted(Inbounds(t))
ASSUME ScenarioAssumption == /\ Script \in [Req \cup Cli -> SUBSET Task]
                             /\ Target \in [Req \cup Cli -> SUBSET Node]
ASSUME InstalledAssumption == Installed \in BOOLEAN
ASSUME FaultAssumption == Faults \subseteq FaultKind

VARIABLES
  nodes,      \* the committed proxy_nodes table
  pending,    \* the table inside the open write transaction, `nodes' when there is none
  writer,     \* the holder of SQLite's write lock
  holder,     \* the holder of the operation lock
  staging,    \* run/sing-box.staging.json
  config,     \* config/sing-box.json
  running,    \* the configuration sing-box has loaded
  marker,     \* the reconcile marker exists
  backups,    \* the backup directory, newest first
  api,        \* the API process: "down", "starting", "up"
  pc,         \* pc[p]: the next step of p
  task,       \* task[p]: the handler p runs
  seen,       \* seen[p]: rows of p's session as loaded
  want,       \* want[p]: rows of p's session as changed
  prev,       \* prev[p]: formal config and committed table when p took its backup
  begun,      \* handlers started so far
  crashes     \* crashes so far

dbVars      == <<nodes, pending, writer>>
fileVars    == <<staging, config, backups, marker>>
localVars   == <<task, seen, want, prev>>
boundVars   == <<begun, crashes>>
vars == <<dbVars, holder, fileVars, running, api, pc, localVars, boundVars>>

Label == {"idle", "flush", "lock", "settle", "select", "compare", "stage", "validate",
          "backup", "sidecar", "replace", "install", "restart", "commit", "unmark",
          "revert", "rerestart", "audit", "abort"}

Blank == [n \in Node |-> Unloaded]
NoPrev == [cfg |-> NoFile, state |-> [n \in Node |-> Absent]]

Init ==
  /\ nodes \in Seeds
  /\ pending = nodes
  /\ writer = NoProc /\ holder = NoProc
  /\ config = IF Installed THEN Inbounds(nodes) ELSE NoFile
  /\ staging = config
  /\ running = IF Installed THEN config ELSE Down
  /\ marker = FALSE
  /\ backups = << >>
  /\ api = IF Installed THEN "up" ELSE "down"
  /\ pc = [p \in Proc |-> "idle"]
  /\ task = [p \in Proc |-> "none"]
  /\ seen = [p \in Proc |-> Blank]
  /\ want = [p \in Proc |-> Blank]
  /\ prev = [p \in Proc |-> NoPrev]
  /\ begun = 0 /\ crashes = 0

------------------------------------------------------------------------------
(* Helpers.                                                                *)

Goto(p, l) == pc' = [pc EXCEPT ![p] = l]

\* The rows the SELECT of p returns, then the rows the ORM hands out: a loaded object
\* keeps its attributes.
Rows(p) == IF writer = p THEN pending ELSE nodes
View(p) == [n \in Node |->
             IF Rows(p)[n] = Absent \/ want[p][n] \in {Unloaded, Absent}
             THEN Rows(p)[n] ELSE want[p][n]]

\* SingBoxService.render
Render(p) == Inbounds(View(p))

\* Row n after p's flush: an INSERT, a DELETE, or an UPDATE of the changed columns only.
Written(p, n) ==
  LET s == seen[p][n]
      w == want[p][n]
      column(c, old) == IF w[c] # s[c] THEN w[c] ELSE old
  IN  IF w = Unloaded THEN nodes[n]
      ELSE IF w = Absent \/ s = Absent THEN w
      ELSE IF nodes[n] = Absent THEN Absent
      ELSE [enabled |-> column("enabled", nodes[n].enabled),
            cfg |-> column("cfg", nodes[n].cfg)]

\* IntegrityError of an INSERT, StaleDataError of an UPDATE that matches no row.
Conflicting(p) ==
  \E n \in Node : /\ want[p][n] \in Row
                  /\ want[p][n] # seen[p][n]
                  /\ (seen[p][n] = Absent) # (nodes[n] = Absent)

EndTransaction(p) ==
  /\ writer' = IF writer = p THEN NoProc ELSE writer
  /\ pending' = IF writer = p THEN nodes ELSE pending
  /\ nodes' = nodes

\* Every loaded object expires.
Expire(p) ==
  /\ seen' = [seen EXCEPT ![p] = Blank]
  /\ want' = [want EXCEPT ![p] = Blank]

\* Session.rollback
Rollback(p) == EndTransaction(p) /\ Expire(p) /\ UNCHANGED <<task, prev>>

\* The handler returns and get_db closes the session.
Leave(p) ==
  /\ Goto(p, "idle")
  /\ Expire(p)
  /\ prev' = [prev EXCEPT ![p] = NoPrev]
  /\ task' = [task EXCEPT ![p] = "none"]

\* (mutant) no time limit on either lock.
WaitsForever(p) == FALSE
\* The write lock is free for p, or p has waited busy_timeout for it.
GivesUp(p) == TRUE
MayWrite(p) == writer \in {p, NoProc}
WriteTimeout(p) == ~MayWrite(p) /\ GivesUp(p)

\* p leaves the `with self._operation_lock()' block by an exception; the session is rolled
\* back by the handler or closed by get_db only after that.
Raise(p) == holder' = NoProc /\ Goto(p, "abort")

\* p leaves the block normally; a finished startup serves.
Return(p) ==
  /\ holder' = NoProc
  /\ Leave(p)
  /\ api' = IF p = Boot THEN "up" ELSE api

AfterLock(k) == CASE k = "restore"   -> "select"
                  [] k = "reconcile" -> "compare"
                  [] k = "backup"    -> "backup"
                  [] k = "restart"   -> "restart"
                  [] OTHER           -> "stage"
\* p stays in the block and goes on at l.
Continue(p, l) == Goto(p, l) /\ UNCHANGED <<holder, localVars, api>>

------------------------------------------------------------------------------
(* Starting a handler.                                                     *)

Begin(p, k) ==
  /\ pc[p] = "idle"
  /\ k \in Script[p]
  /\ p \in Req => api = "up"
  /\ begun < MaxOps
  /\ begun' = begun + 1
  /\ task' = [task EXCEPT ![p] = k]
  /\ UNCHANGED <<dbVars, holder, fileVars, running, api, prev, crashes>>

\* The handler loads the rows in S and changes them to w; nothing is flushed yet.
Edit(p, k, S, w) ==
  /\ Begin(p, k)
  /\ seen' = [seen EXCEPT ![p] = [n \in Node |-> IF n \in S THEN nodes[n] ELSE Unloaded]]
  /\ want' = [want EXCEPT ![p] = [n \in Node |-> IF n \in S THEN w[n] ELSE Unloaded]]
  /\ Goto(p, "flush")

Existing(S) == {n \in S : nodes[n] # Absent}

CreateNode(p) == \E n \in Target[p] \ Existing(Target[p]), r \in Row :
                   Edit(p, "create", {n}, [m \in {n} |-> r])
UpdateNode(p) == \E n \in Existing(Target[p]), r \in Row :
                   Edit(p, "update", {n}, [m \in {n} |-> r])
SetEnabled(p) == \E n \in Existing(Target[p]), e \in BOOLEAN :
                   Edit(p, "setEnabled", {n}, [m \in {n} |-> [nodes[n] EXCEPT !.enabled = e]])
RegenerateSecret(p) ==
  \E n \in Existing(Target[p]), c \in Cfg :
    /\ c # nodes[n].cfg
    /\ Edit(p, "regenerate", {n}, [m \in {n} |-> [nodes[n] EXCEPT !.cfg = c]])
DeleteNode(p) == \E n \in Existing(Target[p]) :
                   Edit(p, "delete", {n}, [m \in {n} |-> Absent])
RegenerateAll(p) ==
  \E c \in [Existing(Node) -> Cfg] :
    /\ \A n \in Existing(Node) : c[n] # nodes[n].cfg
    /\ Edit(p, "regenerateAll", Existing(Node),
            [n \in Existing(Node) |-> [nodes[n] EXCEPT !.cfg = c[n]]])
\* PUT /settings and POST /subscription/rotate: a write transaction on other tables, outside
\* the operation lock.
UpdateSettings(p) == Edit(p, "settings", {}, Blank)

\* The handlers that load no row before they take the operation lock: the endpoints under
\* /singbox and the commands of the command line.
Operate(p, K) ==
  \E k \in K :
    /\ Begin(p, k)
    /\ Goto(p, "lock")
    /\ UNCHANGED <<seen, want>>
Post(p) == p \in Req /\ Operate(p, Endpoints)
Command(p) == p \in Cli /\ Operate(p, Commands)

\* systemd starts the API; its lifespan reconciles before it serves.
StartApi ==
  /\ api = "down" /\ pc[Boot] = "idle"
  /\ api' = "starting"
  /\ task' = [task EXCEPT ![Boot] = "reconcile"]
  /\ Goto(Boot, "lock")
  /\ UNCHANGED <<dbVars, holder, fileVars, running, seen, want, prev, boundVars>>

------------------------------------------------------------------------------
(* Taking the two locks.                                                   *)

\* The first statement that writes: the flush of the changed rows, or of the audit row.

Flush(p) ==
  /\ pc[p] = "flush" /\ writer = NoProc
  /\ \/ /\ ~Conflicting(p)
        /\ writer' = p
        /\ pending' = [n \in Node |-> Written(p, n)]
        /\ Goto(p, IF task[p] \in {"settings", "restart"} THEN "settle" ELSE "lock")
     \/ /\ Conflicting(p)
        /\ Goto(p, "abort")
        /\ UNCHANGED <<pending, writer>>
  /\ UNCHANGED <<nodes, holder, fileVars, running, api, localVars, boundVars>>

FlushTimeout(p) ==
  /\ pc[p] = "flush" /\ WriteTimeout(p)
  /\ Goto(p, "abort")
  /\ UNCHANGED <<dbVars, holder, fileVars, running, api, localVars, boundVars>>

Settle(p) ==
  /\ pc[p] = "settle"
  /\ nodes' = pending /\ writer' = NoProc
  /\ Leave(p)
  /\ UNCHANGED <<pending, holder, fileVars, running, api, boundVars>>

\* (mutant) nothing serialises the operations.
AcquireLockShared(p) ==
  /\ pc[p] = "lock"
  /\ holder' = p
  /\ Goto(p, AfterLock(task[p]))
  /\ UNCHANGED <<dbVars, fileVars, running, api, localVars, boundVars>>
AcquireLock(p) ==
  /\ pc[p] = "lock" /\ holder = NoProc
  /\ holder' = p
  /\ Goto(p, AfterLock(task[p]))
  /\ UNCHANGED <<dbVars, fileVars, running, api, localVars, boundVars>>

\* (mutant) after 15 seconds the operation goes on without the lock.
LockTimeoutIgnored(p) ==
  /\ pc[p] = "lock" /\ holder # NoProc /\ GivesUp(p)
  /\ Goto(p, AfterLock(task[p]))
  /\ UNCHANGED <<dbVars, holder, fileVars, running, api, localVars, boundVars>>
\* ApplyFailed after 15 seconds.
LockTimeout(p) ==
  /\ pc[p] = "lock" /\ holder # NoProc /\ GivesUp(p)
  /\ Goto(p, "abort")
  /\ UNCHANGED <<dbVars, holder, fileVars, running, api, localVars, boundVars>>

------------------------------------------------------------------------------
(* Under the operation lock.                                               *)

\* restore_backup up to its first write: any listed backup by name; a missing backup or a
\* missing sidecar refuses the restore.
SelectBackup(p) ==
  /\ pc[p] = "select"
  /\ \/ \E i \in DOMAIN backups :
          /\ backups[i].state # NoSidecar
          /\ want' = [want EXCEPT ![p] = backups[i].state]
          /\ Goto(p, "backup")
          /\ UNCHANGED holder
     \/ /\ backups = << >> \/ \E i \in DOMAIN backups : backups[i].state = NoSidecar
        /\ Raise(p)
        /\ UNCHANGED want
  /\ UNCHANGED <<dbVars, fileVars, running, api, task, seen, prev, boundVars>>

\* (mutant) a formal file that exists is taken for current.
InSyncIfPresent(p) == config # NoFile /\ ~marker
\* (mutant) the marker of an interrupted reconcile is ignored.
InSyncUnmarked(p) == config = Render(p)
\* reconcile_with_database up to the marker.
InSync(p) == config = Render(p) /\ ~marker

\* (mutant) a startup that finds the marker of an interrupted one refuses to go on.
CompareRefuses(p) ==
  /\ pc[p] = "compare" /\ Buildable(Render(p))
  /\ \/ marker /\ Raise(p) /\ UNCHANGED <<marker, api, localVars>>
     \/ InSync(p) /\ Return(p) /\ UNCHANGED marker
     \/ ~marker /\ ~InSync(p) /\ Continue(p, "stage") /\ marker' = TRUE
  /\ UNCHANGED <<dbVars, staging, config, backups, running, boundVars>>
Compare(p) ==
  /\ pc[p] = "compare"
  /\ \/ Buildable(Render(p)) /\ InSync(p) /\ Return(p) /\ UNCHANGED marker
     \/ Buildable(Render(p)) /\ ~InSync(p) /\ Continue(p, "stage") /\ marker' = TRUE
     \/ ~Buildable(Render(p)) /\ Raise(p) /\ UNCHANGED <<marker, api, localVars>>
     \/ /\ "disk" \in Faults /\ Buildable(Render(p)) /\ ~InSync(p)
        /\ marker' \in {marker, TRUE}
        /\ Raise(p) /\ UNCHANGED <<api, localVars>>
  /\ UNCHANGED <<dbVars, staging, config, backups, running, boundVars>>

\* (mutant) the builder misses two enabled nodes on one port.
StageUnchecked(p) ==
  /\ pc[p] = "stage"
  /\ staging' = Render(p)
  /\ Continue(p, "validate")
  /\ UNCHANGED <<dbVars, config, backups, marker, running, boundVars>>
\* generate_staging: render and replace run/sing-box.staging.json.
Stage(p) ==
  /\ pc[p] = "stage" /\ Buildable(Render(p))
  /\ staging' = Render(p)
  /\ Continue(p, "validate")
  /\ UNCHANGED <<dbVars, config, backups, marker, running, boundVars>>

\* A failure with nothing to undo but the transaction: restore_backup catches and records
\* it, every other operation lets it out.
Fail(p) ==
  /\ \/ task[p] = "restore" /\ Rollback(p) /\ Goto(p, "audit") /\ UNCHANGED holder
     \/ task[p] # "restore" /\ Raise(p) /\ UNCHANGED <<dbVars, localVars>>
  /\ UNCHANGED <<running, api, boundVars>>

StageFails(p) ==
  /\ pc[p] = "stage"
  /\ "disk" \in Faults \/ ~Buildable(Render(p))
  /\ Fail(p)
  /\ UNCHANGED fileVars

\* (mutant) the exit status of `sing-box check' is ignored.
ValidateIgnored(p) ==
  /\ pc[p] = "validate"
  /\ \/ task[p] = "check" /\ Return(p)
     \/ /\ task[p] = "prepare"
        /\ prev' = [prev EXCEPT ![p] = [cfg |-> config, state |-> nodes]]
        /\ Goto(p, "install")
        /\ UNCHANGED <<holder, task, seen, want, api>>
     \/ task[p] = "restore" /\ Continue(p, "install")
     \/ task[p] \notin {"check", "prepare", "restore"} /\ Continue(p, "backup")
  /\ UNCHANGED <<dbVars, fileVars, running, boundVars>>
\* prepare_initial_config keeps a copy of the formal file itself.
Validate(p) ==
  /\ pc[p] = "validate" /\ Accepted(staging)
  /\ \/ task[p] = "check" /\ Return(p)
     \/ /\ task[p] = "prepare"
        /\ prev' = [prev EXCEPT ![p] = [cfg |-> config, state |-> nodes]]
        /\ Goto(p, "install")
        /\ UNCHANGED <<holder, task, seen, want, api>>
     \/ task[p] = "restore" /\ Continue(p, "install")
     \/ task[p] \notin {"check", "prepare", "restore"} /\ Continue(p, "backup")
  /\ UNCHANGED <<dbVars, fileVars, running, boundVars>>

\* ConfigValidationFailed: roll back, record the failure, re-raise.  prepare_initial_config
\* does not catch it.
Reject(p) ==
  /\ pc[p] = "validate" /\ ~Accepted(staging)
  /\ \/ task[p] = "prepare" /\ Raise(p) /\ UNCHANGED <<dbVars, localVars>>
     \/ task[p] # "prepare" /\ Rollback(p) /\ Goto(p, "audit") /\ UNCHANGED holder
  /\ UNCHANGED <<fileVars, running, api, boundVars>>

\* SingBoxUnavailable: the check could not run.  Or prepare could not copy the formal file.
CheckUnavailable(p) ==
  /\ pc[p] = "validate"
  /\ "check" \in Faults \/ ("disk" \in Faults /\ task[p] = "prepare")
  /\ Fail(p)
  /\ UNCHANGED fileVars

BackedUp(p) == \/ task[p] = "backup" /\ Return(p)
               \/ task[p] = "restore" /\ Continue(p, "replace")
               \/ task[p] \notin {"backup", "restore"} /\ Continue(p, "install")

\* (mutant) the snapshot is taken in the request's transaction.
NoteProposed(p) == prev' = [prev EXCEPT ![p] = [cfg |-> config, state |-> Rows(p)]]
\* (mutant) the snapshot is what the request's session has loaded.
NoteSession(p) == prev' = [prev EXCEPT ![p] = [cfg |-> config, state |-> want[p]]]
\* backup_current, first file.  A session of its own reads the committed table.
NoteCurrent(p) == prev' = [prev EXCEPT ![p] = [cfg |-> config, state |-> nodes]]

CopyConfig(p) ==
  /\ pc[p] = "backup" /\ config # NoFile
  /\ NoteCurrent(p)
  /\ backups' = <<[cfg |-> config, state |-> NoSidecar]>> \o backups
  /\ Goto(p, "sidecar")
  /\ UNCHANGED <<dbVars, staging, config, marker, running, holder, api, task, seen, want, boundVars>>

NothingToCopy(p) ==
  /\ pc[p] = "backup" /\ config = NoFile
  /\ BackedUp(p)
  /\ UNCHANGED <<dbVars, fileVars, running, boundVars>>

\* (mutant) the sort of _prune_backups lacks its reverse=True.
PruneNewest(s) == SubSeq(s, IF Len(s) > BackupLimit THEN Len(s) - BackupLimit + 1 ELSE 1, Len(s))
\* _prune_backups keeps the newest BackupLimit.
Prune(s) == SubSeq(s, 1, IF Len(s) < BackupLimit THEN Len(s) ELSE BackupLimit)

\* backup_current, second file, and the pruning.
WriteSidecar(p) ==
  /\ pc[p] = "sidecar"
  /\ backups' = Prune([backups EXCEPT ![1].state = prev[p].state])
  /\ BackedUp(p)
  /\ UNCHANGED <<dbVars, staging, config, marker, running, boundVars>>

\* (mutant) a failed backup leaves its first file.
BackupFailsHalfway(p) ==
  /\ pc[p] \in {"backup", "sidecar"} /\ "disk" \in Faults
  /\ Raise(p)
  /\ UNCHANGED <<dbVars, fileVars, running, api, localVars, boundVars>>
\* _prune_backups up to an OSError: of the backups beyond the limit the newer ones go first.
PrunedInPart(s) ==
  {Prune(s) \o SubSeq(s, i, Len(s)) : i \in Len(Prune(s)) + 1 .. Len(s) + 1}
\* Bound: a pruning fails only while there are no more backups than this.  An API that systemd
\* starts again and again could otherwise add one at every start.
PruneBound == BackupLimit + 1
\* An OSError, or no second connection for the snapshot: both files are removed, or they stay
\* where the pruning failed; the error leaves every caller.
BackupFails(p) ==
  /\ pc[p] \in {"backup", "sidecar"} /\ "disk" \in Faults
  /\ \/ backups' = IF pc[p] = "sidecar" THEN Tail(backups) ELSE backups
     \/ /\ pc[p] = "sidecar" /\ Len(backups) <= PruneBound
        /\ backups' \in PrunedInPart([backups EXCEPT ![1].state = prev[p].state])
  /\ Raise(p)
  /\ UNCHANGED <<dbVars, staging, config, marker, running, api, localVars, boundVars>>

\* _restore_database_state: DELETE every node, then INSERT the saved ones.
ReplaceNodes(p) ==
  /\ pc[p] = "replace"
  /\ \/ /\ MayWrite(p)
        /\ writer' = p /\ pending' = want[p] /\ nodes' = nodes
        /\ Continue(p, "stage")
     \/ /\ WriteTimeout(p)
        /\ Fail(p)
  /\ UNCHANGED <<fileVars, running, boundVars>>

\* _install_staging: os.replace, then fsync of the directory.
Install(p) ==
  /\ pc[p] = "install"
  /\ config' = staging
  /\ Continue(p, IF task[p] = "prepare" THEN "commit" ELSE "restart")
  /\ UNCHANGED <<dbVars, staging, backups, marker, running, boundVars>>

\* An OSError before os.replace ("disk") or after it ("fsync").  prepare_initial_config
\* reverts the file; for the others the call is outside the try that does.
InstallFails(p) ==
  /\ pc[p] = "install"
  /\ \/ "disk" \in Faults /\ UNCHANGED config
     \/ "fsync" \in Faults /\ config' = staging
  /\ \/ task[p] = "prepare" /\ Rollback(p) /\ Goto(p, "revert")
        /\ UNCHANGED <<holder, running, api, boundVars>>
     \/ task[p] # "prepare" /\ Fail(p)
  /\ UNCHANGED <<staging, backups, marker>>

\* systemctl restart and the health poll of _restart_locked.
RestartSucceeds == config # NoFile /\ running' = config
RestartFails == /\ config = NoFile \/ "restart" \in Faults
                /\ \/ running' \in {running, Down}
                   \/ config # NoFile /\ running' = config

Restart(p) ==
  /\ pc[p] = "restart" /\ RestartSucceeds
  /\ \/ task[p] = "restart" /\ p \in Cli /\ Return(p)
     \/ /\ task[p] = "restart" /\ p \in Req     \* then the audit row of the endpoint
        /\ holder' = NoProc /\ Goto(p, "flush") /\ UNCHANGED <<localVars, api>>
     \/ task[p] # "restart" /\ Continue(p, "commit")
  /\ UNCHANGED <<dbVars, fileVars, boundVars>>

\* (mutant) a failed restart is reported without giving the file back.
RestartFailureKept(p) ==
  /\ pc[p] = "restart" /\ RestartFails
  /\ Raise(p)
  /\ UNCHANGED <<dbVars, fileVars, api, localVars, boundVars>>
RestartFailure(p) ==
  /\ pc[p] = "restart" /\ RestartFails
  /\ \/ task[p] = "restart" /\ Raise(p) /\ UNCHANGED <<dbVars, localVars>>
     \/ task[p] # "restart" /\ Rollback(p) /\ Goto(p, "revert") /\ UNCHANGED holder
  /\ UNCHANGED <<fileVars, api, boundVars>>

\* The audit row and db.commit().
Commit(p) ==
  /\ pc[p] = "commit" /\ MayWrite(p)
  /\ nodes' = Rows(p) /\ pending' = Rows(p) /\ writer' = NoProc
  /\ \/ task[p] = "reconcile" /\ Continue(p, "unmark")
     \/ task[p] # "reconcile" /\ Return(p)
  /\ UNCHANGED <<fileVars, running, boundVars>>

\* (mutant) a failed commit is rolled back in the database only.
CommitFailsAlone(p) ==
  /\ pc[p] = "commit"
  /\ WriteTimeout(p) \/ "commit" \in Faults
  /\ Rollback(p)
  /\ Goto(p, "audit")
  /\ UNCHANGED <<holder, fileVars, running, api, boundVars>>
\* SQLAlchemyError: busy_timeout, or the commit itself.
CommitFails(p) ==
  /\ pc[p] = "commit"
  /\ WriteTimeout(p) \/ "commit" \in Faults
  /\ Rollback(p)
  /\ Goto(p, "revert")
  /\ UNCHANGED <<holder, fileVars, running, api, boundVars>>

Unmark(p) ==
  /\ pc[p] = "unmark"
  /\ \/ marker' = FALSE /\ Return(p)
     \/ /\ "disk" \in Faults /\ marker' \in BOOLEAN
        /\ Raise(p) /\ UNCHANGED <<api, localVars>>
  /\ UNCHANGED <<dbVars, staging, config, backups, running, boundVars>>

\* _restore_config_after_failure and its copies in restore_backup and
\* prepare_initial_config.  Only the copy in restore_backup lets an OSError out, before it
\* restarts sing-box: one before os.replace or, with the file back, the fsync after it.
Revert(p) ==
  /\ pc[p] = "revert"
  /\ \/ /\ config' = prev[p].cfg
        /\ \/ task[p] = "prepare" /\ Raise(p)
           \/ task[p] # "prepare" /\ Goto(p, "rerestart") /\ UNCHANGED holder
           \/ task[p] = "restore" /\ "copy" \in Faults /\ Raise(p)
     \/ /\ "copy" \in Faults /\ UNCHANGED config
        /\ \/ task[p] \in {"prepare", "restore"} /\ Raise(p)
           \/ task[p] \notin {"prepare", "restore"} /\ Goto(p, "rerestart") /\ UNCHANGED holder
  /\ UNCHANGED <<dbVars, staging, backups, marker, running, api, localVars, boundVars>>

Rerestart(p) ==
  /\ pc[p] = "rerestart"
  /\ RestartSucceeds \/ RestartFails
  /\ Continue(p, "audit")
  /\ UNCHANGED <<dbVars, fileVars, boundVars>>

\* The audit row of the failure, in a transaction of its own, and the raise.
RecordFailure(p) ==
  /\ pc[p] = "audit"
  /\ MayWrite(p) \/ WriteTimeout(p)
  /\ Raise(p)
  /\ UNCHANGED <<dbVars, fileVars, running, api, localVars, boundVars>>

\* The handler's db.rollback(), or Session.close().  A failed startup ends the process.
Abort(p) ==
  /\ pc[p] = "abort"
  /\ EndTransaction(p)
  /\ Leave(p)
  /\ api' = IF p = Boot THEN "down" ELSE api
  /\ UNCHANGED <<holder, fileVars, running, boundVars>>

------------------------------------------------------------------------------
(* Crashes.  The kernel drops the flock, SQLite the open transaction.      *)

Crash(S) ==
  /\ "crash" \in Faults /\ crashes < MaxCrashes
  /\ crashes' = crashes + 1
  /\ \E p \in S : pc[p] # "idle"
  /\ pc' = [p \in Proc |-> IF p \in S THEN "idle" ELSE pc[p]]
  /\ task' = [p \in Proc |-> IF p \in S THEN "none" ELSE task[p]]
  /\ seen' = [p \in Proc |-> IF p \in S THEN Blank ELSE seen[p]]
  /\ want' = [p \in Proc |-> IF p \in S THEN Blank ELSE want[p]]
  /\ prev' = [p \in Proc |-> IF p \in S THEN NoPrev ELSE prev[p]]
  /\ holder' = IF holder \in S THEN NoProc ELSE holder
  /\ writer' = IF writer \in S THEN NoProc ELSE writer
  /\ pending' = IF writer \in S THEN nodes ELSE pending
  /\ UNCHANGED <<nodes, fileVars, running, begun>>

CrashApi == Crash(Api) /\ api' = "down"
CrashCli(p) == Crash({p}) /\ UNCHANGED api

\* sing-box exits, or the host reboots: systemd starts it on the file it finds.
DataPlaneRestarts ==
  /\ "crash" \in Faults /\ crashes < MaxCrashes
  /\ crashes' = crashes + 1
  /\ config # NoFile
  /\ running' = config
  /\ UNCHANGED <<dbVars, holder, fileVars, api, pc, localVars, begun>>

------------------------------------------------------------------------------
Start(p) ==
  \/ CreateNode(p) \/ UpdateNode(p) \/ SetEnabled(p) \/ RegenerateSecret(p)
  \/ DeleteNode(p) \/ RegenerateAll(p) \/ UpdateSettings(p)
  \/ Post(p) \/ Command(p)

Step(p) ==
  \/ Flush(p) \/ FlushTimeout(p) \/ Settle(p) \/ AcquireLock(p) \/ LockTimeout(p)
  \/ SelectBackup(p) \/ Compare(p) \/ Stage(p) \/ StageFails(p)
  \/ Validate(p) \/ Reject(p) \/ CheckUnavailable(p)
  \/ CopyConfig(p) \/ NothingToCopy(p) \/ WriteSidecar(p) \/ BackupFails(p)
  \/ ReplaceNodes(p) \/ Install(p) \/ InstallFails(p) \/ Restart(p) \/ RestartFailure(p)
  \/ Commit(p) \/ CommitFails(p) \/ Unmark(p) \/ Revert(p) \/ Rerestart(p)
  \/ RecordFailure(p) \/ Abort(p)

\* No handler is running and none has to start: the API waits for requests.
Quiet ==
  /\ api = "up" /\ \A p \in Proc : pc[p] = "idle"
  /\ UNCHANGED vars

Next ==
  \/ \E p \in Req \cup Cli : Start(p)
  \/ \E p \in Proc : Step(p)
  \/ StartApi
  \/ CrashApi
  \/ \E p \in Cli : CrashCli(p)
  \/ DataPlaneRestarts
  \/ Quiet

\* Threads are scheduled and systemd restarts the API; nobody has to send a request.
Fairness == WF_vars(StartApi) /\ \A p \in Proc : WF_vars(Step(p))

Spec == Init /\ [][Next]_vars
FairSpec == Spec /\ Fairness

------------------------------------------------------------------------------
(* Properties.                                                             *)

\* Every variable has its type.
TypeOK ==
  /\ nodes \in Table /\ pending \in Table
  /\ writer \in Proc \cup {NoProc} /\ holder \in Proc \cup {NoProc}
  /\ staging \in File /\ config \in File /\ running \in Config \cup {Down}
  /\ marker \in BOOLEAN
  /\ backups \in Seq(Backup)
  /\ api \in {"down", "starting", "up"}
  /\ pc \in [Proc -> Label]
  /\ task \in [Proc -> Task]
  /\ seen \in [Proc -> Session] /\ want \in [Proc -> Session]
  /\ prev \in [Proc -> [cfg : File, state : Table]]
  /\ begun \in Nat /\ crashes \in Nat

\* What is about to replace the formal file is what this process rendered and what
\* `sing-box check' accepted: no other request has rewritten the shared staging file
\* between the check and the install (safe_apply, restore_backup, check_generated).
InstallsWhatItChecked ==
  \A p \in Proc : pc[p] = "install" =>
    staging = Render(p) /\ Buildable(staging) /\ Accepted(staging)

\* At every moment, also between a failure and the end of its rollback, the formal file is
\* one that `sing-box check' accepted, so systemd can always start sing-box on it.
FormalFileChecked == config # NoFile => Buildable(config) /\ Accepted(config)

\* A request that commits has published the committed value of every row it did not load
\* itself: a stale row can only be one of its own.
OnlyOwnRowsStale ==
  \A p \in Proc : pc[p] = "commit" =>
    \A n \in Node : want[p][n] = Unloaded => config[n] = Inbounds(Rows(p))[n]

\* While an installed configuration is not committed, its rollback source is intact: the
\* newest backup, not pruned, with the formal file and the committed table of before.
RollbackSourceKept ==
  \A p \in Proc :
    /\ pc[p] \in {"restart", "commit", "revert"} /\ task[p] \notin {"restart", "prepare", "backup"}
    /\ prev[p].cfg # NoFile
    => prev[p].state = nodes /\ backups # << >> /\ backups[1] = prev[p]

\* A backup without its sidecar is one being written: every other one can be restored.
BackupsRestorable ==
  \A i \in DOMAIN backups : backups[i].state = NoSidecar =>
    i = 1 /\ \E p \in Proc : pc[p] = "sidecar"

\* A backup pairs a formal file with the table it was generated from, never with the
\* proposed rows of the request that takes the backup (_snapshot_state).
BackupPairsMatch ==
  \A i \in DOMAIN backups :
    backups[i].state # NoSidecar => backups[i].cfg = Inbounds(backups[i].state)

\* The committed table can always be rendered, so that a restart of the API, which renders
\* it, can succeed (duplicate enabled listen ports are refused when a node is changed).
CommittedTableBuilds == Buildable(Inbounds(nodes))

\* With no operation in progress the formal file is generated from the committed table.
FileFollowsTable == holder = NoProc => config = Inbounds(nodes)

\* The API serves only after the formal file has been brought to the committed table and
\* the reconcile marker removed (lifespan, reconcile_with_database).
ServesConverged ==
  [][api # "up" /\ api' = "up" => config' = Inbounds(nodes') /\ ~marker']_vars

\* ... and sing-box runs that file, even if an earlier reconcile was interrupted between
\* replacing the file and restarting sing-box: that is what the marker is for.
ServesRunning == [][api # "up" /\ api' = "up" => running' = config']_vars

\* The lock order inversion between the node handlers and the other operations never
\* leaves one of them waiting: every handler ends.
HandlersEnd == \A p \in Proc : (pc[p] # "idle") ~> (pc[p] = "idle")

\* After a crash the API comes back.
ApiComesBack == (api # "up") ~> (api = "up")

------------------------------------------------------------------------------
(* The table and the formal file change together or not at all.            *)

Uncommitted(p) == pc[p] \in {"restart", "commit", "revert"} /\ task[p] # "restart"

\* The formal file as it will be if the operation in progress fails.
Published == IF \E p \in Proc : Uncommitted(p) THEN prev[holder].cfg ELSE config

Atomic == INSTANCE AtomicApply WITH db <- nodes, live <- Published

\* The formal file changes for good only in the step that commits: an operation that fails,
\* wherever it fails, has given the previous file back.
FailedApplyLeavesFile ==
  [][Published' # Published =>
       \E p \in Proc : pc[p] = "commit" /\ pc'[p] \in {"idle", "unmark"}]_vars

\* Every operation implements one atomic publication of table and file, or nothing.
AppliesAtomically == Atomic!Spec
==============================================================================
