# A verification of MyProxy Panel in TLA+

MyProxy Panel is a single-host control panel for sing-box: a FastAPI backend
(`backend/app`) with a SQLite database and a React frontend, which renders the
proxy nodes it stores into `config/sing-box.json`, runs `sing-box` as a systemd
service, and is installed, updated and reconfigured by shell scripts
(`deploy/`). This directory holds TLA+ models of the parts of it that are hard
to get right, the TLC configurations that check them on small instances, and
theorems about them that TLAPS checks for every instance. Paths below are
relative to the repository.

How to run: `tlc -config MCApplyMeet.cfg MCApplyPipeline.tla` (and so on for the
other `.cfg` files, with the module section 2 names) and `tlapm M.tla` for the seven
modules `*Proofs`.

## 1. Inventory

### 1.1 Components

| component | state it keeps | operations | modelled |
|---|---|---|---|
| Apply pipeline, `services/singbox_service.py` | staging file, formal file, backups with state sidecars, reconcile marker, operation lock (RLock + flock) | `safe_apply`, `check_generated`, `restart_current`, `backup_current`, `restore_backup`, `prepare_initial_config`, `reconcile_with_database` | `ApplyPipeline` |
| Node handlers, `api/nodes.py` | none (a session per request) | create, update, enable, disable, regenerate-secret, delete | `ApplyPipeline`, `NodeServing` |
| sing-box endpoints, `api/singbox.py` | none | check, apply, restart, restore; read-only status, logs, backups | `ApplyPipeline` |
| Configuration builder, `services/singbox_config.py` | none | `build_singbox_config`, duplicate port check | `NodeConfig`; abstract in `ApplyPipeline` |
| Command line, `cli.py` | none | init, check, restart, backup, restore, prepare-config; migrate, configure-deployment | `ApplyPipeline`; the last two as steps of `Deployment` |
| API process, `main.py`, systemd units | process state | startup reconciliation, crash, restart | `ApplyPipeline` |
| Sessions, `db/session.py`, `deps.py` | transaction, identity map, write lock | flush, commit, rollback, close | `ApplyPipeline` |
| Settings and subscription writes, `api/settings.py`, `api/subscription.py` | `settings` row | PUT settings, rotate token, regenerate all | `ApplyPipeline`, as transactions; `NodeServing` |
| Update and reconfiguration, `deploy/update.sh`, `deploy/reconfigure.sh` and the scripts they call | installation: code, `app.env`, TLS files, database, configuration, nginx site, hook; protected archive; deploy and certificate lock | the steps of both scripts, EXIT traps, rollbacks | `Deployment` |
| Certificate renewal hook, `deploy/scripts/cert-deploy-hook.sh` | `config/tls` | run by certbot's timer and by `provision-tls.sh` | `Deployment` |
| Install and uninstall | installation | `install.sh`, `uninstall.sh` | not modelled: `install.sh` is `Deployment`'s initial state |
| Restart health, `services/network_health.py`, `_restart_locked` | none | poll of unit state and listeners until a stable window or a deadline | `RestartHealth`; one nondeterministic step of `ApplyPipeline` |
| Authentication and sessions, `api/auth.py`, `core/security.py` | session rows, CSRF tokens, verification slots | login, logout, change password | `AuthSessions` |
| Public subscription, `services/subscription.py` | the token in `settings` | render for a token, rotate | `NodeConfig`, `NodeServing` |
| Credential editing, `services/credentials.py`, `core/logging.py` | none | defaults, rotation, redaction, merge of redacted values | `NodeConfig`, `NodeServing` |
| Frontend, `frontend/src` | session, CSRF token | node editor; views of the API, its client | the editor's save, `NodeConfig`, `NodeServing` |
| System status, `services/system_status.py` | none | reads `/proc` | a node's status, `NodeConfig` |
| Build and download scripts | caches | fetch, verify, build | not modelled: sequential, outside the running system |

### 1.2 How they interact

*Three stores, two locks.* A node change is in the `proxy_nodes` table, in
`config/sing-box.json` and in the memory of the sing-box process. SQLite's
write lock is taken by the first statement that writes (30 s `busy_timeout`);
the operation lock of `SingBoxService` serialises every operation across
threads and processes (15 s). Node handlers flush first and take the operation
lock second; apply, restore and the command line take them the other way round.
All operations share one staging path and one backup directory.

*Sessions.* A request reads rows before it holds any lock, and its session
never refreshes a row it has loaded (identity map), so what it renders later is
its own copy of those rows next to the committed state of the others, while its
`UPDATE` writes only the columns it changed.

*Callbacks of failure.* `safe_apply` rolls the database back, copies the backup
of the formal file back and restarts sing-box when a restart or a commit fails;
`restore_backup` and `prepare_initial_config` have copies of that code with
differences; the startup reconciliation uses a marker file to notice that it was
interrupted.

*Four readings of a node.* The builder, the subscription, the health check and the
status page each read `config_json` (the health check by way of the formal file) with
defaults of their own. The API shows it with placeholders for secrets, and the editor
sends the whole copy back, however old.

*One health check.* Every restart polls systemd and `/proc/net` under the operation
lock, and inside a change also under SQLite's write lock; systemd meanwhile restarts a
process that dies, on its own.

*Deployment.* `update.sh` and `reconfigure.sh` exclude each other by a lock they
do not wait for. The certificate lock, which they do wait for, protects
`app.env` and `config/tls` against the renewal hook. `reconfigure.sh` has to
release it while `provision-tls.sh` runs, since that runs the same hook. The
panel serves, and changes table and file, until a script stops it.

### 1.3 What is hard, and what correct means

| component | hard | correct |
|---|---|---|
| Apply pipeline | requests and processes interleaved; each external command and file operation may fail; crash at any step; lock order inversion | table and file move together or not at all; only what was checked is installed; a rollback finds its source; every handler ends; the API comes back and serves converged |
| Backups | copied while another request holds uncommitted rows; two files, pruned to a limit | each listed backup can be restored and pairs a file with its table |
| Deployment | a dozen steps any of which may fail or be interrupted; renewals at any moment; a lock given away in the middle | the installation changes as a whole or not at all; services return; certificate and key match; no renewal lost; both scripts and hooks end |
| Restart health | a clock, slow answers, crashes between two polls, listeners of other programs | a success was served by one process through the window; a good start is not refused; the check ends |
| Credentials, subscription | old editor copies, two queries, four translations of a row | what clients are given is what is served; a replaced secret is gone; an accepted node can be rendered |
| Sessions | Argon2 between a read and its write, crossing changes, expiry, restarts | a change ends every older session; none revives; none is lost; no slot leaks |

`PROJECT.json` lists each hazard at its line with the properties that cover it,
and those that no property covers with the reason.

## 2. Modules

| module | role |
|---|---|
| `ApplyPipeline` | the pipeline: handlers, sessions, locks, operations, crashes |
| `AtomicApply` | what it promises: one step publishes a table and the file generated from it |
| `ApplyInvariant` | its inductive invariant `IInv`, and what holds besides where handlers do not meet or only crashes happen |
| `ApplyPipelineProofs` | `IInv` and the theorems that need no more |
| `ApplyScenarioProofs` | the theorems about table, file, backups and the start of the API |
| `MCApplyPipeline` | instances for TLC, seven `.cfg` files |
| `Deployment` | the two scripts, the renewal hook, certbot, the panel |
| `AtomicDeployment` | what a script promises: another identity or the next release as a whole, or nothing |
| `DeploymentProofs` | lock and pair invariants, theorems |
| `DeploymentStateProofs` | types, what a script leaves behind, the refinement of `AtomicDeployment` |
| `MCDeployment` | instances for TLC, three `.cfg` files |
| `RestartHealth` | the polling loop after a restart, the unit, the clock |
| `RestartHealthProofs` | its inductive invariant and its theorems |
| `NodeConfig` | `config_json` as pure operators: credentials, redaction, merge, inbound, proxy, listeners |
| `NodeServing` | composes `NodeConfig` and `RestartHealth`: editors, changes, the public subscription |
| `NodeServingProofs` | the composition implements `RestartHealth`; tables, editors and clients |
| `MCNodeServing` | its instance for TLC, `MCServing.cfg` |
| `AuthSessions` | login, logout, password change, expiry, slots |
| `AuthSessionsProofs` | its invariant and its theorems |
| `MCAuthSessions` | its instance for TLC, `MCSessions.cfg` |

Definitions marked `(mutant)` are deliberately wrong variants of the definition
below them; they are used by no specification, and show of each property that it
can fail.

### 2.1 ApplyPipeline

A process is a request thread (`Req`), a command line (`Cli`), or the API while
it starts (`Boot`). `task[p]` is the handler it runs and `pc[p]` its next step.

| code | model |
|---|---|
| rows of `proxy_nodes`; what other connections see / what the open transaction has written | `nodes` / `pending`, `writer` |
| objects of a session as loaded / as changed; autoflush | `seen` / `want`; `Flush`, `Written` (changed columns only), `Conflicting` (IntegrityError, StaleDataError) |
| `_operation_lock` | `holder`; `AcquireLock`, `LockTimeout` |
| `render`, `build_singbox_config` | `Render`, `Inbounds`; `Buildable` is the duplicate port check |
| `generate_staging`, `validate_file` | `Stage`, `StageFails`, `Validate`, `Reject`, `CheckUnavailable` |
| `backup_current`, `_snapshot_state`, `_prune_backups` | `CopyConfig`, `NothingToCopy`, `WriteSidecar`, `BackupFails` |
| `_install_staging` | `Install`, `InstallFails` (before `os.replace` or at the fsync after it) |
| `_restart_locked` | `Restart`, `RestartFailure` |
| audit row and `db.commit()` | `Commit`, `CommitFails` |
| `_restore_config_after_failure` and its two copies | `Revert`, `Rerestart`, `RecordFailure` |
| `restore_backup`, `_restore_database_state` | `SelectBackup`, `ReplaceNodes`, then the common steps |
| `reconcile_with_database` and its marker | `StartApi`, `Compare`, `Unmark` |
| exceptions leaving the lock, `get_db` | `Raise`, `Abort` |
| process crash, sing-box exit, reboot | `CrashApi`, `CrashCli`, `DataPlaneRestarts` |

Data is abstract: `Cfg` stands for (protocol, port, parameters), with equal
values meaning equal ports, and `Rejected` are those that the builder lets pass
and `sing-box check` refuses. Backup names, audit texts and log contents are
left out. A step between two points where another process can look is one
action; a file replaced by rename is atomic, two files or a file and a process
are not.

### 2.2 Deployment

`deploy` is the step of the script that holds the deploy lock, `certLock` the
holder of the certificate lock; `pc[h]` is the step of a renewal hook, `timer`
under certbot's own renewal and `child` under `provision-tls.sh`. The files are
recorded by their origin: a certificate and a key by issuer, name and generation,
the configuration by the identity, rows and release it was rendered from.

| code | model |
|---|---|
| `acquire_deploy_lock` / `acquire_certificate_lock` | `Start` / `Locks`, `Relocks`, `StopsToUndo`, `HookLocks` |
| `systemctl stop`, `backup-state.sh`, `transaction_started` | `Stops`, `Archives`; `archive` |
| `update.sh`: pull, build / migrate, prepare-config / `install_integrations` | `Builds` / `Migrates` / `Integrates` |
| `reconfigure.sh`: `write_deployment_env`, temporary nginx site / `provision-tls.sh` / configure-deployment / nginx site | `WritesEnv` / `Provisions`, `Certonly`, `SelfSignsCert`, `SelfSignsKey` / `Configures` / `InstallsSite` |
| restart, `health-check.sh` | `Switches`, `Healthy`, `Completes` |
| EXIT trap before / inside the transaction | `Abandons` / `Undoes`, `StopsToUndo`, `Restores`, `GoesBack` |
| a rollback (`set +e`) one of whose commands fails / that is interrupted, or dies in `assert_safe_tar_gz` | `Restores` with `Undone` / `RollbackDies`, under the fault `rollback` |
| `cert-deploy-hook.sh` | `HookLocks`, `HookIgnores`, `ResolveCert`, `ResolveKey`, `PairCopied`, `InstallCert`, `InstallKey`, `HookReloads`, `HookRefuses`, `HookFails` |
| certbot (external) | `RenewCert`, `RenewKey`: the two links of a lineage move one after the other |
| a node change on the running panel | `PanelWrites`, one step: its inside is `ApplyPipeline` |

The two modules meet at `PanelWrites` and at `Migrates`/`Configures`, which use
`prepare_initial_config`: `Deployment` takes from `ApplyPipeline` that a change
is one step of table and file (`AppliesAtomically`).

### 2.3 RestartHealth

`check` is where `_restart_locked` is; `wake`, `since` and `seen` are its `now`,
`active_since` and the result of `_missing_active_listeners`. A poll is two steps,
since `systemctl is-active` answers up to `Delay` after the listeners were read.

| code | model |
|---|---|
| `systemctl restart` succeeds / does not | `Restarts` / `RestartRefused` |
| `_missing_active_listeners` | `ReadListeners`; `NodeConfig!ExpectedListeners` says which |
| the loop's body | `Healthy`, `ActiveSince`, `Stable`, `Late`, `NextPoll`, `ReadStatus` |
| `is-active` runs into its 3 s | `StatusFails` |
| process exit; `Restart=on-failure` | `Exits`; `ComesBack` after `RestartSec` |
| sockets of sing-box and of others | `ListenersChange`; after `Exits` ports may stay open |

### 2.4 NodeConfig and NodeServing

A config is a function of the keys present; a value is tagged by its kind, an object stands
at the first level (`obfs` is the only one the code reads), and a generated credential is
tagged by the request and the row it was made for. `NodeConfig` has no state. `Merge` keeps the
difference between the two branches of `_merge_config`: an object is merged into an object,
and where the row has none it is stored as it was sent, placeholders included.

`NodeServing` has the committed table, the rows from which the formal file was generated, the
sessions of the requests in progress, the editors' copies and one client's request. A request
is two steps, because that is where others come between: it *loads* its rows, without any
lock, and changes its copies (`Begin`, from one of the handlers); later it *commits* (`Commit`:
flush, build, restart and commit, under SQLite's write lock, which it holds from its first
`INSERT` or `UPDATE` on) or *fails* (`Fail`). The flush writes the columns in which the copy
differs from what was loaded, `config_json` as a whole (`Updated`, `Written`); the file is
built from the request's own copies of the rows it has loaded (`View`). What can go wrong
inside the second step is `ApplyPipeline`'s subject. Histories: `crossed`, the rows that another
request changed between load and commit of the request that committed last; `retired`, the
credentials a change has replaced or deleted; `revoked`, those that the last regenerate-all put
out of use. The operation lock keeps restart and changes apart; the timed check is followed
where it stands alone, in the restart operation.

| `default_node_config`, `regenerate_node_credentials`, `ensure_ss2022_key_matches_method` | `DefaultConfig`, `Regenerate`, `EnsureKey` |
| `redact_data`, `_merge_config` | `Redact`, `Merge` |
| `NodeEditorDrawer.submit` | `Submitted`; `OpenEditor`, `SaveEditor` |
| `build_singbox_config` | `Builds`, `Inbound` |
| `build_mihomo_proxies` | `Renders`, `Proxy` |
| `expected_listeners`, `expected_transports`, `_node_runtime_status` | `ExpectedListeners`, `ExpectedTransports`, `RuntimeStatus` |
| `_validate_node` | `Valid` |
| handlers of `api/nodes.py`, regenerate-all, up to the flush | `CreateNode`, `UpdateNode`, `PatchNode`, `SetEnabled`, `DeleteNode`, `RegenerateSecret`, `RegenerateAll` |
| `record_audit`, `db.flush`, `safe_apply` / an exception | `Commit` / `Fail` |
| `public_subscription` | `FetchSettings`, `FetchNodes`, `FetchEnds` |

### 2.5 AuthSessions

A request reads at its beginning (`Login`, `Request`) and writes in one transaction at
its end (`OpenSession`, `Logout`, `ChangePassword`); what it has read is `read` and
`own`. A login takes the time once, between Argon2 and a DELETE that may wait for the write
lock: `OpenSession` uses any moment since `checked`, both for what it deletes and for when its
session expires. Rows are addressed by their number, as the ORM does, and SQLite gives a number
after the largest one present, so a deleted row's number comes back (`IsNextRow`).
`era` and `keeper` are history: the last password change and the row that it spares.

## 3. What the runs show

| run | instance | distinct states | properties |
|---|---|---|---|
| `apply_apart` | 2 requests on nodes of their own, a command line backup, faults check, restart, disk, commit; 3 operations; 3 seeds | 281,000 | `TypeOK`, `BackupsRestorable`, `BackupPairsMatch`, `CommittedTableBuilds`, `FileFollowsTable`, `AppliesAtomically` |
| `apply_meet` | requests on the same nodes, restore and prepare; same faults; 3 operations | 582,000 | `InstallsWhatItChecked`, `OnlyOwnRowsStale`, `RollbackSourceKept`, `FailedApplyLeavesFile` |
| `apply_fresh` | first installation, every fault, 2 crashes | 90,000 | `FormalFileChecked`, `IInv`, `ServesConverged` |
| `apply_crash` | node change, apply, command line; 2 crashes; fairness | 52,000 | `ServesRunning`, `ApiComesBack`, `HandlersEnd` |
| `deploy_rollback` | 2 scripts, 2 domains and an address, any step may fail, renewals, panel changes | 134,600 | `TypeOK`, `PairsMatch`, `Settled`, `TlsFollowsIdentity`, `ServicesReturn`, `UpdateKeepsTls`, `DeploysAtomically` |
| `deploy_live` | 1 script, every fault; fairness | 45,500 | `ScriptsEnd`, `RenewalsEnd` |
| `serving` | 2 nodes and a place for a third, 2 seeds with all protocols, one editor, 2 requests that may cross, or a restart; a poll every 2 ticks, 13 ticks; fairness | 121,000 | `TypeOK`, `ClientsMatchServer`, `OnlyClientOptionsRefused`, `ReplacedSecretsStayReplaced`, `NewAddressNewSecrets`, `StatusAgrees`, `EndsInTime`, `NoCrashMissed`, `GoodNotRefused`, `CheckEnds` |
| `sessions` | 3 browsers, 2 slots, 2 passwords, 3 logins, sessions that live one tick of 2; symmetric browsers | 1,856,000 | `TypeOK`, `OldSessionsRevoked`, `SlotsBalance`, `EndedStaysEnded`, `EndsForAReason` |
| `apply_stale`, `apply_ports`, `apply_fsync`, `deploy_mode` | the smallest instance with the interleaving | | one violated property each, section 5 |

*Bounds.* Two nodes are enough for "mine and another's" and for a port
conflict; two accepted values and a refused one for "old, new, invalid"; two
requests and a command line for one holder of each lock and a waiter. Three
operations let an operation meet the traces of a finished one and of a running
one; a backup limit of 1 makes every second backup prune; two crashes allow a
crash during the recovery from a crash. Two scripts allow a script after a rolled
back one; two renewals, one before and one inside a rollback. The bounds are the
constants `MaxOps`, `MaxCrashes`, `MaxScripts`, `MaxRenewals`, `MaxRows`, and
`PruneBound`: an API that systemd starts for ever could add a backup at every start while the
pruning fails.
In `serving` two requests are enough for one that commits between load and commit of another,
and for one that replaces a credential before an old editor copy is saved; what takes a third
(a crossed row edited again) is left to the theorems. The seeds hold each protocol and a
disabled node; nodes are created enabled and disabled, with each of the patches; `MCPatches` has
right and wrong values for each check that a builder or renderer makes. 13 ticks hold
three windows, so that the window can be broken and begin again; the proportions of the
five times are those of `config.py` and the unit, roughly, and the theorems do not depend on
them. `MaxChanges` bounds the changes, and the restart is tried once and by itself.
In `sessions` a third browser finds no slot free or crosses the other two; three
logins and two ticks let a row expire, be deleted and its number be given again
(`MaxLogins`, `MaxTime`).

*Where the instances stop.* `FileFollowsTable`, `AppliesAtomically`,
`CommittedTableBuilds` and `BackupPairsMatch` hold where requests do not meet on
a node, and the violation runs show two of them failing where they do.
`FailedApplyLeavesFile` holds without the fsync fault and without a failing copy
back. `ServesRunning` holds under crashes of operations that succeed: a crash
inside a rollback or a restore leaves file and table in agreement with no marker,
and the next start does not restart sing-box (listed as a hazard). `BackupsRestorable`
holds without crashes. `PairsMatch` holds unless a hook is killed between its
two renames or a rollback fails itself; `Settled` and `DeploysAtomically` need that too. `ServicesReturn` holds
as long as systemd can start the services.

*Fairness.* `ApplyPipeline!Fairness` is weak fairness of each thread's next step
and of systemd starting the API (`Restart=on-failure`, `myproxy-api.service`): a
thread that can go on is scheduled, and both lock waits end at their limit. Nobody is
obliged to send a request or to crash. `Deployment!Fairness` is weak fairness of
the script, of the hooks and of a certbot that has begun; no fault is under
fairness, so nothing is saved from waiting by failing. Weak fairness suffices
because the certificate lock is contended by finitely many renewals.

`NodeServing!FairSpec` is weak fairness of the check's own steps and of the clock
(`RestartGoesOn`): the polling thread is scheduled and time passes. Changes, clients,
crashes and systemd are under no fairness. Neither run checks deadlock, because the
system may stop at its bounds.

*Deadlock* is checked in every run of `ApplyPipeline` and `Deployment`; `Quiet` is the
idle system, which may rest.

## 4. What is proved

`ApplyPipelineProofs`, for any nodes, values, requests, command lines, scripts,
faults and bounds, from the named assumptions of the module: values are distinct
(`ValueAssumption`), processes of the three kinds are disjoint
(`ProcAssumption`), the installed tables are ones that a run of the panel could
have applied (`SeedAssumption`), and limits are naturals (`LimitAssumption`).

| theorem | statement |
|---|---|
| `Invariance` | `Spec => []IInv` |
| `TypeCorrect` | `[]TypeOK` |
| `OperationsAreIsolated` | `[]InstallsWhatItChecked` |
| `FormalFileSound` | `[]FormalFileChecked`, under every fault and crash |
| `StalenessIsLocal` | `[]OnlyOwnRowsStale` |
| `RollbackPossible` | `[]RollbackSourceKept` |

None of these is inductive alone. That the staging file is still what was
checked depends on nobody else being inside the lock (`LockOwner`); that the
rollback source is intact depends on the table not having been committed by
another process meanwhile, hence on the fact that a transaction that commits
outside the operation lock changes no node (`SessionInv`) and that no transaction
is open unless somebody holds the write lock (`NoOpenChanges`). `IInv` joins
these with, per process, the way through the steps (`PathInv`), the rows chosen
for a restore (`ChosenInv`), the staging and formal file until the commit
(`StagingInv`) and the rollback source (`SourceInv`). The proof has one lemma for
what a step of one process leaves alone of another (`Moves`, `BystanderKeeps`)
and one step per action for the process that moves. TLC checks `IInv` in
`apply_fresh`.

`ApplyScenarioProofs` proves what holds under conditions on the instance, each of which is
needed:

| theorem | statement | for |
|---|---|---|
| `FailedOperationsLeaveFile` | `FailedApplyLeavesFile` | `Recoverable` |
| `BackupsStayRestorable` | `[]BackupsRestorable` | no crash |
| `TableStaysBuildable` | `[]CommittedTableBuilds` | `OwnRows` |
| `FileIsTheTables` | `[]FileFollowsTable` | `OwnRows`, `Recoverable`, `Installed` |
| `PipelineIsAtomic` | `AppliesAtomically`: `ApplyPipeline` implements `AtomicApply` | the same |
| `BackupsPair` | `[]BackupPairsMatch` | `OwnRows`, `Recoverable` |
| `ServiceStartsConverged` | `ServesConverged` | every instance, fault and crash |
| `ServiceStartsRunning` | `ServesRunning` | `OwnRows`, `OnlyCrashes` |

`OwnRows` says that no two processes may change the same row; `apply_stale` and `apply_ports`
are the smallest instances without it, and `FileFollowsTable` and `CommittedTableBuilds`
fail there. A restore changes every row, so under `OwnRows` whoever restores is the only
one that edits. `Recoverable` leaves out the fsync that fails after the rename (`apply_fsync`),
the copy back that fails and the crash; failing checks, restarts, disks and commits remain. A
crash between the two files of a backup leaves one without its state, and a crash or a failed
copy back leaves a file that is not the table's, which a backup on the command line then pairs with it.
`OnlyCrashes` leaves out every other fault, and `prepare` and `restore` on the command line:
a crash inside a rollback, a restore or a prepare leaves file and table in agreement with no marker
(listed as a hazard). `OwnRows` is needed there too: a stale file that an apply brings back to
the table is in agreement with it before sing-box is restarted (section 5).
`apply_crash` is an instance of it, `apply_apart` one of `OwnRows` with `Recoverable`,
`apply_meet` one of `Recoverable` alone. `Installed` is a panel
whose first file is written when the run begins: before that no file can follow the table.

The argument goes through *the file that counts* (`Published`): the rollback source of the
operation that has installed and not committed, else the formal file. `FormalSource`
says that until an operation installs, its rollback source is the formal file. So only a
commit changes the file that counts (`PublishedStep`): an installation moves the old
file into the rollback source, a reversal brings it back. What a commit publishes is what
was rendered, and that is the table it commits if the session's rows are current
(`CurrentInv`): what it loaded is what is committed, what it changed is what its
transaction holds, and only it may change these rows. `CurrentInv` is kept by every fault and crash,
because a crash drops session and transaction together; hence `TableStaysBuildable` needs no
more than `OwnRows`.
`ServiceStartsConverged` rests on `BootInv`: what the startup has committed stays in force
until it removes the marker, since it holds the operation lock and edits nothing.
`ServiceStartsRunning` adds `RunningInv`, whose core is that without the marker a formal
file that is the table's is one sing-box runs. It survives a crash between installation and
restart because a request that installs changes what the table does not say yet: if the file it
installs is already that of the table, sing-box was running it. The startup can install
without a change of the table, and is covered by the marker (`MarkerInv`). TLC
checked these invariants on the instances above and on variants of them with a restore and with
two crashes before they were proved.

`DeploymentProofs`, for any names, identities and bounds:

| theorem | statement |
|---|---|
| `RenewalsSurviveUpdates` | `UpdateKeepsTls`, under every fault |
| `CertificateHasItsKey` | `[]PairsMatch`, if no hook is killed and no rollback fails itself |

The first rests on `LockInv`: whoever is at work on `config/tls` holds the
certificate lock, `update.sh` from its archive to its exit, and so its archive
holds the pair that is installed. The second adds `PairInv`: a hook between its
two renames has compared the pair it copies, the archive is taken from a
matching pair, and a mismatch exists only while a hook, a self-signing or a
rollback is at work.

`DeploymentStateProofs`, for any names, identities, faults and bounds, with `RecordAssumption`
besides (an archive is not the value that stands for none):

| theorem | statement | for |
|---|---|---|
| `DeploymentTypes` | `[]TypeOK` | every fault |
| `ScriptsLeaveOneState` | `[]Settled` | rollbacks that do not fail themselves |
| `CertificateFollowsIdentity` | `[]TlsFollowsIdentity` | the same, and `OneModePerName` |
| `ScriptsLeaveServicesRunning` | `[]ServicesReturn` | failing steps only |
| `ScriptsAreAtomic` | `DeploysAtomically` | the first again |

Each property speaks of the end of a script, and each invariant says step by step how far
the script has got towards it and that the archive is a way back. `SettledInv` says
which of site, table, hook, schema and configuration agree at which step, `ArchiveAgrees` that
they agree in the archive. `TlsInv` needs that only a name of the ACME mode ever
has a lineage (`LineageInv`): with a name that changes its mode the property fails, which
is run `deploy_mode`. `ServiceInv` allows sing-box to serve older files only while a hook
that restarts it next is at work. `RefInv` is the refinement's: the panel is stopped from the
archive to the health check, so an archive has every row until then, and how far the
script has got says what differs from the archive. A rollback is then a step back
to the archived state, which is a stutter of `AtomicDeployment`, and the
end of a successful one, which drops its archive, the one step.

`RestartHealthProofs`, for any timeout, window, interval, answer time and restart delay
of the unit, from `TimeAssumption` and `PollAssumption` (two polls follow each other
faster than systemd brings a dead process back; true of the installed values while
`systemctl` answers in less than 2.75 s):

| theorem | statement |
|---|---|
| `RestartTypes` | `[]RestartTypeOK` |
| `ChecksEndInTime` | `[]EndsInTime` |
| `CrashesAreSeen` | `NoCrashMissed` |
| `GoodIsAccepted` | `GoodNotRefused` |

`Clock` bounds the clock by the next poll and the next poll by the deadline. `Broken`
says of a process that has died since the last healthy poll that it went down at most
one poll before the next and is therefore still down when that one reads the unit's
state: this is where `PollAssumption` is used.
`Good` follows a sing-box that is up with every listener from the first poll that finds
it to the window's end. `NodeServingProofs` shows that `NodeServing` implements
`RestartHealth` (`ServingImplementsRestart`: every step is one of the check or leaves its
variables alone), so that these hold in the composition (`ServingSeesCrashes`).

`NodeServingProofs` also proves, for any site, hosts, seeds, editors, forms, edits and number of
requests, from `NodeIdAssumption` (SQLite's row numbers), `BoundAssumption`, `SeedAssumption`
(the tables a run starts from were applied) and `EditAssumption` (the editor's form has no field
for a secret, and a secret an administrator sends is one of his own and not a generated one):

| theorem | statement |
|---|---|
| `ServingTypes` | `[]TypeOK` |
| `ReplacedStayReplaced` | `ReplacedSecretsStayReplaced` |
| `NewAddressServesNewSecrets` | `[]NewAddressNewSecrets` |
| `ClientsAreServed` | `[]ClientsMatchServer` |
| `StatusPageAgrees` | `[]StatusAgrees` |
| `OnlyTwoOptionsRefused` | `[]OnlyClientOptionsRefused` |

None of these may assume that requests do not cross, and each says how far the damage goes when
they do (section 5 has the traces). `ClientsMatchServer`, `OnlyClientOptionsRefused` and
`StatusAgrees` except the rows in `crossed`: those are the rows on which file and table are
built from different columns. `ReplacedSecretsStayReplaced` allows the return of a replaced
credential only with the commit of a request that had loaded it, so never by an editor's copy,
however old. `NewAddressNewSecrets` allows under the new address the old credentials that
`Exempt` names, those of rows created after regenerate-all had listed the nodes and those
that another request had loaded by its commit (and one at a place the row's protocol does not use,
which nobody regenerates and nobody is served unless a patch put it into another row).

`DataInv` is inductive. `TableInv`: table and file are made of well-formed rows with the same
keys, the file builds, and they agree but on crossed rows. `ReqInv`: a request's copies are
well-formed, and every credential in them is in what it loaded or was made by it. `CopyInv`: an
editor's copy has the mask at every secret. `FreshInv`: every credential that is in the table,
was replaced or was loaded comes from a request that has ended, so none is made twice. `FetchInv`:
what a regenerate-all put out of use is neither in the table nor loaded by a running request, so
no step can bring it back, and a client is served none of what its address had put out of
use. The lemmas on
the operators (`MergeKeeps`, `SubmittedHidesSecrets`, `KeyedIs`, `RegenerateReplaces`) say that a
merge takes a secret from the loaded row or from the administrator, and a new one only where a key
no longer fits its method; `WrittenCredentials` and `RotatedCredentials` carry that through the
flush. The last three theorems compare two readings of one row, operator by operator.

`AuthSessionsProofs`, for any set of browsers and passwords and any numbers of slots,
logins and ticks, from `ClientAssumption` (finite), `SlotsAssumption` and
`SessionAssumption`:

| theorem | statement |
|---|---|
| `Types` | `[]TypeOK` |
| `SlotsNeverLeak` | `[]SlotsBalance` |
| `ChangesRevoke` | `[]OldSessionsRevoked` |
| `NoRevival` | `EndedStaysEnded` |
| `OnlyForAReason` | `EndsForAReason` |

The three invariants together are inductive. `SlotsBalance` is a count over all
browsers, kept by adding one to a finite set or taking one away. `OldSessionsRevoked` holds since a
login keeps rows as they are and its own token is newer than any change. `EndsForAReason` needs that
a login deletes no session that is alive at its commit, although it decides with an earlier time
(`OpenedRows`).

*Model-checked only.* Liveness (`HandlersEnd`, `ApiComesBack`, `ScriptsEnd`,
`RenewalsEnd`, `CheckEnds`) needs fairness and ENABLED, which are beyond the prover. Every
other property of a passing run is stated by a theorem above, under the conditions named
there. Outside those conditions the violation runs of section 5 show what fails.

## 5. Where code and documents disagree

1. `apply_stale`: two requests load one node before either commits; the second
   renders its old copy, and the running file differs from the committed table
   until the next apply (`api/nodes.py:206`; the technical document promises that
   the saved state is what is rendered).
2. `apply_ports`: in the same way two requests commit two enabled nodes on one
   port, after which no configuration can be built and the API cannot start.
3. `apply_fsync`: when the fsync of the directory fails after `os.replace`, the
   operation fails and the new file stays (README.md: the previous configuration
   is restored).
4. `deploy_mode`: a renewal hook waiting for the lock while a domain is switched
   to the self-signed mode installs the ACME pair afterwards
   (`cert-deploy-hook.sh:49` reads the domain, not the mode).

Met while modelling, and promised otherwise by no document:

* Requests that cross on a node, each one step of `serving` away from its properties without
  the exceptions section 4 names. (a) regenerate-secret or regenerate-all commits between the
  load of a PUT (`api/nodes.py:160`) and its flush (181): the PUT writes `config_json` whole and the
  replaced credential is in force again; the dialogs of the panel say that old credentials
  lapse at once (`frontend/src/pages/NodesPage.tsx:111`, `SettingsPage.tsx:112`). (b) A create
  commits between the list of regenerate-all (`api/subscription.py:98`) and its flush: its node keeps
  its credential under the new address. (c) A PUT on a disabled node, whose config nobody
  builds, crosses an enable: the committed row is enabled and cannot be rendered, and every later
  apply is refused until it is edited (a form of `apply_ports`).
* PUT `{"obfs": {"password": "[REDACTED]"}}` on a node without an object `obfs` stores the
  placeholder (`api/nodes.py:41`). On a TUIC or Shadowsocks node nobody reads it; a Hysteria2 node
  can have it while it is disabled, and the builder refuses to enable it.
* A row number freed by `login` (`api/auth.py:85`) is given to the new session. A logout
  in flight for the expired session then ends the new one, and a password change spares
  it: `OldSessionsRevoked` can only speak of the row.
* A login that has verified the old password before a change opens its session after it;
  if the old hash needed other parameters, it also writes the old password's hash back
  (`api/auth.py:81`), and the change is lost. Two password changes at once revoke each
  other's sessions.
* A client of the old address whose token was compared just before regenerate-all commits is
  served the new credentials once (`api/subscription.py:115`, `117`).
* A `heartbeat` in hours is accepted by the builder and given to clients as 10 s
  (`services/subscription.py:20`).
* A TUIC or Hysteria2 `user` that looks like a UUID is shown as `[REDACTED UUID]`, which is not the
  placeholder of `_merge_config`: saving the editor stores that text as the user.
* After two requests have met on a node, as in `apply_stale`, an apply brings the file back to
  the table; if the API dies between that and the restart, the next start finds file
  and table in agreement and no marker, and serves while sing-box runs the stale file
  (`singbox_service.py:681`; TLC finds it in `apply_crash` with two requests on one node and
  a third operation).
* With answers of `systemctl` slower than 2.75 s the health check may miss a crash.

## 6. What is not modelled

Names of nodes and their uniqueness (in `NodeServing`; `ApplyPipeline` has the conflict),
layout and timings of the YAML, CPU, memory, disk and version figures, hashing and the
CSRF double submit, the pages of the frontend but for the node editor, and parsing of
`/proc/net`. Log and audit contents,
file modes and ownership, the arguments and checks of the scripts that cannot
change state, nginx apart from its site, retries of systemd after a failed
start, a `kill -9` of a script (no trap runs), a rollback of a script that dies between the removal
of `config` or of the database and the copy of the saved one (`Restores` leaves such a part as it
was), rows written after a script has
restarted the panel and before its health check fails (they are lost, see the
hazards), and SQLite's connection pool. Read-only endpoints are left out, but for the
public subscription. `install.sh`, `uninstall.sh` and the build scripts run once and
alone, on a system that does not serve. In `NodeServing` the rotation of the address alone and
requests that cross with more than load and commit between them (two that wait for the write lock at
once commit in either order, one after the other) add no behaviour; nested objects but `obfs` are
data of which nothing is read.

## 7. Plan

1. Theorems: `ServesRunning` with failing restarts, for instances in which no operation is
   rolled back when it crashes; what is left of `BackupPairsMatch` after a
   crash (every pair taken while the API serves matches); `FileFollowsTable` for the rows
   that no two requests have loaded at once, instead of `OwnRows` for the whole instance.
2. `Installation`: `install.sh` and `uninstall.sh` as further users of the two
   locks of `Deployment`, with install's undo; a failed install leaves nothing.
