------------------------------ MODULE Deployment ------------------------------
(***************************************************************************)
(* deploy/update.sh and deploy/reconfigure.sh on a running installation,   *)
(* next to certbot's renewals and their deploy hook                        *)
(* (deploy/scripts/cert-deploy-hook.sh) and to the panel, which serves     *)
(* until its service is stopped.                                           *)
(*                                                                         *)
(* Two locks: the deploy lock, taken without waiting, admits one script at *)
(* a time (`deploy' is its step); the certificate lock, waited for,        *)
(* protects config/app.env and config/tls.  A script works on the live     *)
(* files after it has archived them, and its EXIT trap puts the archive    *)
(* back.  reconfigure.sh has to give the certificate lock away while       *)
(* certbot runs, because provision-tls.sh runs the hook itself.            *)
(***************************************************************************)
EXTENDS Naturals

CONSTANTS
  Name,         \* server names: domains and addresses
  Identity,     \* pairs of server name and TLS mode the administrator uses
  Jobs,         \* the scripts run in this instance, a subset of {"update", "reconfigure"}
  Faults,       \* what may go wrong, a subset of FaultKind
  MaxScripts,   \* bound on the scripts started
  MaxRenewals,  \* bound on the certificates issued
  MaxRows,      \* bound on the rows the panel writes
  None          \* no archive, nobody, no process, no lineage

\* "step": a command of a script fails or the script is interrupted; "hook": the renewal's
\* hook is; "restart": systemctl restart fails; "rollback": a command of a rollback fails, or the
\* rollback is interrupted.
FaultKind == {"step", "hook", "restart", "rollback"}

Hook == {"timer", "child"}      \* the hook under certbot's timer, and under provision-tls.sh

ASSUME NoneAssumption == None \notin Hook \cup {"script", "update", "reconfigure"}
ASSUME IdentityAssumption == Identity \subseteq [name : Name, selfSigned : BOOLEAN]
ASSUME BoundAssumption == MaxScripts \in Nat /\ MaxRenewals \in Nat /\ MaxRows \in Nat
ASSUME JobAssumption == Jobs \subseteq {"update", "reconfigure"} /\ Faults \subseteq FaultKind

VARIABLES
  deploy,     \* the step of the script that holds the deploy lock, "none" when it is free
  job, goal,  \* that script and the identity it was asked for
  certLock,   \* holder of the certificate lock: None, "script", or a hook
  env,        \* the identity in config/app.env
  cert, key,  \* config/tls/fullchain.pem, privkey.pem: who issued them, for whom, which pair
  site,       \* the identity of the nginx site
  challenge,  \* the temporary nginx site of an ACME challenge exists
  hook,       \* the renewal hook is installed
  code,       \* the release checked out and built
  db,         \* the database: identity, schema release, rows
  config,     \* config/sing-box.json: what it was rendered from, and by which release
  archive,    \* the protected archive of the script in progress, with the saved nginx site
  api,        \* myproxy-api.service is active
  singbox,    \* what myproxy-singbox.service has loaded
  lineage,    \* /etc/letsencrypt/live: the pair each link points at, 0 for none
  certbot,    \* holder of certbot's own lock
  pc,         \* pc[h]: the next step of hook h and of the certbot around it
  due,        \* due[h]: the lineage h was started for
  copied,     \* copied[h]: the pair h has resolved
  scripts     \* scripts started so far

scriptVars == <<deploy, job, goal, archive, scripts>>
tlsVars    == <<cert, key>>
identityVars == <<env, site, challenge, hook>>
releaseVars  == <<code, db, config>>
serviceVars  == <<api, singbox>>
hookVars   == <<pc, due, copied>>
certbotVars == <<lineage, certbot>>
vars == <<scriptVars, certLock, tlsVars, identityVars, releaseVars, serviceVars, hookVars,
          certbotVars>>

Pair == [by : {"self", "acme"}, name : Name, pair : Nat]
Database == [id : Identity, schema : Nat, rows : Nat]
Rendering == [name : Identity, rows : Nat, release : Nat]
Archive == [env : Identity, cert : Pair, key : Pair, config : Rendering, db : Database,
            site : Identity, code : Nat]
Loading == [config : Rendering, cert : Pair]
\* None is neither an archive nor what sing-box has loaded.
ASSUME RecordAssumption == None \notin Archive \cup Loading

Issued(by, n, g) == [by |-> by, name |-> n, pair |-> g]
Matches == cert = key
Loaded == [config |-> config, cert |-> cert]
\* What the panel, configure-deployment and prepare-config render.
Rendered(d, r) == [name |-> d.id, rows |-> d.rows, release |-> r]

Init ==
  /\ deploy = "none" /\ job = None /\ goal = None /\ scripts = 0 /\ archive = None
  /\ certLock = None /\ certbot = None
  /\ env \in Identity
  /\ site = env /\ hook = ~env.selfSigned /\ challenge = FALSE
  /\ lineage = [n \in Name |-> IF n = env.name /\ ~env.selfSigned THEN [cert |-> 1, key |-> 1]
                                                                   ELSE [cert |-> 0, key |-> 0]]
  /\ cert = IF env.selfSigned THEN Issued("self", env.name, 0) ELSE Issued("acme", env.name, 1)
  /\ key = cert
  /\ code = 0
  /\ db = [id |-> env, schema |-> 0, rows |-> 0]
  /\ config = Rendered(db, code)
  /\ api = TRUE
  /\ singbox = Loaded
  /\ pc = [h \in Hook |-> "idle"] /\ due = [h \in Hook |-> None]
  /\ copied = [h \in Hook |-> [cert |-> 0, key |-> 0]]

------------------------------------------------------------------------------
(* The panel: a change that is stored, rendered and applied.  While the    *)
(* pair does not match `sing-box check' refuses every change.              *)

PanelWrites ==
  /\ api /\ db.rows < MaxRows /\ Matches
  /\ db' = [db EXCEPT !.rows = @ + 1]
  /\ config' = Rendered(db', code)
  /\ singbox' = [config |-> config', cert |-> cert]
  /\ UNCHANGED <<scriptVars, certLock, tlsVars, identityVars, code, api, hookVars, certbotVars>>

------------------------------------------------------------------------------
(* certbot.  Its renewal replaces the two links of a lineage one after the *)
(* other and then runs the hook, if it is installed; its own lock makes a  *)
(* second certbot fail.                                                    *)

RenewCert(n) ==
  /\ certbot = None /\ pc["timer"] = "idle"
  /\ lineage[n].cert \in 1 .. MaxRenewals
  /\ certbot' = "timer"
  /\ lineage' = [lineage EXCEPT ![n].cert = @ + 1]
  /\ due' = [due EXCEPT !["timer"] = n]
  /\ pc' = [pc EXCEPT !["timer"] = "renewed"]
  /\ UNCHANGED <<scriptVars, certLock, tlsVars, identityVars, releaseVars, serviceVars, copied>>

RenewKey ==
  /\ pc["timer"] = "renewed"
  /\ lineage' = [lineage EXCEPT ![due["timer"]].key = @ + 1]
  /\ IF hook
     THEN /\ pc' = [pc EXCEPT !["timer"] = "lock"]
          /\ UNCHANGED <<certbot, due>>
     ELSE /\ pc' = [pc EXCEPT !["timer"] = "idle"]
          /\ due' = [due EXCEPT !["timer"] = None]
          /\ certbot' = None
  /\ UNCHANGED <<scriptVars, certLock, tlsVars, identityVars, releaseVars, serviceVars, copied>>

\* certbot certonly of provision-tls.sh: a new lineage, or the one there is, renewed if due.
Certonly ==
  /\ pc["child"] = "certonly" /\ certbot = None
  /\ \E g \in {lineage[due["child"]].cert, lineage[due["child"]].cert + 1} :
       /\ g \in 1 .. MaxRenewals + 1
       /\ lineage' = [lineage EXCEPT ![due["child"]] = [cert |-> g, key |-> g]]
  /\ pc' = [pc EXCEPT !["child"] = "lock"]
  /\ UNCHANGED <<scriptVars, certLock, tlsVars, identityVars, releaseVars, serviceVars, certbot,
                 due, copied>>

------------------------------------------------------------------------------
(* The hook.                                                               *)

\* It exits; the script that runs it goes on, or fails.
HookExits(h, ok) ==
  /\ pc' = [pc EXCEPT ![h] = "idle"]
  /\ due' = [due EXCEPT ![h] = None]
  /\ copied' = [copied EXCEPT ![h] = [cert |-> 0, key |-> 0]]
  /\ certLock' = IF certLock = h THEN None ELSE certLock
  /\ IF h = "timer" THEN certbot' = None /\ deploy' = deploy
     ELSE certbot' = certbot /\ deploy' = IF ok THEN "relock" ELSE "undo"
  /\ UNCHANGED <<job, goal, archive, scripts, lineage>>

HookLocks(h) ==
  /\ pc[h] = "lock" /\ certLock = None /\ env.name = due[h]
  /\ certLock' = h
  /\ pc' = [pc EXCEPT ![h] = "fullchain"]
  /\ UNCHANGED <<scriptVars, tlsVars, identityVars, releaseVars, serviceVars, due, copied,
                 certbotVars>>

\* `ignoring unrelated lineage', or an app.env without a domain.
HookIgnores(h) ==
  /\ pc[h] = "lock" /\ certLock = None /\ env.name # due[h]
  /\ HookExits(h, TRUE)
  /\ UNCHANGED <<tlsVars, identityVars, releaseVars, serviceVars>>

ResolveCert(h) ==
  /\ pc[h] = "fullchain"
  /\ copied' = [copied EXCEPT ![h].cert = lineage[due[h]].cert]
  /\ pc' = [pc EXCEPT ![h] = "privkey"]
  /\ UNCHANGED <<scriptVars, certLock, tlsVars, identityVars, releaseVars, serviceVars, due,
                 certbotVars>>
ResolveKey(h) ==
  /\ pc[h] = "privkey"
  /\ copied' = [copied EXCEPT ![h].key = lineage[due[h]].key]
  /\ pc' = [pc EXCEPT ![h] = "install"]
  /\ UNCHANGED <<scriptVars, certLock, tlsVars, identityVars, releaseVars, serviceVars, due,
                 certbotVars>>

\* (mutant) the public keys are not compared.
PairCopiedUnchecked(h) == TRUE
PairCopied(h) == copied[h].cert = copied[h].key

InstallCert(h) ==
  /\ pc[h] = "install" /\ PairCopied(h)
  /\ cert' = Issued("acme", due[h], copied[h].cert)
  /\ pc' = [pc EXCEPT ![h] = "installkey"]
  /\ UNCHANGED <<scriptVars, certLock, key, identityVars, releaseVars, serviceVars, due, copied,
                 certbotVars>>
InstallKey(h) ==
  /\ pc[h] = "installkey"
  /\ key' = Issued("acme", due[h], copied[h].key)
  /\ pc' = [pc EXCEPT ![h] = "reload"]
  /\ UNCHANGED <<scriptVars, certLock, cert, identityVars, releaseVars, serviceVars, due, copied,
                 certbotVars>>

\* The services that are active are restarted.
HookReloads(h) ==
  /\ pc[h] = "reload"
  /\ \/ singbox' = (IF singbox = None THEN None ELSE Loaded) /\ HookExits(h, TRUE)
     \/ "restart" \in Faults /\ singbox # None /\ singbox' = None /\ HookExits(h, FALSE)
  /\ UNCHANGED <<tlsVars, identityVars, releaseVars, api>>

\* A pair that does not match; a certbot that finds another one running.
HookRefuses(h) ==
  /\ \/ pc[h] = "install" /\ ~PairCopied(h)
     \/ pc[h] = "certonly" /\ certbot # None
  /\ HookExits(h, FALSE)
  /\ UNCHANGED <<tlsVars, identityVars, releaseVars, serviceVars>>
\* A command that fails, an interrupt.
HookFails(h) ==
  /\ \/ h = "timer" /\ pc[h] \notin {"idle", "renewed"} /\ "hook" \in Faults
     \/ h = "child" /\ pc[h] # "idle" /\ "step" \in Faults
  /\ HookExits(h, FALSE)
  /\ UNCHANGED <<tlsVars, identityVars, releaseVars, serviceVars>>

------------------------------------------------------------------------------
(* The scripts, up to the archive.                                         *)

Go(l) == deploy' = l /\ UNCHANGED <<job, goal, scripts>>
\* The script exits; the kernel frees both locks.
Exit ==
  /\ deploy' = "none" /\ job' = None /\ goal' = None /\ archive' = None
  /\ certLock' = IF certLock = "script" THEN None ELSE certLock
  /\ UNCHANGED scripts

\* acquire_deploy_lock, and for reconfigure.sh the check of the services, which exits at once.
Start(j, g) ==
  /\ deploy = "none" /\ scripts < MaxScripts
  /\ j = "reconfigure" => api /\ singbox # None
  /\ j = "update" => g = env
  /\ deploy' = "lock" /\ job' = j /\ goal' = g /\ scripts' = scripts + 1
  /\ UNCHANGED <<archive, certLock, tlsVars, identityVars, releaseVars, serviceVars, hookVars,
                 certbotVars>>

\* (mutant) update.sh does not take the certificate lock.
LocksReconfigureOnly ==
  /\ deploy = "lock"
  /\ job = "reconfigure" => certLock = None
  /\ certLock' = IF job = "reconfigure" THEN "script" ELSE certLock
  /\ Go("stop")
  /\ challenge' = FALSE
  /\ UNCHANGED <<archive, tlsVars, env, site, hook, releaseVars, serviceVars, hookVars,
                 certbotVars>>
\* acquire_certificate_lock; update.sh checks the services only now, reconfigure.sh does not
\* check them again.
Locks ==
  /\ deploy = "lock" /\ certLock = None
  /\ IF job = "update" => api /\ singbox # None
     THEN certLock' = "script" /\ Go("stop") /\ UNCHANGED archive
     ELSE Exit
  /\ challenge' = IF job = "reconfigure" THEN FALSE ELSE challenge
  /\ UNCHANGED <<tlsVars, env, site, hook, releaseVars, serviceVars, hookVars, certbotVars>>

\* (mutant) the API goes on serving.
StopsDataPlaneOnly ==
  /\ deploy = "stop"
  /\ singbox' = IF job = "reconfigure" THEN None ELSE singbox
  /\ Go("archive")
  /\ UNCHANGED <<archive, certLock, tlsVars, identityVars, releaseVars, api, hookVars, certbotVars>>
\* update.sh stops the API only: sing-box goes on serving while the release is built.
Stops ==
  /\ deploy = "stop"
  /\ api' = FALSE
  /\ singbox' = IF job = "reconfigure" THEN None ELSE singbox
  /\ Go("archive")
  /\ UNCHANGED <<archive, certLock, tlsVars, identityVars, releaseVars, hookVars, certbotVars>>

\* backup-state.sh; from here on a failure is rolled back.
Archives ==
  /\ deploy = "archive"
  /\ archive' = [env |-> env, cert |-> cert, key |-> key, config |-> config, db |-> db,
                 site |-> site, code |-> code]
  /\ Go(IF job = "update" THEN "build" ELSE "env")
  /\ UNCHANGED <<certLock, tlsVars, identityVars, releaseVars, serviceVars, hookVars, certbotVars>>

------------------------------------------------------------------------------
(* update.sh.                                                              *)

\* git pull, the runtimes, the build.
Builds ==
  /\ deploy = "build"
  /\ code' = code + 1
  /\ Go("migrate")
  /\ UNCHANGED <<archive, certLock, tlsVars, identityVars, db, config, serviceVars, hookVars,
                 certbotVars>>
\* migrate, then prepare-config.
Migrates ==
  /\ deploy = "migrate" /\ Matches
  /\ db' = [db EXCEPT !.schema = code]
  /\ config' = Rendered(db', code)
  /\ Go("integrate")
  /\ UNCHANGED <<archive, certLock, tlsVars, identityVars, code, serviceVars, hookVars,
                 certbotVars>>
\* install_integrations.
Integrates ==
  /\ deploy = "integrate"
  /\ site' = env /\ hook' = ~env.selfSigned
  /\ Go("switch")
  /\ UNCHANGED <<archive, certLock, tlsVars, env, challenge, releaseVars, serviceVars, hookVars,
                 certbotVars>>

------------------------------------------------------------------------------
(* reconfigure.sh.                                                         *)

\* write_deployment_env, and the site that answers the challenge for a new name.
WritesEnv ==
  /\ deploy = "env"
  /\ env' = goal
  /\ challenge' = (~goal.selfSigned /\ goal.name # env.name)
  /\ Go(IF goal.selfSigned THEN "selfcert" ELSE "provision")
  /\ UNCHANGED <<archive, certLock, tlsVars, site, hook, releaseVars, serviceVars, hookVars,
                 certbotVars>>

\* (mutant) the certificate lock is kept while provision-tls.sh runs.
ProvisionsLocked ==
  /\ deploy = "provision"
  /\ hook' = TRUE
  /\ pc' = [pc EXCEPT !["child"] = "certonly"]
  /\ due' = [due EXCEPT !["child"] = goal.name]
  /\ Go("acme")
  /\ UNCHANGED <<archive, certLock, tlsVars, env, site, challenge, releaseVars, serviceVars,
                 copied, certbotVars>>
\* provision-tls.sh --mode acme, without the certificate lock.
Provisions ==
  /\ deploy = "provision"
  /\ hook' = TRUE
  /\ certLock' = None
  /\ pc' = [pc EXCEPT !["child"] = "certonly"]
  /\ due' = [due EXCEPT !["child"] = goal.name]
  /\ Go("acme")
  /\ UNCHANGED <<archive, tlsVars, env, site, challenge, releaseVars, serviceVars, copied,
                 certbotVars>>
Relocks ==
  /\ deploy = "relock" /\ certLock = None
  /\ certLock' = "script"
  /\ Go("configure")
  /\ UNCHANGED <<archive, tlsVars, identityVars, releaseVars, serviceVars, hookVars, certbotVars>>

\* provision-tls.sh --mode self-signed.
SelfSignsCert ==
  /\ deploy = "selfcert"
  /\ cert' = Issued("self", goal.name, scripts)
  /\ Go("selfkey")
  /\ UNCHANGED <<archive, certLock, key, identityVars, releaseVars, serviceVars, hookVars,
                 certbotVars>>
SelfSignsKey ==
  /\ deploy = "selfkey"
  /\ key' = Issued("self", goal.name, scripts)
  /\ Go("configure")
  /\ UNCHANGED <<archive, certLock, cert, identityVars, releaseVars, serviceVars, hookVars,
                 certbotVars>>

\* configure-deployment: the settings row and the checked configuration.
Configures ==
  /\ deploy = "configure" /\ Matches
  /\ db' = [db EXCEPT !.id = goal]
  /\ config' = Rendered(db', code)
  /\ Go("site")
  /\ UNCHANGED <<archive, certLock, tlsVars, identityVars, code, serviceVars, hookVars,
                 certbotVars>>
InstallsSite ==
  /\ deploy = "site"
  /\ site' = goal /\ challenge' = FALSE
  /\ hook' = (hook /\ ~goal.selfSigned)
  /\ Go("switch")
  /\ UNCHANGED <<archive, certLock, tlsVars, env, releaseVars, serviceVars, hookVars, certbotVars>>

------------------------------------------------------------------------------
(* The switch, and the ways back.                                          *)

\* systemctl restart of both units.  sing-box does not start on a pair that does not match.
RestartsServices ==
  /\ singbox' \in (IF Matches THEN {Loaded} ELSE {None})
                  \cup (IF "restart" \in Faults THEN {None} ELSE {})
  /\ api' \in {TRUE} \cup (IF "restart" \in Faults THEN {FALSE} ELSE {})

Switches ==
  /\ deploy = "switch"
  /\ RestartsServices
  /\ Go(IF api' /\ singbox' # None THEN "health" ELSE "undo")
  /\ UNCHANGED <<archive, certLock, tlsVars, identityVars, releaseVars, hookVars, certbotVars>>

\* health-check.sh: both units active, the files accepted by sing-box, the answer over HTTPS
\* with the certificate of this name.
Healthy == /\ api /\ singbox # None /\ Matches
           /\ site = env
           /\ env.selfSigned \/ (cert.by = "acme" /\ cert.name = env.name)
Completes ==
  /\ deploy = "health" /\ Healthy
  /\ Exit
  /\ challenge' = IF job = "reconfigure" THEN FALSE ELSE challenge
  /\ UNCHANGED <<tlsVars, env, site, hook, releaseVars, serviceVars, hookVars, certbotVars>>

Working == {"build", "migrate", "integrate", "env", "provision", "relock", "selfcert", "selfkey",
            "configure", "site", "switch", "health"}
\* The state does not pass a check of the script.
Refused ==
  \/ deploy \in {"migrate", "configure"} /\ ~Matches
  \/ deploy = "health" /\ ~Healthy
\* A command of the script fails, on its own or because of the state.
StepFails == "step" \in Faults \/ Refused

\* (mutant) the trap knows only the transaction.
AbandonsStopped ==
  /\ deploy \in {"lock", "stop", "archive"} /\ StepFails
  /\ Exit
  /\ UNCHANGED <<tlsVars, identityVars, releaseVars, serviceVars, hookVars, certbotVars>>
\* The EXIT trap before the transaction: the services that were stopped are restarted.
Abandons ==
  /\ deploy \in {"lock", "stop", "archive"} /\ StepFails
  /\ \/ deploy = "lock" /\ UNCHANGED serviceVars
     \/ deploy # "lock" /\ job = "reconfigure" /\ RestartsServices
     \/ /\ deploy # "lock" /\ job = "update" /\ UNCHANGED singbox
        /\ api' \in {TRUE} \cup (IF "restart" \in Faults THEN {FALSE} ELSE {})
  /\ Exit
  /\ UNCHANGED <<tlsVars, identityVars, releaseVars, hookVars, certbotVars>>

\* (mutant) transaction_started is set before the archive is written.
UndoesEarly ==
  /\ deploy \in Working \cup {"archive"} /\ StepFails
  /\ Go("undo")
  /\ UNCHANGED <<archive, certLock, tlsVars, identityVars, releaseVars, serviceVars, hookVars,
                 certbotVars>>
\* The EXIT trap inside the transaction.
Undoes ==
  /\ deploy \in Working /\ StepFails
  /\ Go("undo")
  /\ UNCHANGED <<archive, certLock, tlsVars, identityVars, releaseVars, serviceVars, hookVars,
                 certbotVars>>

\* (mutant) rollback_reconfigure does not take the certificate lock back.
StopsToUndoUnlocked ==
  /\ deploy = "undo"
  /\ api' = FALSE /\ singbox' = None
  /\ challenge' = FALSE
  /\ Go("restore")
  /\ UNCHANGED <<archive, certLock, tlsVars, env, site, hook, releaseVars, hookVars, certbotVars>>
\* lock_certificate_state, then the stop of both services.
StopsToUndo ==
  /\ deploy = "undo" /\ certLock \in {None, "script"}
  /\ certLock' = "script"
  /\ api' = FALSE /\ singbox' = None
  /\ challenge' = IF job = "reconfigure" THEN FALSE ELSE challenge
  /\ Go("restore")
  /\ UNCHANGED <<archive, tlsVars, env, site, hook, releaseVars, hookVars, certbotVars>>

\* (mutant) the database is left as configure-deployment or migrate wrote it.
RestoresFilesOnly ==
  /\ deploy = "restore"
  /\ env' = archive.env /\ cert' = archive.cert /\ key' = archive.key
  /\ config' = archive.config /\ code' = archive.code
  /\ site' = archive.site
  /\ hook' = ~env'.selfSigned
  /\ Go("back")
  /\ UNCHANGED <<archive, certLock, db, challenge, serviceVars, hookVars, certbotVars>>
\* A rollback runs with set +e: it goes on after a command that fails.
Undone == IF "rollback" \in Faults THEN BOOLEAN ELSE {TRUE}
\* git reset, restore_state (the directory config, the database), the nginx site and the hook
\* of the identity of before.
Restores ==
  /\ deploy = "restore"
  /\ \E reset, files, data, sites, hooks \in Undone :
       /\ code' = IF reset THEN archive.code ELSE code
       /\ env' = IF files THEN archive.env ELSE env
       /\ cert' = IF files THEN archive.cert ELSE cert
       /\ key' = IF files THEN archive.key ELSE key
       /\ config' = IF files THEN archive.config ELSE config
       /\ db' = IF data THEN archive.db ELSE db
       /\ site' = IF sites THEN archive.site ELSE site
       /\ hook' = IF hooks THEN ~archive.env.selfSigned ELSE hook
  /\ Go("back")
  /\ UNCHANGED <<archive, certLock, challenge, serviceVars, hookVars, certbotVars>>
\* The traps are gone: an interrupt, or `die' in assert_safe_tar_gz, ends the script where it
\* stands.
RollbackDies ==
  /\ deploy \in {"undo", "restore", "back"} /\ "rollback" \in Faults
  /\ Exit
  /\ UNCHANGED <<tlsVars, identityVars, releaseVars, serviceVars, hookVars, certbotVars>>
\* The services again; a failed health check is only reported.
GoesBack ==
  /\ deploy = "back"
  /\ RestartsServices
  /\ Exit
  /\ UNCHANGED <<tlsVars, identityVars, releaseVars, hookVars, certbotVars>>

------------------------------------------------------------------------------
ScriptStep ==
  \/ Locks \/ Stops \/ Archives
  \/ Builds \/ Migrates \/ Integrates
  \/ WritesEnv \/ Provisions \/ Relocks \/ SelfSignsCert \/ SelfSignsKey \/ Configures
  \/ InstallsSite \/ Switches \/ Completes
  \/ Refused /\ Undoes
  \/ StopsToUndo \/ Restores \/ GoesBack
ScriptFails == Abandons \/ Undoes \/ RollbackDies
HookStep(h) ==
  \/ HookLocks(h) \/ HookIgnores(h) \/ ResolveCert(h) \/ ResolveKey(h)
  \/ InstallCert(h) \/ InstallKey(h) \/ HookReloads(h) \/ HookRefuses(h)

\* Nothing to do: no script and no hook is running.
Quiet == /\ deploy = "none" /\ \A h \in Hook : pc[h] = "idle"
         /\ UNCHANGED vars

Next ==
  \/ PanelWrites
  \/ \E n \in Name : RenewCert(n)
  \/ RenewKey \/ Certonly
  \/ \E h \in Hook : HookStep(h) \/ HookFails(h)
  \/ \E j \in Jobs, g \in Identity : Start(j, g)
  \/ ScriptStep \/ ScriptFails
  \/ Quiet

\* Processes are scheduled; nobody has to start a script, a renewal or a change, and nothing
\* has to fail.
Fairness == /\ WF_vars(ScriptStep) /\ WF_vars(RenewKey) /\ WF_vars(Certonly)
            /\ \A h \in Hook : WF_vars(HookStep(h))

Spec == Init /\ [][Next]_vars
FairSpec == Spec /\ Fairness

------------------------------------------------------------------------------
(* Properties.                                                             *)

Undoing == {"undo", "restore", "back"}
HooksIdle == \A h \in Hook : pc[h] = "idle"

HookLabel == {"idle", "renewed", "certonly", "lock", "fullchain", "privkey", "install",
              "installkey", "reload"}

\* Every variable has its type, and there is an archive exactly while the trap would roll
\* back (transaction_started).
TypeOK ==
  /\ deploy \in {"none", "lock", "stop", "archive", "acme"} \cup Working \cup Undoing
  /\ job \in {"update", "reconfigure", None} /\ goal \in Identity \cup {None}
  /\ certLock \in {None, "script"} \cup Hook
  /\ env \in Identity /\ site \in Identity /\ challenge \in BOOLEAN /\ hook \in BOOLEAN
  /\ cert \in Pair /\ key \in Pair
  /\ code \in Nat /\ db \in Database /\ config \in Rendering
  /\ archive \in Archive \cup {None}
  /\ archive # None <=> deploy \in Working \cup Undoing \cup {"acme"}
  /\ api \in BOOLEAN
  /\ singbox \in Loading \cup {None}
  /\ lineage \in [Name -> [cert : Nat, key : Nat]] /\ certbot \in Hook \cup {None}
  /\ pc \in [Hook -> HookLabel] /\ due \in [Hook -> Name \cup {None}]
  /\ copied \in [Hook -> [cert : Nat, key : Nat]]
  /\ scripts \in Nat

\* config/tls holds a certificate with its own key whenever no hook is installing one and no
\* self-signed pair is being written or a failed script being undone: whatever runs next can
\* load it.
PairsMatch ==
  certLock \notin Hook /\ deploy \notin {"selfkey", "undo", "restore"} => Matches

\* With no script in progress app.env, database, configuration, nginx site and renewal hook
\* speak of one identity, and code, schema and configuration of one release, whether the
\* last script succeeded, failed at any of its steps, or was interrupted (README.md:263).
Settled ==
  deploy = "none" =>
    /\ site = env /\ db.id = env /\ hook = ~env.selfSigned /\ ~challenge
    /\ db.schema = code /\ config = Rendered(db, code)

\* With no script in progress the installed certificate is of the mode and the name that the
\* script left (README.md:244).
TlsFollowsIdentity ==
  deploy = "none" /\ HooksIdle =>
    cert.name = env.name /\ (cert.by = "self" <=> env.selfSigned)

\* A script that ends, in whatever way, leaves both services running, sing-box on the files
\* that are installed (on_update_exit, on_reconfigure_exit).
ServicesReturn ==
  deploy = "none" => api /\ (IF HooksIdle THEN singbox = Loaded ELSE singbox # None)

\* While update.sh works and while it rolls back, the certificate stays the one the last
\* renewal has installed: no renewal is overwritten from the archive.
UpdateKeepsTls ==
  [][job = "update" /\ deploy # "lock" => UNCHANGED tlsVars]_vars

\* The two locks, the blocking one given away and taken back around certbot, never leave a
\* script waiting: every script ends.
ScriptsEnd == deploy # "none" ~> deploy = "none"

\* A renewal that waits for a script is never forgotten: its hook ends too.
RenewalsEnd == pc["timer"] # "idle" ~> pc["timer"] = "idle"

------------------------------------------------------------------------------
(* An installation changes as a whole or not at all.  While a script can   *)
(* still be rolled back the archive counts; of the rows, from the moment   *)
(* the script restarts the panel.                                          *)

Atomic == INSTANCE AtomicDeployment WITH
            identity <- IF archive = None THEN db.id ELSE archive.db.id,
            release <- IF archive = None THEN code ELSE archive.code,
            rows <- IF deploy \in {"health", "undo", "restore"} THEN archive.db.rows ELSE db.rows

\* Whatever fails, a script is one atomic change of the installation or none, and no row
\* written before it stopped the panel is lost.
DeploysAtomically == Atomic!Spec
==============================================================================
