------------------------- MODULE DeploymentStateProofs -------------------------
(***************************************************************************)
(* What the two scripts leave behind, on every installation: any names     *)
(* and identities, any number of scripts, renewals and rows.  Five         *)
(* invariants, each of which says at every step of a script what the       *)
(* property says of its end, and the refinement of AtomicDeployment.       *)
(***************************************************************************)
EXTENDS DeploymentProofs

------------------------------------------------------------------------------
(* Types.                                                                  *)

UpdateOwn == {"build", "migrate", "integrate"}
ReconfigureOwn == {"env", "provision", "acme", "relock", "selfcert", "selfkey", "configure",
                   "site"}
InTransaction == Working \cup Undoing \cup {"acme"}

\* A script in progress has a job, an identity, and only the steps of that job.
ScriptTypes ==
  /\ deploy \in {"none", "lock", "stop", "archive", "acme"} \cup Working \cup Undoing
  /\ job \in {"update", "reconfigure", None} /\ goal \in Identity \cup {None}
  /\ deploy # "none" => job \in {"update", "reconfigure"} /\ goal \in Identity
  /\ deploy \in UpdateOwn => job = "update"
  /\ deploy \in ReconfigureOwn => job = "reconfigure"
  /\ archive # None <=> deploy \in InTransaction
  /\ scripts \in Nat
IdentityTypes == env \in Identity /\ site \in Identity
TlsTypes == cert \in Pair /\ key \in Pair
ReleaseTypes == code \in Nat /\ db \in Database /\ config \in Rendering
ArchiveTypes == archive \in Archive \cup {None}
SwitchTypes == challenge \in BOOLEAN /\ hook \in BOOLEAN /\ api \in BOOLEAN
LoadedTypes == singbox \in Loading \cup {None}
\* A hook or a certbot that runs was started for a lineage.
HookTypes ==
  /\ certLock \in {None, "script"} \cup Hook /\ certbot \in Hook \cup {None}
  /\ pc \in [Hook -> HookLabel] /\ due \in [Hook -> Name \cup {None}]
  /\ \A h \in Hook : pc[h] # "idle" => due[h] \in Name
  /\ pc["timer"] # "certonly"
CountTypes ==
  /\ lineage \in [Name -> [cert : Nat, key : Nat]]
  /\ copied \in [Hook -> [cert : Nat, key : Nat]]

TypeInv ==
  /\ ScriptTypes /\ IdentityTypes /\ TlsTypes /\ ReleaseTypes /\ ArchiveTypes /\ SwitchTypes
  /\ LoadedTypes /\ HookTypes /\ CountTypes

------------------------------------------------------------------------------
(* One identity and one release.                                           *)

Calm == {"none", "lock", "stop", "archive"}
IdentityAgrees == site = env /\ db.id = env /\ hook = ~env.selfSigned
ReleaseAgrees == db.schema = code /\ config = Rendered(db, code)

\* Which of the agreements of Settled hold at which step, and those of the archive.
SettledInv ==
  /\ deploy \in Calm \cup UpdateOwn \cup {"switch", "health", "back"} => IdentityAgrees
  /\ deploy \in (InTransaction \ {"migrate", "undo", "restore"}) \cup Calm => ReleaseAgrees
  /\ deploy \in ReconfigureOwn \ {"env"} => env = goal
  /\ deploy \in {"provision", "acme", "relock"} => ~goal.selfSigned
  /\ deploy \in {"selfcert", "selfkey"} => goal.selfSigned
  /\ deploy \in {"acme", "relock"} => hook
  /\ deploy \in {"configure", "site"} => goal.selfSigned \/ hook
  /\ deploy = "site" => db.id = goal
  /\ challenge => /\ job = "reconfigure"
                  /\ deploy \in {"provision", "acme", "relock", "configure", "site", "undo"}
ArchiveAgrees ==
  archive # None =>
    /\ archive.site = archive.env /\ archive.db.id = archive.env
    /\ archive.db.schema = archive.code
    /\ archive.config = Rendered(archive.db, archive.code)

------------------------------------------------------------------------------
(* The certificate is the identity's.                                      *)

OneModePerName == \A i, j \in Identity : i.name = j.name => i = j

AcmeName(n) == \A i \in Identity : i.name = n => ~i.selfSigned
TlsSettled(c, e) == c.name = e.name /\ (c.by = "self" <=> e.selfSigned)

\* Only the names of the ACME mode ever have a lineage.
LineageInv ==
  /\ \A n \in Name : lineage[n].cert # 0 => AcmeName(n)
  /\ \A h \in Hook : pc[h] # "idle" => AcmeName(due[h])
  /\ \A h \in Hook : certLock = h => env.name = due[h]
TlsInv ==
  /\ deploy \in Calm \cup UpdateOwn \cup {"env", "selfkey", "back"} => TlsSettled(cert, env)
  /\ deploy \in {"configure", "site", "switch", "health"} =>
       TlsSettled(cert, env) \/ ~env.selfSigned
  /\ archive # None => TlsSettled(archive.cert, archive.env)

------------------------------------------------------------------------------
(* The services.                                                           *)

\* sing-box serves the installed files, or a hook that is installing some restarts it next.
Fresh == singbox = Loaded \/ \E h \in Hook : pc[h] \in {"installkey", "reload"}
Serving == {"none", "lock", "stop", "health"}
ServiceInv ==
  /\ deploy \in Serving => api
  /\ deploy \in Serving \/ (deploy = "archive" /\ job = "update") => singbox # None /\ Fresh

------------------------------------------------------------------------------
(* The archive of an atomic change.                                        *)

Silent == (InTransaction \ {"health", "undo"}) \cup {"archive"}
PanelStopped == deploy \in Silent => ~api
RowsKept ==
  archive # None =>
    /\ archive.db.rows <= db.rows
    /\ deploy \notin {"health", "undo", "restore"} => archive.db.rows = db.rows
OneChange ==
  /\ deploy \in Working \cup {"acme"} =>
       /\ job = "reconfigure" \/ deploy = "build" => code = archive.code
       /\ job = "update" => db.id = archive.db.id
       /\ job = "update" /\ deploy # "build" => code = archive.code + 1
  /\ deploy = "back" => db = archive.db /\ code = archive.code
RefInv == PanelStopped /\ RowsKept /\ OneChange

------------------------------------------------------------------------------
(* Who writes what.                                                        *)

USE NoneAssumption DEF Hook
USE DEF scriptVars, tlsVars, identityVars, releaseVars, serviceVars, hookVars, certbotVars

\* certbot around a hook touches its lineages and the hooks only.
CertbotStep == (\E n \in Name : RenewCert(n)) \/ RenewKey \/ Certonly
LEMMA CertbotFrame ==
  ASSUME CertbotStep
  PROVE  UNCHANGED <<scriptVars, certLock, tlsVars, identityVars, releaseVars, serviceVars,
                     copied>>
  BY DEF CertbotStep, RenewCert, RenewKey, Certonly

LEMMA ExitFrame ==
  ASSUME LockInv, NEW h \in Hook, NEW ok, HookExits(h, ok), pc[h] # "idle"
  PROVE  /\ UNCHANGED <<job, goal, archive, scripts>>
         /\ deploy' = deploy \/ (deploy = "acme" /\ deploy' \in {"relock", "undo"})
  BY DEF HookExits, LockInv, ChildRuns

HookWorks == \E h \in Hook : HookStep(h) \/ HookFails(h)
\* A hook leaves identity and release alone; the child's end moves the script on.
LEMMA HookFrame ==
  ASSUME LockInv, HookWorks
  PROVE  /\ UNCHANGED <<job, goal, archive, scripts, identityVars, releaseVars, api>>
         /\ deploy' = deploy \/ (deploy = "acme" /\ deploy' \in {"relock", "undo"})
<1> PICK h \in Hook : HookStep(h) \/ HookFails(h)
  BY DEF HookWorks
<1>2. CASE HookIgnores(h) BY <1>2, ExitFrame DEF HookIgnores
<1>3. CASE HookReloads(h) BY <1>3, ExitFrame DEF HookReloads
<1>4. CASE HookRefuses(h) BY <1>4, ExitFrame DEF HookRefuses
<1>5. CASE HookFails(h) BY <1>5, ExitFrame DEF HookFails
<1>6. CASE HookLocks(h) \/ ResolveCert(h) \/ ResolveKey(h) \/ InstallCert(h) \/ InstallKey(h)
  BY <1>6 DEF HookLocks, ResolveCert, ResolveKey, InstallCert, InstallKey
<1> QED BY <1>2, <1>3, <1>4, <1>5, <1>6 DEF HookStep

Started == \E j \in Jobs, g \in Identity : Start(j, g)

\* Every step is one of these.
LEMMA NextCases ==
  ASSUME [Next]_vars
  PROVE  \/ PanelWrites \/ CertbotStep \/ HookWorks \/ Started \/ ScriptStep \/ ScriptFails
         \/ UNCHANGED vars
  BY DEF Next, Quiet, CertbotStep, HookWorks, Started

LEMMA ReleaseFrame ==
  ASSUME LockInv, [Next]_vars
  PROVE  PanelWrites \/ Builds \/ Migrates \/ Configures \/ Restores \/ UNCHANGED releaseVars
<1>1. CASE CertbotStep BY <1>1, CertbotFrame
<1>2. CASE HookWorks BY <1>2, HookFrame
<1>3. CASE Started BY <1>3 DEF Started, Start
<1>4. CASE ScriptStep \/ ScriptFails
  BY <1>4 DEF ScriptStep, ScriptFails, Locks, Stops, Archives, Integrates, WritesEnv, Provisions,
     Relocks, SelfSignsCert, SelfSignsKey, InstallsSite, Switches, Completes, StopsToUndo,
     GoesBack, Abandons, Undoes, RollbackDies
<1> QED BY <1>1, <1>2, <1>3, <1>4, NextCases DEF vars

LEMMA IdentityFrame ==
  ASSUME LockInv, [Next]_vars
  PROVE  \/ Integrates \/ WritesEnv \/ Provisions \/ InstallsSite \/ Restores
         \/ UNCHANGED <<env, site, hook>> /\ (challenge' = challenge \/ challenge' = FALSE)
<1>1. CASE CertbotStep BY <1>1, CertbotFrame
<1>2. CASE HookWorks BY <1>2, HookFrame
<1>3. CASE Started BY <1>3 DEF Started, Start
<1>4. CASE ScriptStep \/ ScriptFails
  BY <1>4 DEF ScriptStep, ScriptFails, Locks, Stops, Archives, Builds, Migrates,
     Relocks, SelfSignsCert, SelfSignsKey, Configures, Switches, Completes, StopsToUndo,
     GoesBack, Abandons, Undoes, RollbackDies
<1> QED BY <1>1, <1>2, <1>3, <1>4, NextCases DEF vars, PanelWrites

LEMMA TlsFrame ==
  ASSUME [Next]_vars
  PROVE  \/ \E h \in Hook : InstallCert(h) \/ InstallKey(h)
         \/ SelfSignsCert \/ SelfSignsKey \/ Restores \/ UNCHANGED tlsVars
<1>1. CASE CertbotStep BY <1>1, CertbotFrame
<1>2. CASE HookWorks
  BY <1>2 DEF HookWorks, HookStep, HookLocks, HookIgnores, ResolveCert, ResolveKey, HookReloads,
     HookRefuses, HookFails
<1>3. CASE Started BY <1>3 DEF Started, Start
<1>4. CASE ScriptStep \/ ScriptFails
  BY <1>4 DEF ScriptStep, ScriptFails, Locks, Stops, Archives, Builds, Migrates, Integrates,
     WritesEnv, Provisions, Relocks, Configures, InstallsSite, Switches, Completes,
     StopsToUndo, GoesBack, Abandons, Undoes, RollbackDies
<1> QED BY <1>1, <1>2, <1>3, <1>4, NextCases DEF vars, PanelWrites

LEMMA ServiceFrame ==
  ASSUME [Next]_vars
  PROVE  \/ PanelWrites \/ \E h \in Hook : HookReloads(h)
         \/ Stops \/ Switches \/ Abandons \/ StopsToUndo \/ GoesBack \/ UNCHANGED serviceVars
<1>1. CASE CertbotStep BY <1>1, CertbotFrame
<1>2. CASE HookWorks
  BY <1>2 DEF HookWorks, HookStep, HookLocks, HookIgnores, ResolveCert, ResolveKey, InstallCert,
     InstallKey, HookRefuses, HookFails
<1>3. CASE Started BY <1>3 DEF Started, Start
<1>4. CASE ScriptStep \/ ScriptFails
  BY <1>4 DEF ScriptStep, ScriptFails, Locks, Archives, Builds, Migrates, Integrates,
     WritesEnv, Provisions, Relocks, SelfSignsCert, SelfSignsKey, Configures, InstallsSite,
     Completes, Restores, Undoes, RollbackDies
<1> QED BY <1>1, <1>2, <1>3, <1>4, NextCases DEF vars

\* Only backup-state.sh fills the archive, and it is gone with the script.
LEMMA ArchiveFrame ==
  ASSUME LockInv, [Next]_vars
  PROVE  Archives \/ archive' = None \/ archive' = archive
<1>1. CASE CertbotStep BY <1>1, CertbotFrame
<1>2. CASE HookWorks BY <1>2, HookFrame
<1>3. CASE Started BY <1>3 DEF Started, Start
<1>4. CASE ScriptStep \/ ScriptFails
  BY <1>4 DEF ScriptStep, ScriptFails, Locks, Stops, Builds, Migrates, Integrates,
     WritesEnv, Provisions, Relocks, SelfSignsCert, SelfSignsKey, Configures, InstallsSite,
     Switches, Completes, StopsToUndo, Restores, GoesBack, Abandons, Undoes, RollbackDies, Exit
<1> QED BY <1>1, <1>2, <1>3, <1>4, NextCases DEF vars, PanelWrites

------------------------------------------------------------------------------
(* Types.                                                                  *)

LEMMA RenderedType ==
  ASSUME NEW d \in Database, NEW r \in Nat PROVE Rendered(d, r) \in Rendering
  BY DEF Rendered, Rendering, Database

LEMMA IssuedType ==
  ASSUME NEW b \in {"self", "acme"}, NEW n \in Name, NEW g \in Nat PROVE Issued(b, n, g) \in Pair
  BY DEF Issued, Pair

LEMMA IdentityFields ==
  ASSUME NEW i \in Identity PROVE i.name \in Name /\ i.selfSigned \in BOOLEAN
  BY IdentityAssumption

LEMMA ArchiveFields ==
  ASSUME NEW a \in Archive
  PROVE  /\ a.env \in Identity /\ a.site \in Identity /\ a.cert \in Pair /\ a.key \in Pair
         /\ a.config \in Rendering /\ a.db \in Database /\ a.code \in Nat
  BY DEF Archive

LEMMA TypeInit == Init => TypeInv
<1> SUFFICES ASSUME Init PROVE TypeInv OBVIOUS
<1>1. ScriptTypes /\ IdentityTypes /\ ArchiveTypes
  BY DEF Init, ScriptTypes, IdentityTypes, ArchiveTypes, UpdateOwn, ReconfigureOwn,
         InTransaction, Working, Undoing
<1>2. SwitchTypes
  BY IdentityFields DEF Init, SwitchTypes
<1>3. TlsTypes
  BY IssuedType, IdentityFields DEF Init, TlsTypes
<1>4. db \in Database /\ code \in Nat
  BY DEF Init, Database
<1>5. ReleaseTypes
  BY <1>4, RenderedType DEF Init, ReleaseTypes
<1>6. LoadedTypes
  BY <1>3, <1>5 DEF Init, LoadedTypes, Loading, Loaded, TlsTypes, ReleaseTypes
<1>7. HookTypes
  BY DEF Init, HookTypes, HookLabel
<1>8. CountTypes
  BY DEF Init, CountTypes
<1> QED BY <1>1, <1>2, <1>3, <1>5, <1>6, <1>7, <1>8 DEF TypeInv

LEMMA ArchivedType ==
  ASSUME IdentityTypes, TlsTypes, ReleaseTypes, Archives PROVE archive' \in Archive
  BY DEF Archives, IdentityTypes, TlsTypes, ReleaseTypes, Archive

LEMMA ScriptTypesStep ==
  ASSUME LockInv, ScriptTypes, IdentityTypes, TlsTypes, ReleaseTypes, [Next]_vars
  PROVE  ScriptTypes'
<1> USE DEF ScriptTypes, UpdateOwn, ReconfigureOwn, InTransaction, Working, Undoing
<1>1. CASE PanelWrites BY <1>1 DEF PanelWrites
<1>2. CASE CertbotStep BY <1>2, CertbotFrame
<1>3. CASE HookWorks BY <1>3, HookFrame
<1>4. CASE Started BY <1>4, JobAssumption DEF Started, Start
<1>5. CASE ScriptStep
  <2>1. CASE Locks BY <2>1 DEF Locks, Go, Exit
  <2>2. CASE Stops BY <2>2 DEF Stops, Go
  <2>3. CASE Archives
    <3>1. archive' # None BY <2>3, ArchivedType, RecordAssumption
    <3> QED BY <2>3, <3>1 DEF Archives, Go
  <2>4. CASE Builds \/ Migrates \/ Integrates
    BY <2>4 DEF Builds, Migrates, Integrates, Go
  <2>5. CASE WritesEnv BY <2>5 DEF WritesEnv, Go
  <2>6. CASE Provisions BY <2>6 DEF Provisions, Go
  <2>7. CASE Relocks \/ SelfSignsCert \/ SelfSignsKey
    BY <2>7 DEF Relocks, SelfSignsCert, SelfSignsKey, Go
  <2>8. CASE Configures \/ InstallsSite
    BY <2>8 DEF Configures, InstallsSite, Go
  <2>9. CASE Switches BY <2>9 DEF Switches, Go
  <2>10. CASE Completes BY <2>10 DEF Completes, Exit
  <2>11. CASE Undoes BY <2>11 DEF Undoes, Go
  <2>12. CASE StopsToUndo BY <2>12 DEF StopsToUndo, Go
  <2>13. CASE Restores BY <2>13 DEF Restores, Go
  <2>14. CASE GoesBack BY <2>14 DEF GoesBack, Exit
  <2> QED BY <1>5, <2>1, <2>2, <2>3, <2>4, <2>5, <2>6, <2>7, <2>8, <2>9, <2>10, <2>11, <2>12,
             <2>13, <2>14 DEF ScriptStep
<1>6. CASE ScriptFails
  <2>1. CASE Abandons BY <2>1 DEF Abandons, Exit
  <2>2. CASE Undoes BY <2>2 DEF Undoes, Go
  <2>3. CASE RollbackDies BY <2>3 DEF RollbackDies, Exit
  <2> QED BY <1>6, <2>1, <2>2, <2>3 DEF ScriptFails
<1> QED BY <1>1, <1>2, <1>3, <1>4, <1>5, <1>6, NextCases DEF vars

\* A rollback puts back what it does not leave as it is.
LEMMA RestoredFields ==
  ASSUME ScriptTypes, ArchiveTypes, Restores
  PROVE  /\ archive \in Archive /\ env' \in {archive.env, env} /\ site' \in {archive.site, site}
         /\ hook' \in {~archive.env.selfSigned, hook}
         /\ cert' \in {archive.cert, cert} /\ key' \in {archive.key, key}
         /\ config' \in {archive.config, config} /\ db' \in {archive.db, db}
         /\ code' \in {archive.code, code} /\ UNCHANGED challenge
<1>1. archive \in Archive
  BY DEF ScriptTypes, ArchiveTypes, InTransaction, Undoing, Restores
<1> QED BY <1>1 DEF Restores

\* One whose commands do not fail puts all of it back.
LEMMA BroughtBack ==
  ASSUME ScriptTypes, ArchiveTypes, Restores, "rollback" \notin Faults
  PROVE  /\ archive \in Archive /\ env' = archive.env /\ site' = archive.site
         /\ hook' = ~archive.env.selfSigned /\ cert' = archive.cert /\ key' = archive.key
         /\ config' = archive.config /\ db' = archive.db /\ code' = archive.code
  BY RestoredFields DEF Restores, Undone

LEMMA IdentityTypesStep ==
  ASSUME LockInv, ScriptTypes, ArchiveTypes, IdentityTypes, [Next]_vars PROVE IdentityTypes'
<1>1. CASE WritesEnv \/ InstallsSite
  BY <1>1 DEF WritesEnv, InstallsSite, ScriptTypes, IdentityTypes
<1>2. CASE Restores BY <1>2, RestoredFields, ArchiveFields DEF IdentityTypes
<1>3. CASE Integrates \/ Provisions
  BY <1>3 DEF Integrates, Provisions, IdentityTypes
<1> QED BY <1>1, <1>2, <1>3, IdentityFrame DEF IdentityTypes

LEMMA ReleaseTypesStep ==
  ASSUME LockInv, ScriptTypes, ArchiveTypes, ReleaseTypes, [Next]_vars PROVE ReleaseTypes'
<1>1. CASE PanelWrites
  <2>1. db' \in Database /\ code' = code
    BY <1>1 DEF PanelWrites, ReleaseTypes, Database
  <2> QED BY <1>1, <2>1, RenderedType DEF PanelWrites, ReleaseTypes
<1>2. CASE Builds BY <1>2 DEF Builds, ReleaseTypes
<1>3. CASE Migrates
  <2>1. db' \in Database /\ code' = code
    BY <1>3 DEF Migrates, ReleaseTypes, Database
  <2> QED BY <1>3, <2>1, RenderedType DEF Migrates, ReleaseTypes
<1>4. CASE Configures
  <2>1. db' \in Database /\ code' = code
    BY <1>4 DEF Configures, ReleaseTypes, Database, ScriptTypes
  <2> QED BY <1>4, <2>1, RenderedType DEF Configures, ReleaseTypes
<1>5. CASE Restores BY <1>5, RestoredFields, ArchiveFields DEF ReleaseTypes
<1> QED BY <1>1, <1>2, <1>3, <1>4, <1>5, ReleaseFrame DEF ReleaseTypes

LEMMA TlsTypesStep ==
  ASSUME ScriptTypes, ArchiveTypes, HookTypes, CountTypes, TlsTypes, [Next]_vars
  PROVE  TlsTypes'
<1>1. ASSUME NEW h \in Hook, InstallCert(h) \/ InstallKey(h) PROVE TlsTypes'
  <2>1. due[h] \in Name
    BY <1>1 DEF InstallCert, InstallKey, HookTypes
  <2>2. copied[h].cert \in Nat /\ copied[h].key \in Nat
    BY DEF CountTypes
  <2> QED BY <1>1, <2>1, <2>2, IssuedType DEF InstallCert, InstallKey, TlsTypes
<1>2. CASE SelfSignsCert \/ SelfSignsKey
  <2>1. goal.name \in Name /\ scripts \in Nat
    BY <1>2, IdentityFields DEF SelfSignsCert, SelfSignsKey, ScriptTypes
  <2> QED BY <1>2, <2>1, IssuedType DEF SelfSignsCert, SelfSignsKey, TlsTypes
<1>3. CASE Restores BY <1>3, RestoredFields, ArchiveFields DEF TlsTypes
<1> QED BY <1>1, <1>2, <1>3, TlsFrame DEF TlsTypes

LEMMA ArchiveTypesStep ==
  ASSUME LockInv, IdentityTypes, TlsTypes, ReleaseTypes, ArchiveTypes, [Next]_vars
  PROVE  ArchiveTypes'
<1>1. CASE Archives BY <1>1, ArchivedType DEF ArchiveTypes
<1> QED BY <1>1, ArchiveFrame DEF ArchiveTypes

LEMMA LoadedTypesStep ==
  ASSUME TlsTypes, ReleaseTypes, ReleaseTypes', LoadedTypes, [Next]_vars PROVE LoadedTypes'
<1> USE DEF LoadedTypes, TlsTypes, ReleaseTypes
<1>0. Loaded \in Loading BY DEF Loaded, Loading
<1>1. CASE PanelWrites BY <1>1 DEF PanelWrites, Loading
<1>2. ASSUME NEW h \in Hook, HookReloads(h) PROVE LoadedTypes'
  BY <1>0, <1>2 DEF HookReloads
<1>3. CASE Stops \/ StopsToUndo BY <1>3 DEF Stops, StopsToUndo
<1>4. RestartsServices => LoadedTypes' BY <1>0 DEF RestartsServices
<1>5. CASE Switches \/ GoesBack BY <1>4, <1>5 DEF Switches, GoesBack
<1>6. CASE Abandons BY <1>4, <1>6 DEF Abandons
<1> QED BY <1>1, <1>2, <1>3, <1>5, <1>6, ServiceFrame

LEMMA SwitchTypesStep ==
  ASSUME LockInv, SwitchTypes, IdentityTypes', [Next]_vars PROVE SwitchTypes'
<1>1. challenge' \in BOOLEAN /\ hook' \in BOOLEAN
  <2>1. CASE Integrates BY <2>1 DEF Integrates, SwitchTypes
  <2>2. CASE WritesEnv BY <2>2 DEF WritesEnv, SwitchTypes
  <2>3. CASE Provisions BY <2>3 DEF Provisions, SwitchTypes
  <2>4. CASE InstallsSite BY <2>4 DEF InstallsSite, SwitchTypes
  <2>5. CASE Restores BY <2>5 DEF Restores, SwitchTypes
  <2> QED BY <2>1, <2>2, <2>3, <2>4, <2>5, IdentityFrame DEF SwitchTypes
<1>2. api' \in BOOLEAN
  <2>1. CASE PanelWrites BY <2>1 DEF PanelWrites, SwitchTypes
  <2>2. ASSUME NEW h \in Hook, HookReloads(h) PROVE api' \in BOOLEAN
    BY <2>2 DEF HookReloads, SwitchTypes
  <2>3. CASE Stops \/ StopsToUndo BY <2>3 DEF Stops, StopsToUndo
  <2>4. CASE Switches \/ GoesBack \/ Abandons
    BY <2>4 DEF Switches, GoesBack, Abandons, RestartsServices, SwitchTypes
  <2> QED BY <2>1, <2>2, <2>3, <2>4, ServiceFrame DEF SwitchTypes
<1> QED BY <1>1, <1>2 DEF SwitchTypes

LEMMA LockTypesStep ==
  ASSUME HookTypes, [Next]_vars
  PROVE  certLock' \in {None, "script"} \cup Hook /\ certbot' \in Hook \cup {None}
<1> USE DEF HookTypes
<1>1. CASE PanelWrites BY <1>1 DEF PanelWrites
<1>2. CASE CertbotStep BY <1>2 DEF CertbotStep, RenewCert, RenewKey, Certonly
<1>3. CASE HookWorks
  BY <1>3 DEF HookWorks, HookStep, HookLocks, HookIgnores, ResolveCert, ResolveKey, InstallCert,
     InstallKey, HookReloads, HookRefuses, HookFails, HookExits
<1>4. CASE Started BY <1>4 DEF Started, Start
<1>5. CASE ScriptStep \/ ScriptFails
  BY <1>5 DEF ScriptStep, ScriptFails, Locks, Stops, Archives, Builds, Migrates, Integrates,
     WritesEnv, Provisions, Relocks, SelfSignsCert, SelfSignsKey, Configures, InstallsSite,
     Switches, Completes, StopsToUndo, Restores, GoesBack, Abandons, Undoes, RollbackDies, Exit
<1> QED BY <1>1, <1>2, <1>3, <1>4, <1>5, NextCases DEF vars

LEMMA ScriptHookFrame ==
  ASSUME ScriptStep \/ ScriptFails, ~Provisions PROVE UNCHANGED <<hookVars, certbotVars>>
  BY DEF ScriptStep, ScriptFails, Locks, Stops, Archives, Builds, Migrates, Integrates,
     WritesEnv, Relocks, SelfSignsCert, SelfSignsKey, Configures, InstallsSite, Switches,
     Completes, StopsToUndo, Restores, GoesBack, Abandons, Undoes, RollbackDies

LEMMA ExitTypes ==
  ASSUME HookTypes, CountTypes, NEW h \in Hook, NEW ok, HookExits(h, ok)
  PROVE  /\ pc' \in [Hook -> HookLabel] /\ due' \in [Hook -> Name \cup {None}]
         /\ \A g \in Hook : pc'[g] # "idle" => due'[g] \in Name
         /\ pc'["timer"] # "certonly"
         /\ CountTypes'
  BY DEF HookTypes, CountTypes, HookLabel, HookExits

LEMMA HookTypesStep ==
  ASSUME ScriptTypes, HookTypes, CountTypes, [Next]_vars
  PROVE  HookTypes' /\ CountTypes'
<1> DEFINE Runs == /\ pc' \in [Hook -> HookLabel] /\ due' \in [Hook -> Name \cup {None}]
                   /\ \A g \in Hook : pc'[g] # "idle" => due'[g] \in Name
                   /\ pc'["timer"] # "certonly"
<1> SUFFICES Runs /\ CountTypes'
  BY LockTypesStep DEF HookTypes
<1> USE DEF HookTypes, CountTypes, HookLabel
<1>1. CASE PanelWrites BY <1>1 DEF PanelWrites
<1>2. ASSUME NEW n \in Name, RenewCert(n) PROVE Runs /\ CountTypes'
  <2>1. lineage[n].cert + 1 \in Nat OBVIOUS
  <2>2. CountTypes' BY <1>2, <2>1 DEF RenewCert
  <2> QED BY <1>2, <2>2 DEF RenewCert
<1>3. CASE RenewKey
  <2>1. due["timer"] \in Name BY <1>3 DEF RenewKey
  <2>2. CountTypes' BY <1>3, <2>1 DEF RenewKey
  <2> QED BY <1>3, <2>2 DEF RenewKey
<1>4. CASE Certonly
  <2>1. due["child"] \in Name BY <1>4 DEF Certonly
  <2>2. PICK g \in {lineage[due["child"]].cert, lineage[due["child"]].cert + 1} :
           lineage' = [lineage EXCEPT ![due["child"]] = [cert |-> g, key |-> g]]
    BY <1>4 DEF Certonly
  <2>3. g \in Nat BY <2>1, <2>2
  <2>4. CountTypes' BY <1>4, <2>2, <2>3 DEF Certonly
  <2> QED BY <1>4, <2>4 DEF Certonly
<1>5. ASSUME NEW h \in Hook, HookStep(h) PROVE Runs /\ CountTypes'
  <2>1. CASE HookLocks(h) BY <2>1 DEF HookLocks
  <2>2. CASE ResolveCert(h)
    <3>1. due[h] \in Name BY <2>2 DEF ResolveCert
    <3>2. CountTypes' BY <2>2, <3>1 DEF ResolveCert
    <3> QED BY <2>2, <3>2 DEF ResolveCert
  <2>3. CASE ResolveKey(h)
    <3>1. due[h] \in Name BY <2>3 DEF ResolveKey
    <3>2. CountTypes' BY <2>3, <3>1 DEF ResolveKey
    <3> QED BY <2>3, <3>2 DEF ResolveKey
  <2>4. CASE InstallCert(h) BY <2>4 DEF InstallCert
  <2>5. CASE InstallKey(h) BY <2>5 DEF InstallKey
  <2>6. CASE HookIgnores(h) BY <2>6, ExitTypes DEF HookIgnores
  <2>7. CASE HookReloads(h) BY <2>7, ExitTypes DEF HookReloads
  <2>8. CASE HookRefuses(h) BY <2>8, ExitTypes DEF HookRefuses
  <2> QED BY <1>5, <2>1, <2>2, <2>3, <2>4, <2>5, <2>6, <2>7, <2>8 DEF HookStep
<1>6. ASSUME NEW h \in Hook, HookFails(h) PROVE Runs /\ CountTypes'
  BY <1>6, ExitTypes DEF HookFails
<1>7. CASE Started BY <1>7 DEF Started, Start
<1>8. CASE Provisions BY <1>8, IdentityFields DEF Provisions, ScriptTypes
<1>9. CASE (ScriptStep \/ ScriptFails) /\ ~Provisions
  BY <1>9, ScriptHookFrame
<1> QED BY <1>1, <1>2, <1>3, <1>4, <1>5, <1>6, <1>7, <1>8, <1>9, NextCases
        DEF CertbotStep, HookWorks, vars

\* The types, action by action group.
LEMMA TypeStep == ASSUME LockInv, TypeInv, [Next]_vars PROVE TypeInv'
  BY ScriptTypesStep, IdentityTypesStep, ReleaseTypesStep, TlsTypesStep, ArchiveTypesStep,
     LoadedTypesStep, SwitchTypesStep, HookTypesStep DEF TypeInv

\* Types hold under every fault.
LEMMA TypeInvariance == Spec => []TypeInv
<1>1. LockInv /\ TypeInv /\ [Next]_vars => TypeInv' BY TypeStep
<1> QED BY TypeInit, LockInvariance, <1>1, PTL DEF Spec

\* Every variable has its type, and the archive is there exactly while the EXIT trap would
\* roll back (update.sh:275, reconfigure.sh:283): no step reads an archive that is not there.
THEOREM DeploymentTypes == Spec => []TypeOK
<1>1. TypeInv => TypeOK
  BY DEF TypeInv, TypeOK, ScriptTypes, IdentityTypes, TlsTypes, ReleaseTypes, ArchiveTypes,
         SwitchTypes, LoadedTypes, HookTypes, CountTypes, InTransaction
<1> QED BY TypeInvariance, <1>1, PTL

------------------------------------------------------------------------------
(* One identity and one release.                                           *)

\* An archive is taken of a settled installation, and nothing writes to it.
LEMMA ArchiveAgreesStep ==
  ASSUME LockInv, ScriptTypes, SettledInv, ArchiveAgrees, [Next]_vars PROVE ArchiveAgrees'
<1>1. CASE Archives
  BY <1>1 DEF Archives, SettledInv, Calm, ArchiveAgrees, IdentityAgrees, ReleaseAgrees, Rendered,
     InTransaction
<1> QED BY <1>1, ArchiveFrame DEF ArchiveAgrees, Rendered

LEMMA SettledInit == Init => SettledInv /\ ArchiveAgrees
  BY DEF Init, SettledInv, ArchiveAgrees, Calm, UpdateOwn, ReconfigureOwn, InTransaction, Working,
         Undoing, IdentityAgrees, ReleaseAgrees

\* Each step leaves the installation settled, or a script in progress to settle it.
LEMMA SettledStep ==
  ASSUME LockInv, TypeInv, SettledInv, ArchiveAgrees, [Next]_vars, "rollback" \notin Faults
  PROVE  SettledInv'
<1> USE DEF SettledInv, Calm, UpdateOwn, ReconfigureOwn, InTransaction, Working, Undoing,
            IdentityAgrees, ReleaseAgrees
<1>1. CASE PanelWrites
  <2>1. db'.id = db.id /\ db'.schema = db.schema /\ UNCHANGED <<scriptVars, identityVars, code>>
    BY <1>1 DEF PanelWrites, TypeInv, ReleaseTypes, Database
  <2> QED BY <1>1, <2>1 DEF PanelWrites
<1>2. CASE CertbotStep BY <1>2, CertbotFrame DEF Rendered
<1>3. CASE HookWorks BY <1>3, HookFrame DEF Rendered
<1>4. CASE Started BY <1>4 DEF Started, Start, Rendered
<1>5. CASE ScriptStep
  <2> USE DEF TypeInv, ScriptTypes
  <2>1. CASE Locks BY <2>1 DEF Locks, Go, Exit, Rendered
  <2>2. CASE Stops BY <2>2 DEF Stops, Go, Rendered
  <2>3. CASE Archives BY <2>3 DEF Archives, Go, Rendered
  <2>4. CASE Builds BY <2>4 DEF Builds, Go
  <2>5. CASE Migrates
    <3>1. db'.id = db.id /\ db'.schema = code /\ UNCHANGED <<job, goal, scripts, identityVars, code>>
      BY <2>5 DEF Migrates, ReleaseTypes, Database, Go
    <3> QED BY <2>5, <3>1 DEF Migrates, Go
  <2>6. CASE Integrates BY <2>6 DEF Integrates, Go, Rendered
  <2>7. CASE WritesEnv BY <2>7 DEF WritesEnv, Go, Rendered
  <2>8. CASE Provisions BY <2>8 DEF Provisions, Go, Rendered
  <2>9. CASE Relocks BY <2>9 DEF Relocks, Go, Rendered
  <2>10. CASE SelfSignsCert BY <2>10 DEF SelfSignsCert, Go, Rendered
  <2>11. CASE SelfSignsKey BY <2>11 DEF SelfSignsKey, Go, Rendered
  <2>12. CASE Configures
    <3>1. db'.id = goal /\ db'.schema = db.schema
      BY <2>12 DEF Configures, ReleaseTypes, Database
    <3> QED BY <2>12, <3>1 DEF Configures, Go
  <2>13. CASE InstallsSite BY <2>13 DEF InstallsSite, Go, Rendered
  <2>14. CASE Switches BY <2>14 DEF Switches, Go, Rendered
  <2>15. CASE Completes BY <2>15 DEF Completes, Exit, Rendered
  <2>16. CASE Undoes BY <2>16 DEF Undoes, Go, Rendered
  <2>17. CASE StopsToUndo BY <2>17 DEF StopsToUndo, Go, Rendered
  <2>18. CASE Restores
    BY <2>18, BroughtBack, RecordAssumption DEF Restores, Go, ArchiveAgrees, Rendered
  <2>19. CASE GoesBack BY <2>19 DEF GoesBack, Exit, Rendered
  <2> QED BY <1>5, <2>1, <2>2, <2>3, <2>4, <2>5, <2>6, <2>7, <2>8, <2>9, <2>10, <2>11, <2>12,
             <2>13, <2>14, <2>15, <2>16, <2>17, <2>18, <2>19 DEF ScriptStep
<1>6. CASE ScriptFails
  <2>1. CASE Abandons BY <2>1 DEF Abandons, Exit, Rendered
  <2>2. CASE Undoes BY <2>2 DEF Undoes, Go, Rendered
  <2>3. CASE RollbackDies BY <2>3 DEF RollbackDies
  <2> QED BY <1>6, <2>1, <2>2, <2>3 DEF ScriptFails
<1>7. CASE UNCHANGED vars BY <1>7 DEF vars, Rendered
<1> QED BY <1>1, <1>2, <1>3, <1>4, <1>5, <1>6, <1>7, NextCases

\* When no script is in progress, app.env, database, configuration, nginx site and renewal hook
\* speak of one identity and code, schema and configuration of one release, at whatever step
\* and however often scripts have failed (README.md:263), if an archive can be read back.
THEOREM ScriptsLeaveOneState ==
  ASSUME "rollback" \notin Faults
  PROVE  Spec => []Settled
<1>1. LockInv /\ TypeInv /\ SettledInv /\ ArchiveAgrees /\ [Next]_vars
      => (SettledInv /\ ArchiveAgrees)'
  BY SettledStep, ArchiveAgreesStep DEF TypeInv
<1>2. SettledInv => Settled
  BY DEF SettledInv, Settled, Calm, IdentityAgrees, ReleaseAgrees
<1> QED BY SettledInit, LockInvariance, TypeInvariance, <1>1, <1>2, PTL DEF Spec

------------------------------------------------------------------------------
(* The certificate is the identity's.                                      *)

LEMMA AcmeGoal ==
  ASSUME OneModePerName, NEW i \in Identity, ~i.selfSigned PROVE AcmeName(i.name)
  BY DEF OneModePerName, AcmeName

LEMMA TlsInit == ASSUME OneModePerName PROVE Init => LineageInv /\ TlsInv
<1> SUFFICES ASSUME Init PROVE LineageInv /\ TlsInv OBVIOUS
<1>1. ASSUME NEW n \in Name, lineage[n].cert # 0 PROVE AcmeName(n)
  BY <1>1, AcmeGoal DEF Init
<1>2. LineageInv BY <1>1 DEF Init, LineageInv
<1>3. TlsSettled(cert, env)
  BY IdentityFields DEF Init, TlsSettled, Issued
<1> QED BY <1>2, <1>3 DEF Init, TlsInv, Calm, UpdateOwn

\* Only a name of the ACME mode has a lineage, and a hook is started for one.
LEMMA LineageStep ==
  ASSUME LockInv, TypeInv, SettledInv, LineageInv, [Next]_vars, OneModePerName
  PROVE  LineageInv'
<1> USE DEF LineageInv
<1>1. CASE PanelWrites BY <1>1 DEF PanelWrites, AcmeName
<1>2. ASSUME NEW n \in Name, RenewCert(n) PROVE LineageInv'
  <2>1. AcmeName(n) BY <1>2, BoundAssumption DEF RenewCert
  <2> QED BY <1>2, <2>1 DEF RenewCert, TypeInv, CountTypes, HookTypes, AcmeName, LockInv, HookOwner,
                            Inside
<1>3. CASE RenewKey
  BY <1>3 DEF RenewKey, TypeInv, CountTypes, HookTypes, AcmeName, LockInv, HookOwner, Inside
<1>4. CASE Certonly
  <2>1. AcmeName(due["child"]) BY <1>4 DEF Certonly
  <2> QED BY <1>4, <2>1 DEF Certonly, TypeInv, CountTypes, HookTypes, AcmeName
<1>5. ASSUME NEW h \in Hook, NEW ok, HookExits(h, ok), UNCHANGED identityVars PROVE LineageInv'
  BY <1>5 DEF HookExits, TypeInv, HookTypes, AcmeName
<1>6. ASSUME NEW h \in Hook, HookStep(h) PROVE LineageInv'
  <2>1. CASE HookIgnores(h) BY <2>1, <1>5 DEF HookIgnores
  <2>2. CASE HookReloads(h) BY <2>2, <1>5 DEF HookReloads
  <2>3. CASE HookRefuses(h) BY <2>3, <1>5 DEF HookRefuses
  <2>4. CASE HookLocks(h)
    BY <2>4 DEF HookLocks, TypeInv, HookTypes, AcmeName
  <2>5. CASE ResolveCert(h) \/ ResolveKey(h) \/ InstallCert(h) \/ InstallKey(h)
    BY <2>5 DEF ResolveCert, ResolveKey, InstallCert, InstallKey, TypeInv, HookTypes, AcmeName
  <2> QED BY <1>6, <2>1, <2>2, <2>3, <2>4, <2>5 DEF HookStep
<1>7. ASSUME NEW h \in Hook, HookFails(h) PROVE LineageInv' BY <1>5, <1>7 DEF HookFails
<1>8. CASE Started BY <1>8 DEF Started, Start, AcmeName
<1>9. CASE ScriptStep \/ ScriptFails
  <2>1. CASE Provisions
    <3>1. AcmeName(goal.name)
      BY <2>1, AcmeGoal DEF Provisions, SettledInv, TypeInv, ScriptTypes
    <3>2. certLock' \notin Hook BY <2>1 DEF Provisions
    <3> QED BY <2>1, <3>1, <3>2 DEF Provisions, TypeInv, HookTypes, AcmeName
  <2>2. CASE ~Provisions
    <3>1. UNCHANGED <<hookVars, certbotVars>> BY <1>9, <2>2, ScriptHookFrame
    <3>2. \A h \in Hook : certLock' = h => certLock = h /\ env' = env
      <4>1. CASE WritesEnv \/ Restores
        BY <4>1 DEF WritesEnv, Restores, LockInv, ScriptOwner, Locked
      <4>2. CASE ~WritesEnv /\ ~Restores
        BY <1>9, <2>2, <4>2 DEF ScriptStep, ScriptFails, Locks, Stops, Archives, Builds, Migrates,
           Integrates, Relocks, SelfSignsCert, SelfSignsKey, Configures, InstallsSite, Switches,
           Completes, StopsToUndo, GoesBack, Abandons, Undoes, RollbackDies, Exit
      <4> QED BY <4>1, <4>2
    <3> QED BY <3>1, <3>2 DEF AcmeName
  <2> QED BY <2>1, <2>2
<1>10. CASE UNCHANGED vars BY <1>10 DEF vars, AcmeName
<1> QED BY <1>1, <1>2, <1>3, <1>4, <1>6, <1>7, <1>8, <1>9, <1>10, NextCases
        DEF CertbotStep, HookWorks

\* The archived pair is of the identity that is archived with it.
LEMMA ArchivedTlsStep ==
  ASSUME LockInv, ScriptTypes, TlsInv, [Next]_vars
  PROVE  archive' # None => TlsSettled(archive'.cert, archive'.env)
<1>1. CASE Archives BY <1>1 DEF Archives, TlsInv, Calm, TlsSettled
<1> QED BY <1>1, ArchiveFrame DEF TlsInv

\* The installed pair is of the identity's kind and name, or a script is about to make it so.
LEMMA TlsStep ==
  ASSUME LockInv, TypeInv, SettledInv, LineageInv, TlsInv, [Next]_vars,
         "rollback" \notin Faults
  PROVE  TlsInv'
<1> DEFINE Here == /\ deploy \in Calm \cup UpdateOwn \cup {"env", "selfkey", "back"} =>
                        TlsSettled(cert, env)
                   /\ deploy \in {"configure", "site", "switch", "health"} =>
                        TlsSettled(cert, env) \/ ~env.selfSigned
<1> SUFFICES Here'
  BY ArchivedTlsStep DEF TlsInv, TypeInv
<1> USE DEF TlsInv, Calm, UpdateOwn, TypeInv, ScriptTypes, Working
<1>1. CASE PanelWrites BY <1>1 DEF PanelWrites, TlsSettled
<1>2. CASE CertbotStep BY <1>2, CertbotFrame DEF TlsSettled
<1>3. ASSUME NEW h \in Hook, HookStep(h) \/ HookFails(h) PROVE Here'
  <2>1. CASE InstallCert(h)
    <3>1. env.name = due[h] /\ AcmeName(due[h])
      BY <2>1 DEF InstallCert, LineageInv, LockInv, HookOwner, Inside
    <3>2. ~env.selfSigned
      BY <3>1 DEF AcmeName, IdentityTypes
    <3>3. cert'.by = "acme" /\ cert'.name = env.name /\ env' = env
      BY <2>1, <3>1 DEF InstallCert, Issued
    <3> QED BY <3>2, <3>3 DEF TlsSettled
  <2>2. CASE ~InstallCert(h)
    <3>1. cert' = cert
      BY <1>3, <2>2 DEF HookStep, HookFails, HookRefuses, HookLocks, HookIgnores, ResolveCert,
         ResolveKey, InstallKey, HookReloads
    <3> QED BY <1>3, <3>1, HookFrame DEF HookWorks, TlsSettled
  <2> QED BY <2>1, <2>2
<1>4. CASE Started BY <1>4 DEF Started, Start, TlsSettled
<1>5. CASE ScriptStep
  <2>1. CASE Locks BY <2>1 DEF Locks, Go, Exit, TlsSettled
  <2>2. CASE Stops BY <2>2 DEF Stops, Go, TlsSettled
  <2>3. CASE Archives BY <2>3 DEF Archives, Go, TlsSettled
  <2>4. CASE Builds \/ Migrates \/ Integrates
    BY <2>4 DEF Builds, Migrates, Integrates, Go, TlsSettled
  <2>5. CASE WritesEnv BY <2>5 DEF WritesEnv, Go
  <2>6. CASE Provisions BY <2>6 DEF Provisions, Go
  <2>7. CASE Relocks BY <2>7 DEF Relocks, Go, SettledInv, ReconfigureOwn
  <2>8. CASE SelfSignsCert
    <3>1. env = goal /\ goal.selfSigned
      BY <2>8 DEF SelfSignsCert, SettledInv, ReconfigureOwn
    <3> QED BY <2>8, <3>1 DEF SelfSignsCert, Go, Issued, TlsSettled
  <2>9. CASE SelfSignsKey BY <2>9 DEF SelfSignsKey, Go, TlsSettled
  <2>10. CASE Configures BY <2>10 DEF Configures, Go, TlsSettled
  <2>11. CASE InstallsSite BY <2>11 DEF InstallsSite, Go, TlsSettled
  <2>12. CASE Switches BY <2>12 DEF Switches, Go, TlsSettled
  <2>13. CASE Completes
    <3>1. TlsSettled(cert, env)
      BY <2>13 DEF Completes, Healthy, TlsSettled
    <3> QED BY <2>13, <3>1 DEF Completes, Exit, TlsSettled
  <2>14. CASE Undoes BY <2>14 DEF Undoes, Go
  <2>15. CASE StopsToUndo BY <2>15 DEF StopsToUndo, Go
  <2>16. CASE Restores
    BY <2>16, BroughtBack, RecordAssumption DEF Restores, Go, TlsSettled
  <2>17. CASE GoesBack BY <2>17 DEF GoesBack, Exit, TlsSettled
  <2> QED BY <1>5, <2>1, <2>2, <2>3, <2>4, <2>5, <2>6, <2>7, <2>8, <2>9, <2>10, <2>11, <2>12,
             <2>13, <2>14, <2>15, <2>16, <2>17 DEF ScriptStep
<1>6. CASE ScriptFails
  <2>1. CASE Abandons BY <2>1 DEF Abandons, Exit, TlsSettled
  <2>2. CASE Undoes BY <2>2 DEF Undoes, Go
  <2>3. CASE RollbackDies BY <2>3 DEF RollbackDies
  <2> QED BY <1>6, <2>1, <2>2, <2>3 DEF ScriptFails
<1>7. CASE UNCHANGED vars BY <1>7 DEF vars, TlsSettled
<1> QED BY <1>1, <1>2, <1>3, <1>4, <1>5, <1>6, <1>7, NextCases DEF HookWorks

\* With no script in progress the installed certificate is of the name and the mode the last
\* script left (README.md:244), also after a rollback and next to any renewal, as long as no
\* name changes its mode: the renewal of a domain made self-signed would break it.
THEOREM CertificateFollowsIdentity ==
  ASSUME "rollback" \notin Faults, OneModePerName
  PROVE  Spec => []TlsFollowsIdentity
<1>1. /\ LockInv /\ TypeInv /\ SettledInv /\ ArchiveAgrees /\ LineageInv /\ TlsInv /\ [Next]_vars
      => (SettledInv /\ ArchiveAgrees /\ LineageInv /\ TlsInv)'
  BY SettledStep, ArchiveAgreesStep, LineageStep, TlsStep DEF TypeInv
<1>2. TlsInv => TlsFollowsIdentity
  BY DEF TlsInv, TlsFollowsIdentity, TlsSettled, Calm
<1>3. Init => SettledInv /\ ArchiveAgrees /\ LineageInv /\ TlsInv
  BY SettledInit, TlsInit
<1> QED BY <1>3, LockInvariance, TypeInvariance, <1>1, <1>2, PTL DEF Spec

------------------------------------------------------------------------------
(* The services.                                                           *)

LEMMA LoadedIsSomething == ASSUME TypeInv PROVE Loaded # None
<1>1. Loaded \in Loading
  BY DEF TypeInv, TlsTypes, ReleaseTypes, Loaded, Loading
<1> QED BY <1>1, RecordAssumption

LEMMA ServiceInit == Init => ServiceInv
  BY TypeInit, LoadedIsSomething DEF Init, ServiceInv, Serving, Fresh

\* While a script holds the certificate lock no hook is between its two mv.
LEMMA ScriptLocked ==
  ASSUME LockInv, PairInv, certLock = "script", deploy \notin {"selfkey", "undo", "restore"}
  PROVE  Matches
  BY DEF LockInv, HookOwner, Inside, PairInv, Torn

\* Without a fault of systemctl both services come back on the installed files.
LEMMA Restarted ==
  ASSUME Matches, RestartsServices, "restart" \notin Faults, UNCHANGED <<tlsVars, releaseVars>>
  PROVE  api' /\ singbox' = Loaded /\ Loaded' = Loaded
  BY DEF RestartsServices, Loaded

\* Outside the scripts' own stops the panel runs, and sing-box on the installed files.
LEMMA ServiceStep ==
  ASSUME LockInv, PairInv, TypeInv, ServiceInv, [Next]_vars, Faults \subseteq {"step"}
  PROVE  ServiceInv'
<1> USE DEF ServiceInv, Serving, Fresh, TypeInv, ScriptTypes
<1>0. Loaded # None BY LoadedIsSomething
<1>1. CASE PanelWrites
  <2>1. singbox' = Loaded' BY <1>1 DEF PanelWrites, Loaded
  <2>3. ReleaseTypes' /\ TlsTypes' BY ReleaseTypesStep, TlsTypesStep
  <2>4. Loaded' \in Loading BY <2>3 DEF ReleaseTypes, TlsTypes, Loaded, Loading
  <2> QED BY <1>1, <2>1, <2>4, RecordAssumption DEF PanelWrites
<1>2. CASE CertbotStep
  <2>1. \A h \in Hook : pc'[h] \in {"installkey", "reload"} <=> pc[h] \in {"installkey", "reload"}
    BY <1>2 DEF CertbotStep, RenewCert, RenewKey, Certonly, HookTypes
  <2>2. Loaded' = Loaded BY <1>2, CertbotFrame DEF Loaded
  <2> QED BY <1>2, <2>1, <2>2, CertbotFrame
<1>3. ASSUME NEW h \in Hook, HookStep(h) \/ HookFails(h) PROVE ServiceInv'
  <2> USE DEF HookTypes
  <2>0. HookWorks BY <1>3 DEF HookWorks
  <2>1. CASE HookLocks(h) \/ ResolveCert(h) \/ ResolveKey(h)
    BY <2>1 DEF HookLocks, ResolveCert, ResolveKey, Loaded
  <2>2. CASE InstallCert(h) BY <2>2 DEF InstallCert
  <2>3. CASE InstallKey(h) BY <2>3 DEF InstallKey
  <2>4. ASSUME NEW ok, HookExits(h, ok), pc[h] \notin {"installkey", "reload"},
               UNCHANGED <<tlsVars, identityVars, releaseVars, serviceVars>>
        PROVE  ServiceInv'
    <3>1. Loaded' = Loaded BY <2>4 DEF Loaded
    <3>2. \A g \in Hook : pc[g] \in {"installkey", "reload"} => pc'[g] \in {"installkey", "reload"}
      BY <2>4 DEF HookExits
    <3> QED BY <2>0, <2>4, <3>1, <3>2, HookFrame
  <2>5. CASE HookIgnores(h) BY <2>4, <2>5 DEF HookIgnores
  <2>6. CASE HookRefuses(h) BY <2>4, <2>6 DEF HookRefuses
  <2>7. CASE HookReloads(h)
    <3>1. Loaded' = Loaded BY <2>7 DEF HookReloads, Loaded
    <3>2. singbox' = IF singbox = None THEN None ELSE Loaded BY <2>7 DEF HookReloads
    <3> QED BY <1>0, <2>0, <3>1, <3>2, HookFrame
  <2>8. CASE HookFails(h)
    <3>1. h = "child" /\ deploy = "acme" /\ HookExits(h, FALSE)
      BY <2>8 DEF HookFails, LockInv, ChildRuns
    <3> QED BY <3>1 DEF HookExits
  <2> QED BY <1>3, <2>1, <2>2, <2>3, <2>5, <2>6, <2>7, <2>8 DEF HookStep
<1>4. CASE Started
  <2>1. Loaded' = Loaded BY <1>4 DEF Started, Start, Loaded
  <2> QED BY <1>4, <2>1 DEF Started, Start
<1>5. CASE ScriptStep
  <2>1. CASE Locks
    <3>1. Loaded' = Loaded BY <2>1 DEF Locks, Loaded
    <3> QED BY <2>1, <3>1 DEF Locks, Go, Exit
  <2>2. CASE Stops
    <3>1. Loaded' = Loaded BY <2>2 DEF Stops, Loaded
    <3> QED BY <2>2, <3>1 DEF Stops, Go
  <2>3. CASE Archives BY <2>3 DEF Archives, Go
  <2>4. CASE Builds \/ Migrates \/ Integrates BY <2>4 DEF Builds, Migrates, Integrates, Go
  <2>5. CASE WritesEnv BY <2>5 DEF WritesEnv, Go
  <2>6. CASE Provisions BY <2>6 DEF Provisions, Go
  <2>7. CASE Relocks \/ SelfSignsCert \/ SelfSignsKey
    BY <2>7 DEF Relocks, SelfSignsCert, SelfSignsKey, Go
  <2>8. CASE Configures \/ InstallsSite BY <2>8 DEF Configures, InstallsSite, Go
  <2>9. CASE Switches
    <3>1. deploy' = "health" => api' /\ singbox' # None BY <2>9 DEF Switches, Go
    <3>2. deploy' \in {"health", "undo"} BY <2>9 DEF Switches, Go
    <3>3. singbox' # None => singbox' = Loaded BY <2>9 DEF Switches, RestartsServices
    <3>4. Loaded' = Loaded BY <2>9 DEF Switches, Loaded
    <3> QED BY <3>1, <3>2, <3>3, <3>4
  <2>10. CASE Completes
    <3>1. Loaded' = Loaded BY <2>10 DEF Completes, Loaded
    <3> QED BY <2>10, <3>1 DEF Completes, Exit
  <2>11. CASE Undoes BY <2>11 DEF Undoes, Go
  <2>12. CASE StopsToUndo BY <2>12 DEF StopsToUndo, Go
  <2>13. CASE Restores BY <2>13 DEF Restores, Go
  <2>14. CASE GoesBack
    <3>1. Matches BY <2>14, ScriptLocked DEF GoesBack, LockInv, ScriptOwner, Locked
    <3> QED BY <1>0, <2>14, <3>1, Restarted DEF GoesBack, Exit
  <2> QED BY <1>5, <2>1, <2>2, <2>3, <2>4, <2>5, <2>6, <2>7, <2>8, <2>9, <2>10, <2>11, <2>12,
             <2>13, <2>14 DEF ScriptStep
<1>6. CASE ScriptFails
  <2>1. CASE Abandons
    <3>1. Loaded' = Loaded /\ UNCHANGED <<pc, tlsVars, releaseVars>> BY <2>1 DEF Abandons, Loaded
    <3>2. CASE deploy = "lock" BY <2>1, <3>1, <3>2 DEF Abandons, Exit
    <3>3. CASE deploy # "lock" /\ job = "reconfigure"
      <4>1. Matches BY <2>1, <3>3, ScriptLocked DEF Abandons, LockInv, ScriptOwner, Locked
      <4>2. RestartsServices /\ Exit BY <2>1, <3>3 DEF Abandons
      <4> QED BY <1>0, <3>1, <4>1, <4>2, Restarted
    <3>4. CASE deploy # "lock" /\ job = "update"
      <4>1. api' /\ singbox' = singbox BY <2>1, <3>4 DEF Abandons
      <4> QED BY <2>1, <3>1, <3>4, <4>1 DEF Abandons, Exit
    <3> QED BY <2>1, <3>2, <3>3, <3>4 DEF Abandons
  <2>2. CASE Undoes BY <2>2 DEF Undoes, Go
  <2>3. CASE RollbackDies BY <2>3 DEF RollbackDies
  <2> QED BY <1>6, <2>1, <2>2, <2>3 DEF ScriptFails
<1>7. CASE UNCHANGED vars BY <1>7 DEF vars, Loaded
<1> QED BY <1>1, <1>2, <1>3, <1>4, <1>5, <1>6, <1>7, NextCases DEF HookWorks

\* A script that ends, in whatever way, leaves both services running, sing-box on the files
\* that are installed (on_update_exit, on_reconfigure_exit), where only the scripts' own
\* commands fail: a hook or a systemctl that fails may leave one down.
THEOREM ScriptsLeaveServicesRunning ==
  ASSUME Faults \subseteq {"step"}
  PROVE  Spec => []ServicesReturn
<1>1. LockInv /\ PairInv /\ TypeInv /\ ServiceInv /\ [Next]_vars => (PairInv /\ ServiceInv)'
  BY PairStep, ServiceStep
<1>2. ServiceInv => ServicesReturn
  BY DEF ServiceInv, Serving, Fresh, ServicesReturn, HooksIdle
<1> QED BY PairInit, ServiceInit, LockInvariance, TypeInvariance, <1>1, <1>2, PTL DEF Spec

------------------------------------------------------------------------------
(* One atomic change of the installation, or none.                         *)

LEMMA RefInit == Init => RefInv
  BY DEF Init, RefInv, PanelStopped, RowsKept, OneChange, Silent, InTransaction, Working, Undoing

\* The panel is stopped from the archive to the health check and in the rollback.
LEMMA PanelStoppedStep ==
  ASSUME LockInv, PanelStopped, [Next]_vars PROVE PanelStopped'
<1> USE DEF PanelStopped, Silent, InTransaction, Working, Undoing
<1>1. CASE PanelWrites BY <1>1 DEF PanelWrites
<1>2. CASE CertbotStep BY <1>2, CertbotFrame
<1>3. CASE HookWorks BY <1>3, HookFrame
<1>4. CASE Started BY <1>4 DEF Started, Start
<1>5. CASE ScriptStep
  <2>1. CASE Locks BY <2>1 DEF Locks, Go, Exit
  <2>2. CASE Stops BY <2>2 DEF Stops, Go
  <2>3. CASE Archives BY <2>3 DEF Archives, Go
  <2>4. CASE Builds \/ Migrates \/ Integrates BY <2>4 DEF Builds, Migrates, Integrates, Go
  <2>5. CASE WritesEnv \/ Provisions \/ Relocks \/ SelfSignsCert \/ SelfSignsKey
    BY <2>5 DEF WritesEnv, Provisions, Relocks, SelfSignsCert, SelfSignsKey, Go
  <2>6. CASE Configures \/ InstallsSite BY <2>6 DEF Configures, InstallsSite, Go
  <2>7. CASE Switches BY <2>7 DEF Switches, Go
  <2>8. CASE Completes \/ GoesBack BY <2>8 DEF Completes, GoesBack, Exit
  <2>9. CASE Undoes BY <2>9 DEF Undoes, Go
  <2>10. CASE StopsToUndo BY <2>10 DEF StopsToUndo, Go
  <2>11. CASE Restores BY <2>11 DEF Restores, Go
  <2> QED BY <1>5, <2>1, <2>2, <2>3, <2>4, <2>5, <2>6, <2>7, <2>8, <2>9, <2>10, <2>11
          DEF ScriptStep
<1>6. CASE ScriptFails BY <1>6 DEF ScriptFails, Abandons, Undoes, RollbackDies, Go, Exit
<1>7. CASE UNCHANGED vars BY <1>7 DEF vars
<1> QED BY <1>1, <1>2, <1>3, <1>4, <1>5, <1>6, <1>7, NextCases

\* What the panel, migrate and configure-deployment do to the database.
LEMMA DatabaseWrites ==
  ASSUME ReleaseTypes
  PROVE  /\ PanelWrites => db'.rows = db.rows + 1 /\ db'.id = db.id /\ code' = code
         /\ Migrates => db'.rows = db.rows /\ db'.id = db.id /\ code' = code
         /\ Configures => db'.rows = db.rows /\ db'.id = goal /\ code' = code
  BY DEF ReleaseTypes, Database, PanelWrites, Migrates, Configures

LEMMA RowTypes ==
  ASSUME TypeInv
  PROVE  /\ db.rows \in Nat /\ db.id \in Identity /\ code \in Nat
         /\ archive # None => archive.db.rows \in Nat /\ archive.db.id \in Identity
                              /\ archive.code \in Nat
  BY ArchiveFields DEF TypeInv, ReleaseTypes, ArchiveTypes, Database

\* No archived row is missing, and none is added until the panel serves again.
LEMMA RowsKeptStep ==
  ASSUME LockInv, TypeInv, TypeInv', RefInv, [Next]_vars, "rollback" \notin Faults
  PROVE  RowsKept'
<1> USE RowTypes, DatabaseWrites DEF RefInv, RowsKept, TypeInv, ScriptTypes
<1> USE DEF InTransaction, Working, Undoing
<1>1. CASE PanelWrites
  BY <1>1 DEF PanelWrites, PanelStopped, Silent
<1>2. CASE CertbotStep BY <1>2, CertbotFrame
<1>3. CASE HookWorks BY <1>3, HookFrame
<1>4. CASE Started BY <1>4 DEF Started, Start
<1>5. CASE ScriptStep
  <2>1. CASE Locks \/ Completes \/ GoesBack BY <2>1 DEF Locks, Completes, GoesBack, Go, Exit
  <2>2. CASE Stops BY <2>2 DEF Stops, Go
  <2>3. CASE Archives BY <2>3 DEF Archives, Go
  <2>4. CASE Builds \/ Integrates BY <2>4 DEF Builds, Integrates, Go
  <2>5. CASE Migrates BY <2>5 DEF Migrates, Go
  <2>6. CASE WritesEnv \/ Provisions \/ Relocks \/ SelfSignsCert \/ SelfSignsKey
    BY <2>6 DEF WritesEnv, Provisions, Relocks, SelfSignsCert, SelfSignsKey, Go
  <2>7. CASE Configures BY <2>7 DEF Configures, Go
  <2>8. CASE InstallsSite BY <2>8 DEF InstallsSite, Go
  <2>9. CASE Switches BY <2>9 DEF Switches, Go
  <2>10. CASE Undoes BY <2>10 DEF Undoes, Go
  <2>11. CASE StopsToUndo BY <2>11 DEF StopsToUndo, Go
  <2>12. CASE Restores BY <2>12, BroughtBack DEF Restores, Go
  <2> QED BY <1>5, <2>1, <2>2, <2>3, <2>4, <2>5, <2>6, <2>7, <2>8, <2>9, <2>10, <2>11, <2>12
          DEF ScriptStep
<1>6. CASE ScriptFails
  BY <1>6 DEF ScriptFails, Abandons, Undoes, RollbackDies, Go, Exit
<1>7. CASE UNCHANGED vars BY <1>7 DEF vars
<1> QED BY <1>1, <1>2, <1>3, <1>4, <1>5, <1>6, <1>7, NextCases

\* How far a script has got says what differs from its archive.
LEMMA OneChangeStep ==
  ASSUME LockInv, TypeInv, TypeInv', RefInv, [Next]_vars, "rollback" \notin Faults
  PROVE  OneChange'
<1> USE RowTypes, DatabaseWrites
    DEF RefInv, OneChange, TypeInv, ScriptTypes, InTransaction, Working, Undoing, UpdateOwn,
        ReconfigureOwn
<1>1. CASE PanelWrites
  BY <1>1 DEF PanelWrites, PanelStopped, Silent
<1>2. CASE CertbotStep BY <1>2, CertbotFrame
<1>3. CASE HookWorks BY <1>3, HookFrame
<1>4. CASE Started BY <1>4 DEF Started, Start
<1>5. CASE ScriptStep
  <2>1. CASE Locks \/ Completes \/ GoesBack BY <2>1 DEF Locks, Completes, GoesBack, Go, Exit
  <2>2. CASE Stops BY <2>2 DEF Stops, Go
  <2>3. CASE Archives BY <2>3 DEF Archives, Go
  <2>4. CASE Builds BY <2>4 DEF Builds, Go
  <2>5. CASE Migrates BY <2>5 DEF Migrates, Go
  <2>6. CASE Integrates BY <2>6 DEF Integrates, Go
  <2>7. CASE WritesEnv \/ Provisions \/ Relocks \/ SelfSignsCert \/ SelfSignsKey
    BY <2>7 DEF WritesEnv, Provisions, Relocks, SelfSignsCert, SelfSignsKey, Go
  <2>8. CASE Configures BY <2>8 DEF Configures, Go
  <2>9. CASE InstallsSite BY <2>9 DEF InstallsSite, Go
  <2>10. CASE Switches BY <2>10 DEF Switches, Go
  <2>11. CASE Undoes BY <2>11 DEF Undoes, Go
  <2>12. CASE StopsToUndo BY <2>12 DEF StopsToUndo, Go
  <2>13. CASE Restores BY <2>13, BroughtBack DEF Restores, Go
  <2> QED BY <1>5, <2>1, <2>2, <2>3, <2>4, <2>5, <2>6, <2>7, <2>8, <2>9, <2>10, <2>11, <2>12,
             <2>13 DEF ScriptStep
<1>6. CASE ScriptFails
  BY <1>6 DEF ScriptFails, Abandons, Undoes, RollbackDies, Go, Exit
<1>7. CASE UNCHANGED vars BY <1>7 DEF vars
<1> QED BY <1>1, <1>2, <1>3, <1>4, <1>5, <1>6, <1>7, NextCases

\* What AtomicDeployment sees of a state.
ViewId == IF archive = None THEN db.id ELSE archive.db.id
ViewRelease == IF archive = None THEN code ELSE archive.code
ViewRows == IF deploy \in {"health", "undo", "restore"} THEN archive.db.rows ELSE db.rows
View == <<ViewId, ViewRelease, ViewRows>>

\* Every step is one atomic change or none: a row, the end of a script that succeeded, or
\* nothing that an administrator could tell from a rollback.
LEMMA AtomicStep ==
  ASSUME LockInv, TypeInv, TypeInv', RefInv, RefInv', [Next]_vars, "rollback" \notin Faults
  PROVE  [Atomic!Write \/ Atomic!Reconfigure \/ Atomic!Update]_View
<1> USE RowTypes, DatabaseWrites DEF TypeInv, ScriptTypes, InTransaction, Working, Undoing
<1> USE DEF View, ViewId, ViewRelease, ViewRows
<1>1. CASE PanelWrites
  <2>1. deploy' = deploy /\ archive' = archive /\ code' = code BY <1>1 DEF PanelWrites
  <2>2. deploy \in {"health", "undo"} \/ archive = None
    BY <1>1 DEF PanelWrites, RefInv, PanelStopped, Silent
  <2>3. CASE archive = None BY <1>1, <2>1, <2>3 DEF Atomic!Write
  <2>4. CASE archive # None BY <1>1, <2>1, <2>2, <2>4
  <2> QED BY <2>3, <2>4
<1>2. CASE CertbotStep BY <1>2, CertbotFrame
<1>3. CASE HookWorks BY <1>3, HookFrame DEF RefInv, RowsKept
<1>4. CASE Started BY <1>4 DEF Started, Start
<1>5. CASE ScriptStep
  <2>1. CASE Locks BY <2>1 DEF Locks, Go, Exit
  <2>2. CASE Stops BY <2>2 DEF Stops, Go
  <2>3. CASE Archives
    <3>1. archive'.db = db /\ archive'.code = code /\ UNCHANGED <<db, code>>
      BY <2>3 DEF Archives
    <3> QED BY <2>3, <3>1 DEF Archives, Go
  <2>4. CASE Builds \/ Integrates BY <2>4 DEF Builds, Integrates, Go
  <2>5. CASE Migrates BY <2>5 DEF Migrates, Go
  <2>6. CASE WritesEnv \/ Provisions \/ Relocks \/ SelfSignsCert \/ SelfSignsKey
    BY <2>6 DEF WritesEnv, Provisions, Relocks, SelfSignsCert, SelfSignsKey, Go
  <2>7. CASE Configures BY <2>7 DEF Configures, Go
  <2>8. CASE InstallsSite BY <2>8 DEF InstallsSite, Go
  <2>9. CASE Switches BY <2>9 DEF Switches, Go, RefInv, RowsKept
  <2>10. CASE Completes
    <3>1. deploy = "health" /\ archive # None /\ archive' = None /\ deploy' = "none"
          /\ UNCHANGED <<db, code>>
      BY <2>10 DEF Completes, Exit
    <3>2. archive.db.rows <= db.rows BY <3>1 DEF RefInv, RowsKept
    <3>3. CASE job = "update"
      <4>1. db.id = archive.db.id /\ code = archive.code + 1
        BY <3>1, <3>3 DEF RefInv, OneChange
      <4> QED BY <3>1, <3>2, <4>1 DEF Atomic!Update
    <3>4. CASE job = "reconfigure"
      <4>1. code = archive.code BY <3>1, <3>4 DEF RefInv, OneChange
      <4> QED BY <3>1, <3>2, <4>1 DEF Atomic!Reconfigure
    <3> QED BY <3>1, <3>3, <3>4
  <2>11. CASE Undoes BY <2>11 DEF Undoes, Go, RefInv, RowsKept
  <2>12. CASE StopsToUndo BY <2>12 DEF StopsToUndo, Go
  <2>13. CASE Restores BY <2>13, BroughtBack DEF Restores, Go
  <2>14. CASE GoesBack
    <3>1. db = archive.db /\ code = archive.code BY <2>14 DEF GoesBack, RefInv, OneChange
    <3> QED BY <2>14, <3>1 DEF GoesBack, Exit
  <2> QED BY <1>5, <2>1, <2>2, <2>3, <2>4, <2>5, <2>6, <2>7, <2>8, <2>9, <2>10, <2>11, <2>12,
             <2>13, <2>14 DEF ScriptStep
<1>6. CASE ScriptFails
  <2>1. CASE Abandons BY <2>1 DEF Abandons, Exit
  <2>2. CASE Undoes BY <2>2 DEF Undoes, Go, RefInv, RowsKept
  <2>3. CASE RollbackDies BY <2>3 DEF RollbackDies
  <2> QED BY <1>6, <2>1, <2>2, <2>3 DEF ScriptFails
<1>7. CASE UNCHANGED vars BY <1>7 DEF vars
<1> QED BY <1>1, <1>2, <1>3, <1>4, <1>5, <1>6, <1>7, NextCases

\* update.sh and reconfigure.sh implement AtomicDeployment: whatever fails or is interrupted,
\* a script changes the installation as a whole or leaves it as it was, and no row written
\* before it stopped the panel is lost, if an archive can be read back.
THEOREM ScriptsAreAtomic ==
  ASSUME "rollback" \notin Faults
  PROVE  Spec => DeploysAtomically
<1>1. Init => Atomic!Init
  BY DEF Init, Atomic!Init
<1>2. LockInv /\ TypeInv /\ TypeInv' /\ RefInv /\ [Next]_vars => RefInv'
  BY PanelStoppedStep, RowsKeptStep, OneChangeStep DEF RefInv
<1>3. LockInv /\ TypeInv /\ TypeInv' /\ RefInv /\ RefInv' /\ [Next]_vars
      => [Atomic!Write \/ Atomic!Reconfigure \/ Atomic!Update]_View
  BY AtomicStep
<1> QED BY <1>1, RefInit, LockInvariance, TypeInvariance, <1>2, <1>3, PTL
        DEF Spec, DeploysAtomically, Atomic!Spec, View, ViewId, ViewRelease, ViewRows
==============================================================================
