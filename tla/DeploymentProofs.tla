--------------------------- MODULE DeploymentProofs ---------------------------
(***************************************************************************)
(* What the certificate lock guarantees on every installation: any names   *)
(* and identities, any number of scripts, renewals and rows.               *)
(***************************************************************************)
EXTENDS Deployment, TLAPS

------------------------------------------------------------------------------
(* Who works on config/tls.                                                *)

\* The steps of a hook that holds the certificate lock.
Inside == {"fullchain", "privkey", "install", "installkey", "reload"}
\* The steps of a script that holds it, whichever script it is.
Locked == {"stop", "archive", "build", "migrate", "integrate", "env", "provision", "selfcert",
           "selfkey", "configure", "site", "switch", "health", "restore", "back"}
UpdateSteps == {"lock", "stop", "archive", "build", "migrate", "integrate", "switch", "health",
                "undo", "restore", "back"}
\* Those of update.sh after its archive.
Archived == UpdateSteps \ {"lock", "stop", "archive"}

HookVarsOK == /\ pc \in [Hook -> HookLabel]
              /\ DOMAIN due = Hook /\ DOMAIN copied = Hook
HookOwner == \A h \in Hook : pc[h] \in Inside <=> certLock = h
ScriptOwner == deploy \in Locked \/ (deploy = "undo" /\ job = "update") => certLock = "script"
ChildRuns == pc["child"] # "idle" <=> deploy = "acme"
UpdateOnly == job = "update" => deploy \in UpdateSteps
\* The archive of update.sh holds the pair that is installed.
UpdateArchive == job = "update" /\ deploy \in Archived => archive.cert = cert /\ archive.key = key

LockInv == HookVarsOK /\ HookOwner /\ ScriptOwner /\ ChildRuns /\ UpdateOnly /\ UpdateArchive

USE NoneAssumption DEF Hook

LEMMA LockInit == Init => LockInv
  BY DEF Init, LockInv, HookVarsOK, HookOwner, ScriptOwner, ChildRuns, UpdateOnly,
         UpdateArchive, HookLabel, Inside, Locked

\* A step of a script that leaves the certificate lock, the pair and the hooks alone.
LEMMA ScriptMoves ==
  ASSUME LockInv, NEW l, Go(l), UNCHANGED <<archive, certLock, tlsVars, hookVars>>,
         deploy \in Locked \cup {"relock"}, l \in Locked \cup {"undo"},
         l \in Locked => deploy \in Locked,
         job = "update" => /\ l \in UpdateSteps
                           /\ l \in Archived => deploy \in Archived
  PROVE  LockInv'
  BY DEF LockInv, HookVarsOK, HookOwner, ScriptOwner, ChildRuns, UpdateOnly, UpdateArchive,
         HookLabel, Inside, Locked, UpdateSteps, Archived, Go, tlsVars, hookVars

LEMMA ScriptExits ==
  ASSUME LockInv, Exit, deploy # "acme", UNCHANGED <<tlsVars, hookVars>>
  PROVE  LockInv'
  BY DEF LockInv, HookVarsOK, HookOwner, ScriptOwner, ChildRuns, UpdateOnly, UpdateArchive,
         HookLabel, Inside, Locked, UpdateSteps, Archived, Exit, tlsVars, hookVars

LEMMA HookLeaves ==
  ASSUME LockInv, NEW h \in Hook, NEW ok, HookExits(h, ok), UNCHANGED tlsVars,
         pc[h] # "idle"
  PROVE  LockInv'
  BY DEF LockInv, HookVarsOK, HookOwner, ScriptOwner, ChildRuns, UpdateOnly, UpdateArchive,
         HookLabel, Inside, Locked, UpdateSteps, Archived, HookExits, tlsVars

LEMMA LockStep == ASSUME LockInv, [Next]_vars PROVE LockInv'
<1> USE DEF LockInv, HookVarsOK, HookOwner, ScriptOwner, ChildRuns, UpdateOnly, UpdateArchive,
            HookLabel, Inside, Locked, UpdateSteps, Archived,
            scriptVars, tlsVars, identityVars, releaseVars, serviceVars, hookVars, certbotVars
<1>1. CASE PanelWrites BY <1>1 DEF PanelWrites
<1>2. ASSUME NEW n \in Name, RenewCert(n) PROVE LockInv' BY <1>2 DEF RenewCert
<1>3. CASE RenewKey BY <1>3 DEF RenewKey
<1>4. CASE Certonly BY <1>4 DEF Certonly
<1>5. ASSUME NEW h \in Hook, HookStep(h) PROVE LockInv'
  <2>1. CASE HookLocks(h) BY <2>1 DEF HookLocks
  <2>2. CASE HookIgnores(h) BY <2>2, HookLeaves DEF HookIgnores
  <2>3. CASE ResolveCert(h) BY <2>3 DEF ResolveCert
  <2>4. CASE ResolveKey(h) BY <2>4 DEF ResolveKey
  <2>5. CASE InstallCert(h) BY <2>5 DEF InstallCert
  <2>6. CASE InstallKey(h) BY <2>6 DEF InstallKey
  <2>7. CASE HookReloads(h) BY <2>7, HookLeaves DEF HookReloads
  <2>8. CASE HookRefuses(h) BY <2>8, HookLeaves DEF HookRefuses
  <2> QED BY <1>5, <2>1, <2>2, <2>3, <2>4, <2>5, <2>6, <2>7, <2>8 DEF HookStep
<1>6. ASSUME NEW h \in Hook, HookFails(h) PROVE LockInv' BY <1>6, HookLeaves DEF HookFails
<1>7. ASSUME NEW j \in Jobs, NEW g \in Identity, Start(j, g) PROVE LockInv' BY <1>7 DEF Start
<1>8. CASE ScriptStep
  <2>1. CASE Locks
    <3>1. CASE Exit BY <2>1, <3>1, ScriptExits DEF Locks
    <3>2. CASE Go("stop") BY <2>1, <3>2 DEF Locks, Go, Exit
    <3> QED BY <2>1, <3>1, <3>2 DEF Locks
  <2>2. CASE Stops BY <2>2, ScriptMoves DEF Stops
  <2>3. CASE Archives BY <2>3 DEF Archives, Go
  <2>4. CASE Refused /\ Undoes BY <2>4, ScriptMoves DEF Undoes, Working
  <2>5. CASE Builds BY <2>5, ScriptMoves DEF Builds
  <2>6. CASE Migrates BY <2>6, ScriptMoves DEF Migrates
  <2>7. CASE Integrates BY <2>7, ScriptMoves DEF Integrates
  <2>8. CASE WritesEnv BY <2>8 DEF WritesEnv, Go
  <2>9. CASE Provisions BY <2>9 DEF Provisions, Go
  <2>10. CASE Relocks BY <2>10 DEF Relocks, Go
  <2>11. CASE SelfSignsCert BY <2>11 DEF SelfSignsCert, Go
  <2>12. CASE SelfSignsKey BY <2>12 DEF SelfSignsKey, Go
  <2>13. CASE Configures BY <2>13, ScriptMoves DEF Configures
  <2>14. CASE InstallsSite BY <2>14, ScriptMoves DEF InstallsSite
  <2>15. CASE Switches BY <2>15, ScriptMoves DEF Switches
  <2>16. CASE Completes BY <2>16, ScriptExits DEF Completes
  <2>17. CASE StopsToUndo BY <2>17 DEF StopsToUndo, Go
  <2>18. CASE Restores BY <2>18 DEF Restores, Undone, Go
  <2>19. CASE GoesBack BY <2>19, ScriptExits DEF GoesBack
  <2> QED BY <1>8, <2>1, <2>2, <2>3, <2>4, <2>5, <2>6, <2>7, <2>8, <2>9, <2>10, <2>11, <2>12,
             <2>13, <2>14, <2>15, <2>16, <2>17, <2>18, <2>19 DEF ScriptStep
<1>9. CASE ScriptFails
  <2>1. CASE Abandons BY <2>1, ScriptExits DEF Abandons
  <2>2. CASE Undoes BY <2>2, ScriptMoves DEF Undoes, Working
  <2>3. CASE RollbackDies BY <2>3, ScriptExits DEF RollbackDies
  <2> QED BY <1>9, <2>1, <2>2, <2>3 DEF ScriptFails
<1>10. CASE UNCHANGED vars BY <1>10 DEF vars
<1> QED BY <1>1, <1>2, <1>3, <1>4, <1>5, <1>6, <1>7, <1>8, <1>9, <1>10 DEF Next, Quiet

LEMMA LockInvariance == Spec => []LockInv
<1>1. LockInv /\ [Next]_vars => LockInv'
  BY LockStep
<1> QED BY LockInit, <1>1, PTL DEF Spec

\* No renewal is overwritten from the archive of update.sh: whatever fails, the pair in
\* config/tls stays the one the last hook has installed (update.sh:10, 143-169).
THEOREM RenewalsSurviveUpdates == Spec => UpdateKeepsTls
<1>1. ASSUME LockInv, [Next]_vars PROVE [job = "update" /\ deploy # "lock" => UNCHANGED tlsVars]_vars
  <2> SUFFICES ASSUME job = "update", deploy # "lock", Next PROVE UNCHANGED tlsVars
    BY <1>1
  <2>1. certLock \notin Hook /\ deploy \in UpdateSteps
    BY <1>1 DEF LockInv, ScriptOwner, UpdateOnly, UpdateSteps, Locked
  <2>2. \A h \in Hook : pc[h] \notin Inside
    BY <1>1, <2>1 DEF LockInv, HookOwner
  <2>3. ASSUME NEW h \in Hook, HookStep(h) \/ HookFails(h) PROVE UNCHANGED tlsVars
    BY <2>2, <2>3 DEF HookStep, HookFails, HookRefuses, HookLocks, HookIgnores, ResolveCert,
       ResolveKey, InstallCert, InstallKey, HookReloads, Inside, tlsVars
  <2>4. ASSUME ScriptStep \/ ScriptFails PROVE UNCHANGED tlsVars
    <3>1. CASE Restores
      BY <1>1, <3>1 DEF Restores, LockInv, UpdateArchive, Archived, UpdateSteps, tlsVars
    <3>2. CASE SelfSignsCert \/ SelfSignsKey
      BY <2>1, <3>2 DEF SelfSignsCert, SelfSignsKey, UpdateSteps
    <3> QED BY <2>4, <3>1, <3>2 DEF ScriptStep, ScriptFails, Locks, Stops, Archives, Abandons,
          Builds, Migrates, Integrates, WritesEnv, Provisions, Relocks, Configures,
          InstallsSite, Switches, Completes, Undoes, StopsToUndo, RollbackDies, GoesBack, tlsVars
  <2>5. ASSUME NEW j \in Jobs, NEW g \in Identity, Start(j, g) PROVE UNCHANGED tlsVars
    BY <2>5 DEF Start
  <2>6. ASSUME NEW n \in Name, RenewCert(n) PROVE UNCHANGED tlsVars
    BY <2>6 DEF RenewCert
  <2> QED BY <2>3, <2>4, <2>5, <2>6 DEF Next, PanelWrites, RenewKey, Certonly, Quiet, vars
<1> QED BY LockInvariance, <1>1, PTL DEF Spec, UpdateKeepsTls

------------------------------------------------------------------------------
(* Certificate and key.                                                    *)

\* A hook between its two mv has compared the pair it copies.
Copying == \A h \in Hook :
  /\ pc[h] = "installkey" => cert = Issued("acme", due[h], copied[h].key)
  /\ pc[h] = "reload" => Matches
SelfSigning == deploy = "selfkey" => cert = Issued("self", goal.name, scripts)
ArchivedPair == deploy \in Working \cup Undoing \cup {"acme"} => archive.cert = archive.key
Torn == (\E h \in Hook : pc[h] = "installkey") \/ deploy \in {"selfkey", "undo", "restore"}

PairInv == Copying /\ SelfSigning /\ ArchivedPair /\ (Torn \/ Matches)

\* The pair and what says of its origin stay as they are.
PairFrame == UNCHANGED <<tlsVars, hookVars>>

LEMMA PairInit == Init => PairInv
  BY DEF Init, PairInv, Copying, SelfSigning, ArchivedPair, Matches, Working, Undoing

LEMMA ScriptKeepsPair ==
  ASSUME PairInv, NEW l, Go(l), UNCHANGED archive, PairFrame,
         deploy \in Working \cup {"undo"}, l \in (Working \cup Undoing \cup {"acme"}) \ {"selfkey"},
         deploy \in {"selfkey", "undo"} => l \in {"undo", "restore"}
  PROVE  PairInv'
  BY DEF PairInv, Copying, SelfSigning, ArchivedPair, Torn, Matches, Working, Undoing, Go,
         PairFrame, tlsVars, hookVars

LEMMA ExitKeepsPair ==
  ASSUME PairInv, Exit, PairFrame, deploy \notin {"selfkey", "undo", "restore"}
  PROVE  PairInv'
  BY DEF PairInv, Copying, SelfSigning, ArchivedPair, Torn, Matches, Working, Undoing, Exit,
         PairFrame, tlsVars, hookVars

LEMMA HookLeavesPair ==
  ASSUME LockInv, PairInv, NEW h \in Hook, NEW ok, HookExits(h, ok), UNCHANGED tlsVars,
         pc[h] # "idle", pc[h] = "installkey" => h = "child" /\ ~ok
  PROVE  PairInv'
  BY DEF LockInv, HookVarsOK, HookOwner, ChildRuns, Inside, PairInv, Copying, SelfSigning,
         ArchivedPair, Torn, Matches, Working, Undoing, HookExits, tlsVars

LEMMA PairStep ==
  ASSUME LockInv, PairInv, [Next]_vars, Faults \cap {"hook", "rollback"} = {}
  PROVE  PairInv'
<1> USE DEF PairInv, Copying, SelfSigning, ArchivedPair, Torn, Matches, Working, Undoing,
            scriptVars, tlsVars, identityVars, releaseVars, serviceVars, hookVars, certbotVars
<1> USE DEF LockInv, HookVarsOK, HookOwner, ScriptOwner, ChildRuns, HookLabel, Inside, Locked
<1>1. CASE PanelWrites BY <1>1 DEF PanelWrites
<1>2. ASSUME NEW n \in Name, RenewCert(n) PROVE PairInv' BY <1>2 DEF RenewCert
<1>3. CASE RenewKey BY <1>3 DEF RenewKey
<1>4. CASE Certonly BY <1>4 DEF Certonly
<1>5. ASSUME NEW h \in Hook, HookStep(h) PROVE PairInv'
  <2>1. CASE HookLocks(h) BY <2>1 DEF HookLocks
  <2>2. CASE HookIgnores(h) BY <2>2, HookLeavesPair DEF HookIgnores
  <2>3. CASE ResolveCert(h) BY <2>3 DEF ResolveCert
  <2>4. CASE ResolveKey(h) BY <2>4 DEF ResolveKey
  <2>5. CASE InstallCert(h) BY <2>5 DEF InstallCert, PairCopied
  <2>6. CASE InstallKey(h) BY <2>6 DEF InstallKey
  <2>7. CASE HookReloads(h) BY <2>7, HookLeavesPair DEF HookReloads
  <2>8. CASE HookRefuses(h) BY <2>8, HookLeavesPair DEF HookRefuses
  <2> QED BY <1>5, <2>1, <2>2, <2>3, <2>4, <2>5, <2>6, <2>7, <2>8 DEF HookStep
<1>6. ASSUME NEW h \in Hook, HookFails(h) PROVE PairInv'
  <2>1. h = "child" BY <1>6 DEF HookFails
  <2> QED BY <1>6, <2>1, HookLeavesPair DEF HookFails
<1>7. ASSUME NEW j \in Jobs, NEW g \in Identity, Start(j, g) PROVE PairInv' BY <1>7 DEF Start
<1>8. CASE ScriptStep
  <2>1. CASE Locks BY <2>1, ExitKeepsPair DEF Locks, Go, PairFrame
  <2>2. CASE Stops BY <2>2 DEF Stops, Go
  <2>3. CASE Archives BY <2>3 DEF Archives, Go
  <2>4. CASE Refused /\ Undoes BY <2>4, ScriptKeepsPair DEF Undoes, PairFrame
  <2>5. CASE Builds BY <2>5, ScriptKeepsPair DEF Builds, PairFrame
  <2>6. CASE Migrates BY <2>6, ScriptKeepsPair DEF Migrates, PairFrame
  <2>7. CASE Integrates BY <2>7, ScriptKeepsPair DEF Integrates, PairFrame
  <2>8. CASE WritesEnv BY <2>8, ScriptKeepsPair DEF WritesEnv, PairFrame
  <2>9. CASE Provisions BY <2>9 DEF Provisions, Go
  <2>10. CASE Relocks BY <2>10, ScriptKeepsPair DEF Relocks, PairFrame
  <2>11. CASE SelfSignsCert BY <2>11 DEF SelfSignsCert, Go
  <2>12. CASE SelfSignsKey BY <2>12 DEF SelfSignsKey, Go
  <2>13. CASE Configures BY <2>13, ScriptKeepsPair DEF Configures, PairFrame
  <2>14. CASE InstallsSite BY <2>14, ScriptKeepsPair DEF InstallsSite, PairFrame
  <2>15. CASE Switches BY <2>15, ScriptKeepsPair DEF Switches, PairFrame
  <2>16. CASE Completes BY <2>16, ExitKeepsPair DEF Completes, PairFrame
  <2>17. CASE StopsToUndo BY <2>17, ScriptKeepsPair DEF StopsToUndo, PairFrame
  <2>18. CASE Restores BY <2>18 DEF Restores, Undone, Go
  <2>19. CASE GoesBack BY <2>19, ExitKeepsPair DEF GoesBack, PairFrame
  <2> QED BY <1>8, <2>1, <2>2, <2>3, <2>4, <2>5, <2>6, <2>7, <2>8, <2>9, <2>10, <2>11, <2>12,
             <2>13, <2>14, <2>15, <2>16, <2>17, <2>18, <2>19 DEF ScriptStep
<1>9. CASE ScriptFails
  <2>1. CASE Abandons BY <2>1, ExitKeepsPair DEF Abandons, PairFrame
  <2>2. CASE Undoes BY <2>2, ScriptKeepsPair DEF Undoes, PairFrame
  <2>3. CASE RollbackDies BY <2>3 DEF RollbackDies
  <2> QED BY <1>9, <2>1, <2>2, <2>3 DEF ScriptFails
<1>10. CASE UNCHANGED vars BY <1>10 DEF vars
<1> QED BY <1>1, <1>2, <1>3, <1>4, <1>5, <1>6, <1>7, <1>8, <1>9, <1>10 DEF Next, Quiet

\* config/tls holds a certificate with its own key whenever nobody is at work on it, on every
\* installation where the renewal's hook is not killed and an archive can be read back.
THEOREM CertificateHasItsKey ==
  ASSUME Faults \cap {"hook", "rollback"} = {}
  PROVE  Spec => []PairsMatch
<1>1. LockInv /\ PairInv /\ [Next]_vars => PairInv'
  BY PairStep
<1>2. LockInv /\ PairInv => PairsMatch
  BY DEF LockInv, HookOwner, Inside, PairInv, Torn, PairsMatch
<1> QED BY LockInvariance, PairInit, <1>1, <1>2, PTL DEF Spec
==============================================================================
