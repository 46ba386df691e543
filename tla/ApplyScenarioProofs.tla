------------------------- MODULE ApplyScenarioProofs -------------------------
(***************************************************************************)
(* What ApplyPipeline promises where its handlers do not meet: table,      *)
(* formal file and backups agree when no two processes change the same row *)
(* (OwnRows), and an operation gives the previous file back when failures  *)
(* can be undone on the spot (Recoverable).  Both conditions, and the      *)
(* invariants, are in module ApplyInvariant.                               *)
(***************************************************************************)
EXTENDS ApplyPipelineProofs

------------------------------------------------------------------------------
(* Frames: which steps change what.                                        *)

\* Only p's session, step and lock change.
Alone(p) == Moves(p) /\ \A q \in Proc \ {p} : seen'[q] = seen[q]

\* A step of p leaves the sessions of the others alone.
LEMMA StepAlone == ASSUME IInv, NEW p \in Proc, Step(p) PROVE Alone(p)
<1>0. /\ pc \in [Proc -> Label] /\ task \in [Proc -> Task] /\ seen \in [Proc -> Session]
      /\ want \in [Proc -> Session] /\ prev \in [Proc -> [cfg : File, state : Table]]
      /\ pc[p] \in Critical <=> holder = p
      /\ p # NoProc
  BY ProcAssumption DEF IInv, TypeOK, LockOwner
<1> USE <1>0 DEF Alone, Moves, Critical, Goto, dbVars, fileVars, localVars, Leave, Expire, Raise,
                 Return, Continue, Rollback, EndTransaction, MayWrite, Fail, BackedUp
<1>1. CASE Flush(p)
  BY <1>1 DEF Flush
<1>2. CASE FlushTimeout(p)
  BY <1>2 DEF FlushTimeout
<1>3. CASE Settle(p)
  <2>1. writer = p /\ pending = nodes
    BY <1>3 DEF Settle, IInv, ProcInv, SessionInv
  <2> QED BY <1>3, <2>1 DEF Settle
<1>4. CASE AcquireLock(p)
  BY <1>4 DEF AcquireLock, AfterLock
<1>5. CASE LockTimeout(p)
  BY <1>5 DEF LockTimeout
<1>6. CASE SelectBackup(p)
  BY <1>6 DEF SelectBackup
<1>7. CASE Compare(p)
  BY <1>7 DEF Compare
<1>8. CASE Stage(p)
  BY <1>8 DEF Stage
<1>9. CASE StageFails(p)
  BY <1>9 DEF StageFails
<1>10. CASE Validate(p)
  BY <1>10 DEF Validate
<1>11. CASE Reject(p)
  BY <1>11 DEF Reject
<1>12. CASE CheckUnavailable(p)
  BY <1>12 DEF CheckUnavailable
<1>13. CASE CopyConfig(p)
  BY <1>13 DEF CopyConfig, NoteCurrent
<1>14. CASE NothingToCopy(p)
  BY <1>14 DEF NothingToCopy
<1>15. CASE WriteSidecar(p)
  BY <1>15 DEF WriteSidecar
<1>16. CASE BackupFails(p)
  BY <1>16 DEF BackupFails
<1>17. CASE ReplaceNodes(p)
  BY <1>17 DEF ReplaceNodes
<1>18. CASE Install(p)
  BY <1>18 DEF Install
<1>19. CASE InstallFails(p)
  BY <1>19 DEF InstallFails
<1>20. CASE Restart(p)
  BY <1>20 DEF Restart
<1>21. CASE RestartFailure(p)
  BY <1>21 DEF RestartFailure
<1>22. CASE Commit(p)
  BY <1>22 DEF Commit
<1>23. CASE CommitFails(p)
  BY <1>23 DEF CommitFails
<1>24. CASE Unmark(p)
  BY <1>24 DEF Unmark
<1>25. CASE Revert(p)
  BY <1>25 DEF Revert
<1>26. CASE Rerestart(p)
  BY <1>26 DEF Rerestart
<1>27. CASE RecordFailure(p)
  BY <1>27 DEF RecordFailure
<1>28. CASE Abort(p)
  BY <1>28 DEF Abort
<1> QED BY <1>1, <1>2, <1>3, <1>4, <1>5, <1>6, <1>7, <1>8, <1>9, <1>10, <1>11, <1>12, <1>13,
           <1>14, <1>15, <1>16, <1>17, <1>18, <1>19, <1>20, <1>21, <1>22, <1>23, <1>24, <1>25,
           <1>26, <1>27, <1>28 DEF Step

\* Starting a handler changes its session only; the services and the files stay.
Starts(p) ==
  /\ pc[p] = "idle" /\ pc'[p] \in {"flush", "lock"}
  /\ \A q \in Proc \ {p} : /\ pc'[q] = pc[q] /\ task'[q] = task[q] /\ seen'[q] = seen[q]
                           /\ want'[q] = want[q]
  /\ UNCHANGED <<dbVars, holder, fileVars, running, prev>>

\* A handler that starts touches nothing that is shared.
LEMMA StartFrame == ASSUME IInv, NEW p \in Req \cup Cli, Start(p) PROVE Starts(p) /\ api' = api
<1>0. p \in Proc /\ pc \in [Proc -> Label] /\ task \in [Proc -> Task] /\ seen \in [Proc -> Session]
      /\ want \in [Proc -> Session]
  BY DEF IInv, TypeOK, Proc, Api
<1>1. CASE \E k \in Task : \E S, w : Edit(p, k, S, w)
  BY <1>0, <1>1 DEF Starts, Edit, Begin, Goto
<1>2. CASE \E K : Operate(p, K)
  BY <1>0, <1>2 DEF Starts, Operate, Begin, Goto
<1>3. (\E k \in Task : \E S, w : Edit(p, k, S, w)) \/ \E K : Operate(p, K)
  BY DEF Task, Edits, Start, CreateNode, UpdateNode, SetEnabled, RegenerateSecret, DeleteNode,
         RegenerateAll, UpdateSettings, Post, Command
<1> QED BY <1>1, <1>2, <1>3

\* Nor does the startup of the API.
LEMMA StartApiFrame == ASSUME IInv, StartApi PROVE Starts(Boot)
<1>0. /\ pc \in [Proc -> Label] /\ task \in [Proc -> Task] /\ Boot \in Proc
  BY DEF IInv, TypeOK, Proc, Api
<1> QED BY <1>0 DEF Starts, StartApi, Goto

\* Every transition: a step of one process, a start, a crash, or nothing but `running'.
LEMMA NextCases ==
  ASSUME IInv, [Next]_vars
  PROVE  \/ \E p \in Proc : Step(p)
         \/ \E p \in Proc : Starts(p)
         \/ \E S \in SUBSET Proc : Crash(S)
         \/ UNCHANGED <<dbVars, holder, fileVars, pc, localVars>>
  BY StartFrame, StartApiFrame
     DEF Next, vars, CrashApi, CrashCli, DataPlaneRestarts, Quiet, Proc, Api

------------------------------------------------------------------------------
(* Backups.                                                                *)

\* The backups change only while the one in progress is written.
LEMMA BackupFrame ==
  ASSUME NEW p \in Proc, Step(p), ~CopyConfig(p), ~WriteSidecar(p),
         BackupFails(p) => pc[p] # "sidecar"
  PROVE  backups' = backups /\ pc[p] # "sidecar"
<1>1. BackupFails(p) => backups' = backups /\ pc[p] # "sidecar"
  BY DEF BackupFails
<1> QED BY <1>1
        DEF Step, fileVars, Flush, FlushTimeout, Settle, AcquireLock, LockTimeout, SelectBackup,
            Compare, Stage, StageFails, Validate, Reject, CheckUnavailable, NothingToCopy,
            ReplaceNodes, Install, InstallFails, Restart, RestartFailure, Commit, CommitFails,
            Unmark, Revert, Rerestart, RecordFailure, Abort

\* What the backup directory holds after each of its three changes.
LEMMA CopyAdds ==
  ASSUME IInv, NEW p \in Proc, CopyConfig(p)
  PROVE  /\ DOMAIN backups' = 1 .. Len(backups) + 1
         /\ backups'[1] = [cfg |-> config, state |-> NoSidecar]
         /\ \A i \in DOMAIN backups' \ {1} : i - 1 \in DOMAIN backups /\ backups'[i] = backups[i - 1]
<1>1. backups \in Seq(Backup) /\ backups' = <<[cfg |-> config, state |-> NoSidecar]>> \o backups
  BY DEF IInv, TypeOK, CopyConfig
<1> QED BY <1>1

\* The second file completes the newest backup with the committed table.
LEMMA SidecarCompletes ==
  ASSUME IInv, NEW p \in Proc, WriteSidecar(p)
  PROVE  /\ DOMAIN backups' \subseteq DOMAIN backups
         /\ prev[p] = [cfg |-> config, state |-> nodes]
         /\ \A i \in DOMAIN backups' : backups'[i] = IF i = 1 THEN prev[p] ELSE backups[i]
<1> DEFINE written == [backups EXCEPT ![1].state = prev[p].state]
           n == IF Len(written) < BackupLimit THEN Len(written) ELSE BackupLimit
<1>1. /\ backups \in Seq(Backup) /\ backups # << >>
      /\ prev[p] = [cfg |-> config, state |-> nodes]
      /\ backups[1] = [cfg |-> config, state |-> NoSidecar]
  BY DEF IInv, TypeOK, ProcInv, SourceInv, WriteSidecar
<1>2. written = [i \in 1 .. Len(backups) |-> IF i = 1 THEN prev[p] ELSE backups[i]]
  BY <1>1
<1>3. nodes \in Table /\ config \in Config
  BY <1>1 DEF IInv, TypeOK, ProcInv, SourceInv, WriteSidecar, File
<1>4. written \in Seq(Backup) /\ Len(written) = Len(backups)
  <2>1. prev[p] \in Backup
    BY <1>1, <1>3 DEF Backup
  <2> QED BY <1>1, <1>2, <2>1
<1> HIDE DEF written
<1>5. n \in 0 .. Len(backups)
  BY <1>1, <1>4, LimitAssumption
<1>6. backups' = SubSeq(written, 1, n)
  BY DEF WriteSidecar, Prune, written
<1>7. /\ DOMAIN backups' = 1 .. n
      /\ \A i \in 1 .. n : backups'[i] = written[i]
  BY <1>4, <1>5, <1>6
<1> HIDE DEF n
<1>8. Len(backups) \in Nat /\ DOMAIN backups = 1 .. Len(backups) /\ 1 .. n \subseteq 1 .. Len(backups)
  BY <1>1, <1>5
<1>9. \A i \in 1 .. n : backups'[i] = IF i = 1 THEN prev[p] ELSE backups[i]
  BY <1>2, <1>7, <1>8
<1> QED BY <1>1, <1>7, <1>8, <1>9

\* A failed second file takes the first one away again; a failed pruning leaves a backup that
\* is complete.
LEMMA FailureRemoves ==
  ASSUME IInv, NEW p \in Proc, BackupFails(p), pc[p] = "sidecar"
  PROVE  /\ prev[p] = [cfg |-> config, state |-> nodes]
         /\ \A i \in DOMAIN backups' :
              backups'[i] = prev[p] \/ \E j \in DOMAIN backups \ {1} : backups'[i] = backups[j]
<1> DEFINE s == [backups EXCEPT ![1].state = prev[p].state]
<1>1. /\ backups \in Seq(Backup) /\ backups # << >>
      /\ prev[p] = [cfg |-> config, state |-> nodes]
      /\ backups[1] = [cfg |-> config, state |-> NoSidecar]
  BY DEF IInv, TypeOK, ProcInv, SourceInv
<1>2. CASE backups' = Tail(backups)
  <2>1. \A i \in DOMAIN backups' : i + 1 \in DOMAIN backups \ {1} /\ backups'[i] = backups[i + 1]
    BY <1>1, <1>2
  <2> QED BY <1>1, <2>1
<1>3. CASE backups' \in PrunedInPart(s)
  <2>1. s \in Seq(Backup) /\ s # << >>
    BY Completed
  <2>2. DOMAIN s = DOMAIN backups /\ \A i \in DOMAIN s : s[i] = IF i = 1 THEN prev[p] ELSE backups[i]
    BY <1>1
  <2> HIDE DEF s
  <2> DEFINE n == IF Len(s) < BackupLimit THEN Len(s) ELSE BackupLimit
  <2>3. n \in 1 .. Len(s) /\ Prune(s) = SubSeq(s, 1, n)
    BY <2>1, LimitAssumption DEF Prune
  <2> HIDE DEF n
  <2>4. Prune(s) \in Seq(Backup) /\ Len(Prune(s)) = n /\ \A i \in 1 .. n : Prune(s)[i] = s[i]
    BY <2>1, <2>3
  <2>5. PICK k \in n + 1 .. Len(s) + 1 : backups' = Prune(s) \o SubSeq(s, k, Len(s))
    BY <1>3, <2>4 DEF PrunedInPart
  <2> DEFINE u == SubSeq(s, k, Len(s))
             m == Len(s) + 1 - k
  <2>6. m \in Nat /\ u \in Seq(Backup) /\ Len(u) = m /\ \A i \in 1 .. m : u[i] = s[k + i - 1]
    BY <2>1, <2>3, <2>5
  <2> HIDE DEF u
  <2>7. \A i \in DOMAIN backups' :
          \/ i \in 1 .. n /\ backups'[i] = s[i]
          \/ i - n \in 1 .. m /\ backups'[i] = s[k + (i - n) - 1]
    <3> DEFINE q == Prune(s)
    <3>1. backups' = q \o u /\ n \in Nat
      BY <2>3, <2>5 DEF u
    <3>2. q \in Seq(Backup) /\ Len(q) = n
      BY <2>4
    <3> HIDE DEF q
    <3>3. DOMAIN backups' = 1 .. n + m
      BY <2>6, <3>1, <3>2
    <3>4. \A i \in 1 .. n : backups'[i] = q[i]
      BY <2>6, <3>1, <3>2
    <3>5. \A i \in n + 1 .. n + m : backups'[i] = u[i - n]
      BY <2>6, <3>1, <3>2
    <3>6. \A i \in n + 1 .. n + m : i - n \in 1 .. m
      BY <2>6, <3>1
    <3>7. \A i \in 1 .. n + m : i \in 1 .. n \/ i \in n + 1 .. n + m
      BY <2>6, <3>1
    <3> HIDE DEF m
    <3> QED BY <2>4, <2>6, <3>3, <3>4, <3>5, <3>6, <3>7 DEF q
  <2>8. DOMAIN s = 1 .. Len(s) /\ Len(s) \in Nat
    BY <2>1
  <2>9. ASSUME NEW i \in DOMAIN backups' PROVE \E j \in DOMAIN s : backups'[i] = s[j]
    <3>1. CASE i \in 1 .. n /\ backups'[i] = s[i]
      BY <2>3, <2>8, <3>1
    <3>2. CASE i - n \in 1 .. m /\ backups'[i] = s[k + (i - n) - 1]
      <4>1. k + (i - n) - 1 \in 1 .. Len(s)
        BY <2>3, <2>5, <2>8, <3>2
      <4> QED BY <2>8, <3>2, <4>1
    <3> QED BY <2>7, <3>1, <3>2
  <2> QED BY <1>1, <2>2, <2>9
<1> QED BY <1>2, <1>3 DEF BackupFails

\* While nothing crashes, a backup without its sidecar is the newest, and it is being written.
LEMMA RestorableStep ==
  ASSUME "crash" \notin Faults, IInv, IInv', BackupsRestorable, [Next]_vars
  PROVE  BackupsRestorable'
<1>1. CASE \E p \in Proc : Step(p)
  <2>1. PICK p \in Proc : Step(p)
    BY <1>1
  <2>2. \A q \in Proc : pc[q] = "sidecar" => (q = p => holder = p) /\ (holder = p => q = p)
    BY DEF IInv, LockOwner, Critical
  <2>3. \A q \in Proc \ {p} : pc'[q] = pc[q]
    BY <2>1, StepAlone DEF Alone, Moves
  <2>4. CASE CopyConfig(p)
    <3>1. holder = p /\ pc[p] = "backup" /\ pc'[p] = "sidecar"
      BY <2>4 DEF CopyConfig, Goto, IInv, TypeOK, LockOwner, Critical
    <3>2. \A i \in DOMAIN backups : backups[i].state # NoSidecar
      BY <2>2, <3>1 DEF BackupsRestorable
    <3> QED BY <2>4, <3>1, <3>2, CopyAdds DEF BackupsRestorable
  <2>5. CASE WriteSidecar(p)
    <3>1. prev[p].state # NoSidecar
      <4>1. prev[p].state \in Table
        BY DEF IInv, TypeOK
      <4> QED BY <4>1, ValueAssumption
    <3>2. \A i \in DOMAIN backups' : backups'[i].state # NoSidecar
      BY <2>5, <3>1, SidecarCompletes DEF BackupsRestorable
    <3> QED BY <3>2 DEF BackupsRestorable
  <2>6. CASE BackupFails(p) /\ pc[p] = "sidecar"
    <3>1. prev[p].state # NoSidecar
      <4>1. prev[p].state \in Table
        BY DEF IInv, TypeOK
      <4> QED BY <4>1, ValueAssumption
    <3>2. \A i \in DOMAIN backups \ {1} : backups[i].state # NoSidecar
      BY DEF BackupsRestorable
    <3> QED BY <2>6, <3>1, <3>2, FailureRemoves DEF BackupsRestorable
  <2>7. CASE backups' = backups /\ pc[p] # "sidecar"
    BY <2>3, <2>7 DEF BackupsRestorable
  <2> QED BY <2>1, <2>4, <2>5, <2>6, <2>7, BackupFrame
<1>2. CASE \E p \in Proc : Starts(p)
  BY <1>2 DEF Starts, fileVars, BackupsRestorable
<1>3. CASE UNCHANGED <<dbVars, holder, fileVars, pc, localVars>>
  BY <1>3 DEF fileVars, BackupsRestorable
<1> QED BY <1>1, <1>2, <1>3, NextCases DEF Crash

\* As long as no process is killed in the middle of a backup, every listed backup but the
\* one being written can be restored (backup_current removes both files when it fails).
THEOREM BackupsStayRestorable ==
  ASSUME "crash" \notin Faults
  PROVE  Spec => []BackupsRestorable
<1>1. Init => BackupsRestorable
  BY DEF Init, BackupsRestorable
<1>2. IInv /\ IInv' /\ BackupsRestorable /\ [Next]_vars => BackupsRestorable'
  BY RestorableStep
<1> QED BY <1>1, <1>2, Invariance, PTL DEF Spec

------------------------------------------------------------------------------
(* The formal file.                                                        *)

\* Where a step leads says which handler p runs.
LEMMA StepPath ==
  ASSUME IInv, NEW p \in Proc, Step(p), FormalSource(p)
  PROVE  /\ pc'[p] \in {"compare", "unmark"} => task'[p] = "reconcile"
         /\ pc'[p] \in {"commit", "revert"} => task'[p] # "restart"
<1>0. pc \in [Proc -> Label] /\ task \in [Proc -> Task] /\ PathInv(p)
  BY DEF IInv, TypeOK, ProcInv, SessionInv
<1> QED BY <1>0 DEF FormalSource, PathInv, Rollback, EndTransaction, Expire, Step, Label, Goto,
     localVars, Leave, Raise, Return, Continue,
         Fail, BackedUp, AfterLock,
           Flush, FlushTimeout, Settle, AcquireLock, LockTimeout, SelectBackup, Compare, Stage,
           StageFails, Validate, Reject, CheckUnavailable, WriteSidecar, BackupFails, CopyConfig,
           NothingToCopy,
           ReplaceNodes, Install, InstallFails, Restart, RestartFailure, Commit, CommitFails,
           Unmark, Revert, Rerestart, RecordFailure, Abort

\* An operation takes its rollback source when it has not touched the formal file yet.
LEMMA SourceStep ==
  ASSUME IInv, IInv', NEW p \in Proc, Step(p), \A q \in Proc : FormalSource(q)
  PROVE  \A q \in Proc : FormalSource(q)'
<1>0. /\ pc \in [Proc -> Label] /\ task \in [Proc -> Task]
      /\ prev \in [Proc -> [cfg : File, state : Table]]
      /\ \A q \in Proc : pc[q] \in Critical => holder = q
      /\ ProcInv(p)
  BY DEF IInv, TypeOK, LockOwner
<1>1. ASSUME NEW q \in Proc \ {p} PROVE FormalSource(q)'
  <2>1. pc'[q] = pc[q] /\ task'[q] = task[q] /\ prev'[q] = prev[q]
    BY <1>1, StepAlone DEF Alone, Moves
  <2>2. Before(q) => config' = config
    <3>1. Before(q) => holder = q
      BY <1>0 DEF Before, Critical
    <3> QED BY <1>1, <3>1, StepAlone DEF Alone, Moves
  <2>3. Before(q)' = Before(q)
    BY <2>1 DEF Before
  <2> QED BY <2>1, <2>2, <2>3 DEF FormalSource
<1>2. FormalSource(p)'
  <2>0. /\ pc'[p] \in {"compare", "unmark"} => task'[p] = "reconcile"
        /\ pc'[p] \in {"commit", "revert"} => task'[p] # "restart"
    BY StepPath
  <2>1. CASE CopyConfig(p)
    BY <1>0, <2>0, <2>1 DEF FormalSource, CopyConfig, NoteCurrent
  <2>2. CASE Validate(p) /\ task[p] = "prepare"
    BY <1>0, <2>0, <2>2 DEF FormalSource, Before, Validate, Goto, Return, Leave, Expire,
         Continue, fileVars
  <2>3. CASE NothingToCopy(p)
    <3>1. prev[p].cfg = NoFile /\ config = NoFile /\ config' = config
      BY <1>0, <2>3 DEF NothingToCopy, ProcInv, SourceInv, NoSource, fileVars
    <3>2. prev'[p] = prev[p] \/ pc'[p] = "idle"
      BY <1>0, <2>3 DEF NothingToCopy, BackedUp, Return, Leave, Expire, Continue, Goto, localVars
    <3> QED BY <2>0, <3>1, <3>2 DEF FormalSource, Before
  <2>4. CASE ~Before(p)'
    BY <2>0, <2>4 DEF FormalSource
  <2>5. CASE Before(p) /\ config' = config /\ prev' = prev
    BY <2>0, <2>5 DEF FormalSource
  <2>6. ASSUME ~CopyConfig(p), ~(Validate(p) /\ task[p] = "prepare"), ~NothingToCopy(p)
        PROVE  ~Before(p)' \/ (Before(p) /\ config' = config /\ prev' = prev)
    BY <1>0, <2>6 DEF FormalSource,
           Step, Before, Goto, dbVars, fileVars, localVars, Leave, Expire, Raise, Return, Continue,
           Rollback, EndTransaction, Fail, BackedUp, AfterLock,
           Flush, FlushTimeout, Settle, AcquireLock, LockTimeout, SelectBackup, Compare, Stage,
           StageFails, Validate, Reject, CheckUnavailable, WriteSidecar, BackupFails,
           ReplaceNodes, Install, InstallFails, Restart, RestartFailure, Commit, CommitFails,
           Unmark, Revert, Rerestart, RecordFailure, Abort
  <2> QED BY <2>1, <2>2, <2>3, <2>4, <2>5, <2>6
<1> QED BY <1>1, <1>2

\* It holds under every fault and crash.
LEMMA SourceInvariance == Spec => [](\A q \in Proc : FormalSource(q))
<1>1. Init => \A q \in Proc : FormalSource(q)
  BY DEF Init, FormalSource, Before
<1>2. IInv /\ IInv' /\ (\A q \in Proc : FormalSource(q)) /\ [Next]_vars
      => (\A q \in Proc : FormalSource(q))'
  <2> SUFFICES ASSUME IInv, IInv', \A q \in Proc : FormalSource(q), [Next]_vars
               PROVE  \A q \in Proc : FormalSource(q)'
    OBVIOUS
  <2>1. CASE \E p \in Proc : Step(p)
    BY <2>1, SourceStep
  <2>2. CASE \E p \in Proc : Starts(p)
    BY <2>2 DEF Starts, FormalSource, Before, fileVars
  <2>3. CASE \E S \in SUBSET Proc : Crash(S)
    BY <2>3 DEF Crash, FormalSource, Before, fileVars
  <2>4. CASE UNCHANGED <<dbVars, holder, fileVars, pc, localVars>>
    BY <2>4 DEF fileVars, localVars, FormalSource, Before
  <2> QED BY <2>1, <2>2, <2>3, <2>4, NextCases
<1> QED BY <1>1, <1>2, Invariance, PTL DEF Spec

\* With the operation lock, the file that counts is that of its holder.
LEMMA PublishedIs ==
  ASSUME IInv
  PROVE  /\ \A p \in Proc : Uncommitted(p) => holder = p /\ Published = prev[p].cfg
         /\ (\A p \in Proc : ~Uncommitted(p)) => Published = config
<1>1. \A p \in Proc : Uncommitted(p) => holder = p
  BY DEF IInv, LockOwner, Uncommitted, Critical
<1> QED BY <1>1 DEF Published

\* The same, after the step.
LEMMA PublishedThen ==
  ASSUME IInv'
  PROVE  /\ \A p \in Proc : Uncommitted(p)' => holder' = p /\ Published' = prev'[p].cfg
         /\ (\A p \in Proc : ~Uncommitted(p)') => Published' = config'
<1>1. \A p \in Proc : Uncommitted(p)' => holder' = p
  BY DEF IInv, LockOwner, Uncommitted, Critical
<1> QED BY <1>1 DEF Published

\* What a step of p does to the file that counts while p has the operation lock.
LEMMA HolderPublishes ==
  ASSUME Reversible, IInv, NEW p \in Proc, Step(p), FormalSource(p), ~Commit(p)
  PROVE  \/ Uncommitted(p) /\ Uncommitted(p)' /\ prev'[p].cfg = prev[p].cfg
         \/ Uncommitted(p) /\ ~Uncommitted(p)' /\ config' = prev[p].cfg
         \/ ~Uncommitted(p) /\ Uncommitted(p)' /\ prev'[p].cfg = config
         \/ ~Uncommitted(p) /\ ~Uncommitted(p)' /\ config' = config
<1>0. /\ pc \in [Proc -> Label] /\ task \in [Proc -> Task]
      /\ prev \in [Proc -> [cfg : File, state : Table]]
      /\ ProcInv(p)
  BY DEF IInv, TypeOK
<1> USE <1>0 DEF Uncommitted, Goto, dbVars, fileVars, localVars, Leave, Expire, Raise,
                 Return, Continue, Rollback, EndTransaction, Fail, BackedUp
<1>1. CASE Install(p)
  BY <1>1 DEF Install, FormalSource, Before, ProcInv, SessionInv, PathInv
<1>2. CASE InstallFails(p)
  BY <1>2 DEF InstallFails, FormalSource, Before, Reversible
<1>3. CASE Revert(p)
  BY <1>3 DEF Revert, Reversible, FormalSource
<1>4. CASE Restart(p) \/ RestartFailure(p) \/ CommitFails(p)
  BY <1>4 DEF Restart, RestartFailure, CommitFails, FormalSource
<1>5. CASE AcquireLock(p)
  BY <1>5 DEF AcquireLock, AfterLock
<1>6. ASSUME ~Install(p), ~InstallFails(p), ~Revert(p),
             ~(Restart(p) \/ RestartFailure(p) \/ CommitFails(p)), ~AcquireLock(p)
      PROVE  ~Uncommitted(p) /\ ~Uncommitted(p)' /\ config' = config
  BY <1>6 DEF Step, Flush, FlushTimeout, Settle, LockTimeout, SelectBackup, Compare, Stage,
           StageFails, Validate, Reject, CheckUnavailable, WriteSidecar, BackupFails, CopyConfig,
           NothingToCopy,
           ReplaceNodes, Unmark, Rerestart, RecordFailure, Abort
<1> QED BY <1>1, <1>2, <1>3, <1>4, <1>5, <1>6

\* Only the commit changes the file that counts.
LEMMA PublishedStep ==
  ASSUME Reversible, IInv, IInv', \A q \in Proc : FormalSource(q), [Next]_vars,
         \A p \in Proc : ~Commit(p), \A S \in SUBSET Proc : ~Crash(S)
  PROVE  Published' = Published
<1>0. \A q \in Proc : ~Uncommitted(q) \/ holder = q
  BY PublishedIs
<1>1. CASE \E p \in Proc : Step(p)
  <2>1. PICK p \in Proc : Step(p)
    BY <1>1
  <2>2. Alone(p)
    BY <2>1, StepAlone
  <2>3. \A q \in Proc \ {p} : Uncommitted(q)' = Uncommitted(q) /\ prev'[q] = prev[q]
    BY <2>2 DEF Alone, Moves, Uncommitted
  <2>4. CASE \E q \in Proc \ {p} : Uncommitted(q)
    <3>1. PICK q \in Proc \ {p} : Uncommitted(q)
      BY <2>4
    <3>2. Published = prev[q].cfg /\ Published' = prev'[q].cfg
      BY <2>3, <3>1, PublishedIs, PublishedThen
    <3> QED BY <2>3, <3>2
  <2>5. CASE \A q \in Proc \ {p} : ~Uncommitted(q)
    <3>1. Published = IF Uncommitted(p) THEN prev[p].cfg ELSE config
      BY <2>5, PublishedIs
    <3>2. Published' = IF Uncommitted(p)' THEN prev'[p].cfg ELSE config'
      BY <2>3, <2>5, PublishedThen
    <3> QED BY <2>1, <3>1, <3>2, HolderPublishes
  <2> QED BY <2>4, <2>5
<1>2. CASE \E p \in Proc : Starts(p)
  <2>1. PICK p \in Proc : Starts(p)
    BY <1>2
  <2>2. ~Uncommitted(p) /\ ~Uncommitted(p)' /\ prev' = prev /\ config' = config /\ holder' = holder
    BY <2>1 DEF Starts, Uncommitted, fileVars
  <2>3. \A q \in Proc \ {p} : Uncommitted(q)' = Uncommitted(q)
    BY <2>1 DEF Starts, Uncommitted
  <2> QED BY <2>2, <2>3 DEF Published
<1>3. CASE UNCHANGED <<dbVars, holder, fileVars, pc, localVars>>
  BY <1>3 DEF Published, Uncommitted, fileVars, localVars
<1> QED BY <1>1, <1>2, <1>3, NextCases

\* When every failure can be undone on the spot, the formal file changes for good only in the
\* step that commits: an operation that fails has given the previous file back, also when
\* requests meet on a node (safe_apply, restore_backup, prepare_initial_config).
THEOREM FailedOperationsLeaveFile ==
  ASSUME Recoverable
  PROVE  Spec => FailedApplyLeavesFile
<1>1. \A p \in Proc : Commit(p) /\ IInv => pc[p] = "commit" /\ pc'[p] \in {"idle", "unmark"}
  BY DEF Commit, Continue, Return, Leave, Goto, IInv, TypeOK
<1>2. \A S \in SUBSET Proc : ~Crash(S)
  BY DEF Crash, Recoverable
<1>3. /\ IInv /\ IInv' /\ (\A q \in Proc : FormalSource(q)) /\ [Next]_vars
      => [Published' # Published =>
            \E p \in Proc : pc[p] = "commit" /\ pc'[p] \in {"idle", "unmark"}]_vars
  BY <1>1, <1>2, PublishedStep DEF Recoverable
<1> QED BY <1>3, Invariance, SourceInvariance, PTL DEF Spec, FailedApplyLeavesFile

------------------------------------------------------------------------------
(* Sessions.                                                               *)

\* Only a commit changes the committed table, and only where its transaction did.
LEMMA TableFrame ==
  ASSUME IInv, NEW p \in Proc, Step(p), ~Commit(p)
  PROVE  nodes' = nodes
<1>1. Settle(p) => nodes' = nodes
  BY DEF Settle, IInv, ProcInv, SessionInv
<1> QED BY <1>1
        DEF Step, dbVars, Rollback, EndTransaction, Continue, Raise, Return, Fail,
           Flush, FlushTimeout, AcquireLock, LockTimeout, SelectBackup, Compare, Stage,
           StageFails, Validate, Reject, CheckUnavailable, WriteSidecar, BackupFails, CopyConfig,
           NothingToCopy,
           ReplaceNodes, Install, InstallFails, Restart, RestartFailure, CommitFails,
           Unmark, Revert, Rerestart, RecordFailure, Abort

\* A commit changes rows that its process may touch.
LEMMA CommitsOwnRows ==
  ASSUME NEW p \in Proc, Commit(p), CurrentInv(p), NEW n \in Node, nodes'[n] # nodes[n]
  PROVE  n \in Touched(p)
<1>1. writer = p /\ nodes' = pending
  BY DEF Commit, Rows
<1>2. want[p][n] # Unloaded
  BY <1>1 DEF CurrentInv, ChangesInv
<1> QED BY <1>2 DEF CurrentInv, LoadedInv

\* A session keeps what it knows while another process moves.
LEMMA OthersCurrent ==
  ASSUME OwnRows, IInv, NEW p \in Proc, Step(p), CurrentInv(p),
         NEW q \in Proc \ {p}, CurrentInv(q)
  PROVE  CurrentInv(q)'
<1>1. /\ pc'[q] = pc[q] /\ task'[q] = task[q] /\ seen'[q] = seen[q] /\ want'[q] = want[q]
      /\ (writer' = writer /\ pending' = pending) \/ (writer # q /\ writer' # q)
      /\ nodes' = nodes \/ writer # q
  BY StepAlone, ProcAssumption DEF Alone, Moves
<1>2. \A n \in Touched(q) : nodes'[n] = nodes[n]
  <2>1. ASSUME NEW n \in Touched(q), nodes'[n] # nodes[n] PROVE FALSE
    <3>1. n \in Node /\ n \in Touched(p)
      BY <2>1, TableFrame, CommitsOwnRows DEF Touched
    <3> QED BY <2>1, <3>1 DEF OwnRows, Touched
  <2> QED BY <2>1
<1>3. LoadedInv(q)'
  BY <1>1, <1>2 DEF CurrentInv, LoadedInv
<1>4. WriterInv(q)' /\ ChangesInv(q)' /\ (InTransaction(q)' => writer' = q)
  BY <1>1 DEF CurrentInv, WriterInv, ChangesInv, InTransaction
<1> QED BY <1>3, <1>4 DEF CurrentInv

\* How a step of p treats p's own session.
Holds(p) == /\ UNCHANGED dbVars
            /\ seen'[p] = seen[p] /\ want'[p] = want[p] /\ task'[p] = task[p]
            /\ pc'[p] # "idle" /\ (pc'[p] = "flush" => task[p] = "restart" /\ writer # p)
            /\ pc'[p] \in {"lock", "select"} => writer # p
            /\ writer = p /\ task[p] \in {"settings", "restart"} => pc'[p] = "settle"
            /\ InTransaction(p)' => InTransaction(p)
Drops(p) == /\ seen'[p] = Blank /\ want'[p] = Blank
            /\ writer' # p
            /\ task'[p] \in {task[p], "none"}
            /\ pc'[p] \notin {"flush", "lock", "stage", "validate", "backup", "sidecar", "install", "restart", "commit"}

\* Every other step of p keeps its session or ends it.
LEMMA SessionFrame ==
  ASSUME IInv, NEW p \in Proc, Step(p), FormalSource(p), CurrentInv(p),
         ~Flush(p), ~SelectBackup(p), ~ReplaceNodes(p), ~Commit(p)
  PROVE  Holds(p) \/ Drops(p)
<1>0. /\ pc \in [Proc -> Label] /\ task \in [Proc -> Task] /\ seen \in [Proc -> Session]
      /\ want \in [Proc -> Session]
      /\ p # NoProc
      /\ PathInv(p)
      /\ WriterInv(p)
  BY ProcAssumption DEF IInv, TypeOK, ProcInv, SessionInv, CurrentInv
<1> USE <1>0 DEF Holds, Drops, InTransaction, WriterInv, PathInv, Goto, dbVars, localVars, Leave,
     Expire, Raise,
                 Return, Continue, Rollback, EndTransaction, Fail, BackedUp, Edits
<1>1. CASE FlushTimeout(p)
  BY <1>1 DEF FlushTimeout
<1>2. CASE Settle(p)
  BY <1>2 DEF Settle
<1>3. CASE AcquireLock(p)
  BY <1>3 DEF AcquireLock, AfterLock
<1>4. CASE LockTimeout(p)
  BY <1>4 DEF LockTimeout
<1>5. CASE Compare(p)
  BY <1>5 DEF Compare, FormalSource
<1>6. CASE Stage(p)
  BY <1>6 DEF Stage
<1>7. CASE StageFails(p)
  BY <1>7 DEF StageFails
<1>8. CASE Validate(p)
  BY <1>8 DEF Validate
<1>9. CASE Reject(p)
  BY <1>9 DEF Reject
<1>10. CASE CheckUnavailable(p)
  BY <1>10 DEF CheckUnavailable
<1>11. CASE CopyConfig(p)
  BY <1>11 DEF CopyConfig
<1>12. CASE NothingToCopy(p)
  BY <1>12 DEF NothingToCopy
<1>13. CASE WriteSidecar(p)
  BY <1>13 DEF WriteSidecar
<1>14. CASE BackupFails(p)
  BY <1>14 DEF BackupFails
<1>15. CASE Install(p)
  BY <1>15 DEF Install
<1>16. CASE InstallFails(p)
  BY <1>16 DEF InstallFails
<1>17. CASE Restart(p)
  BY <1>17 DEF Restart
<1>18. CASE RestartFailure(p)
  BY <1>18 DEF RestartFailure
<1>19. CASE CommitFails(p)
  BY <1>19 DEF CommitFails
<1>20. CASE Unmark(p)
  BY <1>20 DEF Unmark, FormalSource
<1>21. CASE Revert(p)
  BY <1>21 DEF Revert
<1>22. CASE Rerestart(p)
  BY <1>22 DEF Rerestart
<1>23. CASE RecordFailure(p)
  BY <1>23 DEF RecordFailure
<1>24. CASE Abort(p)
  BY <1>24 DEF Abort
<1> QED BY <1>1, <1>2, <1>3, <1>4, <1>5, <1>6, <1>7, <1>8, <1>9, <1>10, <1>11, <1>12, <1>13,
           <1>14, <1>15, <1>16, <1>17, <1>18, <1>19, <1>20, <1>21, <1>22, <1>23, <1>24 DEF Step

\* A session that is kept is current, one that has ended too.
LEMMA HoldsKeeps ==
  ASSUME IInv, NEW p \in Proc, Holds(p), CurrentInv(p)
  PROVE  CurrentInv(p)'
<1>1. LoadedInv(p)'
  <2>1. pc'[p] = "flush" => want[p] = Blank
    BY DEF Holds, IInv, ProcInv, SessionInv
  <2> QED BY <2>1 DEF Holds, CurrentInv, LoadedInv, dbVars, Edits, Blank
<1>2. WriterInv(p)' /\ ChangesInv(p)' /\ (InTransaction(p)' => writer' = p)
  BY DEF Holds, CurrentInv, WriterInv, ChangesInv, dbVars
<1> QED BY <1>1, <1>2 DEF CurrentInv

\* The end of a session takes its transaction along.
LEMMA DropsKeeps ==
  ASSUME NEW p \in Proc, Drops(p), CurrentInv(p)
  PROVE  CurrentInv(p)'
  BY DEF Drops, CurrentInv, LoadedInv, WriterInv, ChangesInv, InTransaction, Blank

\* The flush writes every changed row as the session has it: what it loaded is still there.
LEMMA FlushCurrent ==
  ASSUME IInv, NEW p \in Proc, Flush(p), CurrentInv(p)
  PROVE  CurrentInv(p)'
<1>0. /\ pc \in [Proc -> Label] /\ task \in [Proc -> Task] /\ nodes \in Table
      /\ want[p] \in Session /\ seen[p] \in Session
      /\ PathInv(p) /\ pc[p] = "flush" /\ writer = NoProc /\ p # NoProc
      /\ nodes' = nodes /\ seen' = seen /\ want' = want /\ task' = task
  BY ProcAssumption DEF IInv, TypeOK, ProcInv, SessionInv, Flush, localVars
<1>1. LoadedInv(p)'
  <2>1. pc'[p] # "flush"
    BY <1>0 DEF Flush, Goto
  <2> QED BY <1>0, <2>1 DEF CurrentInv, LoadedInv
<1>2. CASE Conflicting(p)
  <2>1. writer' # p /\ pc'[p] = "abort"
    BY <1>0, <1>2 DEF Flush, Goto
  <2> QED BY <1>1, <2>1 DEF CurrentInv, WriterInv, ChangesInv, InTransaction
<1>3. CASE ~Conflicting(p)
  <2>1. /\ writer' = p /\ pending' = [n \in Node |-> Written(p, n)]
        /\ pc'[p] = IF task[p] \in {"settings", "restart"} THEN "settle" ELSE "lock"
    BY <1>0, <1>3 DEF Flush, Goto
  <2>2. ASSUME NEW n \in Node, want[p][n] # Unloaded
        PROVE  Written(p, n) = want[p][n]
    <3>1. seen[p][n] = nodes[n] /\ seen[p][n] # Unloaded
      BY <1>0, <2>2 DEF CurrentInv, LoadedInv
    <3>2. want[p][n] \in Row \cup {Absent} /\ nodes[n] \in Row \cup {Absent}
      BY <1>0, <2>2 DEF Session, Table
    <3>3. CASE want[p][n] = Absent \/ nodes[n] = Absent
      BY <2>2, <3>1, <3>3 DEF Written
    <3>4. CASE want[p][n] # Absent /\ nodes[n] # Absent
      <4>1. Written(p, n) = [enabled |-> want[p][n].enabled, cfg |-> want[p][n].cfg]
        BY <2>2, <3>1, <3>4 DEF Written
      <4>2. want[p][n] = [enabled |-> want[p][n].enabled, cfg |-> want[p][n].cfg]
        BY <3>2, <3>4 DEF Row
      <4> QED BY <4>1, <4>2
    <3> QED BY <3>3, <3>4
  <2>3. ChangesInv(p)'
    <3>1. \A n \in Node : want[p][n] = Unloaded => Written(p, n) = nodes[n]
      BY DEF Written
    <3> QED BY <1>0, <2>1, <2>2, <3>1 DEF ChangesInv
  <2>4. task[p] \in Edits \cup {"settings", "restart"}
    BY <1>0 DEF CurrentInv, LoadedInv
  <2> QED BY <1>0, <1>1, <2>1, <2>3, <2>4 DEF CurrentInv, WriterInv, InTransaction, Edits
<1> QED BY <1>2, <1>3

\* A restore replaces the whole table, with the operation lock and before anybody's session
\* could have loaded a row it may change.
LEMMA SelectCurrent ==
  ASSUME IInv, NEW p \in Proc, SelectBackup(p), CurrentInv(p)
  PROVE  CurrentInv(p)'
<1>0. /\ pc \in [Proc -> Label] /\ task \in [Proc -> Task] /\ want \in [Proc -> Session]
      /\ pc[p] = "select" /\ task[p] = "restore"
      /\ UNCHANGED dbVars /\ seen' = seen /\ task' = task /\ pc'[p] \in {"backup", "abort"}
      /\ writer # p
  BY DEF IInv, TypeOK, ProcInv, SessionInv, PathInv, SelectBackup, Raise, Goto, CurrentInv,
       WriterInv
<1>1. LoadedInv(p)'
  BY <1>0 DEF CurrentInv, LoadedInv, dbVars
<1>2. WriterInv(p)' /\ ChangesInv(p)' /\ ~InTransaction(p)'
  BY <1>0 DEF WriterInv, ChangesInv, InTransaction, dbVars, Edits
<1> QED BY <1>1, <1>2 DEF CurrentInv

\* A restore writes the table it chose.
LEMMA ReplaceCurrent ==
  ASSUME IInv, NEW p \in Proc, ReplaceNodes(p), CurrentInv(p)
  PROVE  CurrentInv(p)'
<1>0. /\ pc \in [Proc -> Label] /\ task \in [Proc -> Task] /\ want[p] \in Table
      /\ seen \in [Proc -> Session] /\ want \in [Proc -> Session]
      /\ pc[p] = "replace" /\ task[p] = "restore" /\ p # NoProc
  BY ProcAssumption
     DEF IInv, TypeOK, ProcInv, SessionInv, PathInv, ChosenInv, ReplaceNodes
<1>1. CASE Fail(p)
  BY <1>0, <1>1, DropsKeeps DEF Drops, Fail, Rollback, EndTransaction, Expire, Goto
<1>2. CASE ~Fail(p)
  <2>1. /\ writer' = p /\ pending' = want[p] /\ nodes' = nodes
        /\ pc'[p] = "stage" /\ seen' = seen /\ want' = want /\ task' = task
    BY <1>0, <1>2 DEF ReplaceNodes, Continue, Goto, localVars
  <2>2. \A n \in Node : want[p][n] # Unloaded
    BY <1>0, ValueAssumption DEF Table
  <2> QED BY <1>0, <2>1, <2>2
          DEF CurrentInv, LoadedInv, WriterInv, ChangesInv, InTransaction, Edits
<1> QED BY <1>1, <1>2

\* A commit ends the session, or goes on with nothing changed.
LEMMA CommitCurrent ==
  ASSUME IInv, NEW p \in Proc, Commit(p), CurrentInv(p)
  PROVE  CurrentInv(p)'
<1>0. /\ pc \in [Proc -> Label] /\ task \in [Proc -> Task]
      /\ seen \in [Proc -> Session] /\ want \in [Proc -> Session] /\ p # NoProc
  BY ProcAssumption DEF IInv, TypeOK
<1>1. CASE task[p] = "reconcile"
  <2>1. /\ writer # p /\ nodes' = nodes /\ writer' = NoProc /\ pc'[p] = "unmark"
        /\ seen' = seen /\ want' = want /\ task' = task
    BY <1>0, <1>1
       DEF Commit, Rows, Continue, Goto, localVars, CurrentInv, WriterInv, Edits
  <2> QED BY <1>0, <1>1, <2>1
          DEF CurrentInv, LoadedInv, WriterInv, ChangesInv, InTransaction
<1>2. CASE task[p] # "reconcile"
  BY <1>0, <1>2, DropsKeeps DEF Drops, Commit, Return, Leave, Expire, Goto
<1> QED BY <1>1, <1>2

\* Every step of p.
LEMMA StepCurrent ==
  ASSUME OwnRows, IInv, NEW p \in Proc, Step(p), FormalSource(p), \A q \in Proc : CurrentInv(q)
  PROVE  \A q \in Proc : CurrentInv(q)'
<1>1. CurrentInv(p)'
  BY SessionFrame, HoldsKeeps, DropsKeeps, FlushCurrent, SelectCurrent, ReplaceCurrent,
     CommitCurrent
<1>2. \A q \in Proc \ {p} : CurrentInv(q)'
  BY OthersCurrent
<1> QED BY <1>1, <1>2

\* A new handler loads rows that its script allows it to change.
LEMMA EditCurrent ==
  ASSUME IInv, NEW p \in Req \cup Cli, NEW k \in Edits \cup {"settings"}, NEW S \in SUBSET Touched(p), NEW w,
         k = "settings" => S = {}, Edit(p, k, S, w), CurrentInv(p)
  PROVE  CurrentInv(p)'
<1>0. /\ p \in Proc /\ pc \in [Proc -> Label] /\ task \in [Proc -> Task]
      /\ seen \in [Proc -> Session] /\ want \in [Proc -> Session] /\ nodes \in Table
      /\ pc[p] = "idle"
  BY DEF IInv, TypeOK, Proc, Api, Edit, Begin
<1>1. /\ seen'[p] = [n \in Node |-> IF n \in S THEN nodes[n] ELSE Unloaded]
      /\ want'[p] = [n \in Node |-> IF n \in S THEN w[n] ELSE Unloaded]
      /\ task'[p] = k /\ pc'[p] = "flush" /\ UNCHANGED dbVars
  BY <1>0 DEF Edit, Begin, Goto
<1>2. writer # p
  BY <1>0 DEF CurrentInv, WriterInv
<1>3. \A n \in Node : nodes[n] # Unloaded
  BY <1>0, ValueAssumption DEF Table
<1>4. LoadedInv(p)'
  <2>1. k = "settings" => want'[p] = Blank
    BY <1>1 DEF Blank
  <2>2. k # "restore"
    BY DEF Edits
  <2> QED BY <1>1, <1>3, <2>1, <2>2 DEF LoadedInv, dbVars
<1>5. WriterInv(p)' /\ ChangesInv(p)' /\ ~InTransaction(p)'
  BY <1>1, <1>2 DEF WriterInv, ChangesInv, InTransaction, dbVars, Edits
<1> QED BY <1>4, <1>5 DEF CurrentInv

\* A handler that takes the operation lock first has loaded nothing.
LEMMA OperateCurrent ==
  ASSUME IInv, NEW p \in Req \cup Cli, NEW K \in SUBSET (Endpoints \cup Commands), Operate(p, K), CurrentInv(p)
  PROVE  CurrentInv(p)'
<1>0. /\ p \in Proc /\ pc \in [Proc -> Label] /\ task \in [Proc -> Task]
      /\ pc[p] = "idle" /\ want[p] = Blank
  BY DEF IInv, TypeOK, Proc, Api, Operate, Begin, ProcInv, SessionInv, PathInv
<1>1. PICK k \in K : Begin(p, k) /\ pc'[p] = "lock" /\ seen' = seen /\ want' = want
  BY <1>0 DEF Operate, Goto
<1>2. task'[p] = k /\ UNCHANGED dbVars /\ k \in Script[p]
  BY <1>0, <1>1 DEF Begin
<1>3. k = "restore" => Touched(p) = Node
  BY <1>2 DEF Touched
<1>4. LoadedInv(p)'
  BY <1>0, <1>1, <1>2, <1>3 DEF CurrentInv, LoadedInv, dbVars
<1>5. k \notin Edits /\ writer # p
  BY <1>0 DEF Edits, Endpoints, Commands, CurrentInv, WriterInv
<1>6. WriterInv(p)' /\ ChangesInv(p)' /\ ~InTransaction(p)'
  BY <1>0, <1>1, <1>2, <1>5 DEF WriterInv, ChangesInv, InTransaction, dbVars
<1> QED BY <1>4, <1>6 DEF CurrentInv

\* Every way to start: what is loaded is committed, and p's own.
LEMMA StartCurrent ==
  ASSUME IInv, NEW p \in Req \cup Cli, Start(p), CurrentInv(p)
  PROVE  CurrentInv(p)'
<1>0. ASSUME NEW k \in OneRow, NEW n \in Target[p], NEW w, Edit(p, k, {n}, w)
      PROVE  CurrentInv(p)'
  <2>1. n \in Touched(p)
    BY <1>0, ScenarioAssumption DEF Touched, Edit, Begin
  <2>2. k \in Edits \cup {"settings"} /\ k # "settings" /\ {n} \in SUBSET Touched(p)
    BY <2>1 DEF OneRow, Edits
  <2> QED BY <1>0, <2>2, EditCurrent
<1>1. CASE CreateNode(p) \/ UpdateNode(p) \/ SetEnabled(p) \/ RegenerateSecret(p) \/ DeleteNode(p)
  BY <1>0, <1>1
     DEF CreateNode, UpdateNode, SetEnabled, RegenerateSecret, DeleteNode, Existing, OneRow
<1>2. CASE RegenerateAll(p)
  <2>1. PICK w : Edit(p, "regenerateAll", Existing(Node), w)
    BY <1>2 DEF RegenerateAll
  <2>2. Existing(Node) \in SUBSET Touched(p) /\ "regenerateAll" \in Edits
    BY <2>1 DEF Existing, Touched, Edit, Begin, Edits
  <2> QED BY <2>1, <2>2, EditCurrent DEF Edits
<1>3. CASE UpdateSettings(p)
  BY <1>3, EditCurrent DEF UpdateSettings
<1>4. CASE Post(p) \/ Command(p)
  BY <1>4, OperateCurrent DEF Post, Command
<1> QED BY <1>1, <1>2, <1>3, <1>4 DEF Start

\* The startup has loaded nothing.
LEMMA StartApiCurrent ==
  ASSUME IInv, StartApi, CurrentInv(Boot)
  PROVE  CurrentInv(Boot)'
<1>0. /\ Boot \in Proc /\ pc \in [Proc -> Label] /\ task \in [Proc -> Task]
      /\ want[Boot] = Blank /\ writer # Boot
  BY DEF IInv, TypeOK, Proc, Api, StartApi, ProcInv, SessionInv, PathInv, CurrentInv, WriterInv
<1> QED BY <1>0 DEF StartApi, Goto, CurrentInv, LoadedInv, WriterInv, ChangesInv, InTransaction,
                    dbVars, Edits

\* A crash drops sessions whole, with their transaction.
LEMMA CrashCurrent ==
  ASSUME IInv, NEW S \in SUBSET Proc, Crash(S), NEW q \in Proc, CurrentInv(q)
  PROVE  CurrentInv(q)'
<1>0. nodes' = nodes /\ q # NoProc
  BY ProcAssumption DEF Crash
<1>1. CASE q \in S
  BY <1>0, <1>1 DEF Crash, CurrentInv, LoadedInv, WriterInv, ChangesInv, InTransaction, Edits, Blank
<1>2. CASE q \notin S
  <2>1. /\ pc'[q] = pc[q] /\ task'[q] = task[q] /\ seen'[q] = seen[q] /\ want'[q] = want[q]
    BY <1>2 DEF Crash
  <2>2. (writer' = q <=> writer = q) /\ (writer = q => pending' = pending)
    BY <1>0, <1>2 DEF Crash
  <2> QED BY <1>0, <2>1, <2>2 DEF CurrentInv, LoadedInv, WriterInv, ChangesInv, InTransaction
<1> QED BY <1>1, <1>2

\* What a session has loaded of its own rows is what is committed, whatever fails and
\* whatever crashes.
LEMMA CurrentInvariance ==
  ASSUME OwnRows
  PROVE  Spec => [](\A q \in Proc : CurrentInv(q))
<1>1. Init => \A q \in Proc : CurrentInv(q)
  BY ProcAssumption
     DEF Init, Blank, CurrentInv, LoadedInv, WriterInv, ChangesInv, InTransaction, Edits
<1>2. /\ IInv /\ (\A q \in Proc : FormalSource(q)) /\ (\A q \in Proc : CurrentInv(q))
      /\ [Next]_vars
      => (\A q \in Proc : CurrentInv(q))'
  <2> SUFFICES ASSUME IInv, \A q \in Proc : FormalSource(q), \A q \in Proc : CurrentInv(q),
                      [Next]_vars
               PROVE  \A q \in Proc : CurrentInv(q)'
    OBVIOUS
  <2>1. CASE \E p \in Proc : Step(p)
    BY <2>1, StepCurrent
  <2>2. ASSUME NEW p \in Proc, Starts(p), CurrentInv(p)'
        PROVE  \A q \in Proc : CurrentInv(q)'
    BY <2>2 DEF Starts, dbVars, CurrentInv, LoadedInv, WriterInv, ChangesInv, InTransaction
  <2>3. CASE \E p \in Req \cup Cli : Start(p)
    BY <2>2, <2>3, StartFrame, StartCurrent DEF Proc, Api
  <2>4. CASE StartApi
    BY <2>2, <2>4, StartApiFrame, StartApiCurrent DEF Proc, Api
  <2>5. CASE CrashApi \/ \E p \in Cli : CrashCli(p)
    BY <2>5, CrashCurrent DEF CrashApi, CrashCli, Proc, Api
  <2>6. CASE DataPlaneRestarts \/ UNCHANGED vars
    BY <2>6 DEF DataPlaneRestarts, vars, dbVars, localVars, CurrentInv, LoadedInv, WriterInv,
                ChangesInv, InTransaction
  <2> QED BY <2>1, <2>3, <2>4, <2>5, <2>6 DEF Next, Quiet
<1> QED BY <1>1, <1>2, Invariance, SourceInvariance, PTL DEF Spec

------------------------------------------------------------------------------
(* Table, file and backups.                                                *)

\* A request whose rows are its own renders its transaction: no stale row shows.
LEMMA RendersTransaction ==
  ASSUME IInv, NEW p \in Proc, CurrentInv(p), InTransaction(p) \/ want[p] = Blank
  PROVE  Render(p) = Inbounds(Rows(p))
<1>1. \A n \in Node : View(p)[n] = Rows(p)[n]
  BY DEF CurrentInv, ChangesInv, View, Rows, Blank
<1> QED BY <1>1 DEF Render, Inbounds

\* After a commit the formal file counts.
LEMMA CommitSettles ==
  ASSUME IInv, IInv', NEW p \in Proc, Commit(p)
  PROVE  Published' = config' /\ config' = config /\ config = Render(p) /\ nodes' = Rows(p)
<1>0. /\ pc \in [Proc -> Label] /\ pc[p] = "commit" /\ ProcInv(p) /\ holder = p
      /\ nodes' = Rows(p) /\ config' = config
  BY DEF IInv, TypeOK, LockOwner, Critical, Commit, fileVars
<1>1. config = Render(p)
  BY <1>0 DEF ProcInv, StagingInv, Replaced
<1>2. \A q \in Proc : ~Uncommitted(q)'
  <2>1. pc'[p] \in {"idle", "unmark"}
    BY <1>0 DEF Commit, Continue, Return, Leave, Goto
  <2>2. \A q \in Proc \ {p} : pc'[q] = pc[q] /\ task'[q] = task[q] /\ ~Uncommitted(q)
    BY <1>0, StepAlone, PublishedIs DEF Step, Alone, Moves
  <2> QED BY <2>1, <2>2 DEF Uncommitted
<1> QED BY <1>0, <1>1, <1>2, PublishedThen

\* What a commit publishes is generated from what it commits.
LEMMA CommitPublishes ==
  ASSUME IInv, IInv', NEW p \in Proc, Commit(p), CurrentInv(p)
  PROVE  PublishedInv'
<1>1. InTransaction(p) \/ want[p] = Blank
  BY DEF Commit, CurrentInv, LoadedInv, InTransaction
<1> QED BY <1>1, CommitSettles, RendersTransaction DEF PublishedInv

\* Before the first file is written nothing is published; from then on it is the table's.
FirstInv == PublishedInv \/ (~Installed /\ Published = NoFile)

LEMMA FirstInvariance ==
  ASSUME OwnRows, Recoverable
  PROVE  Spec => []FirstInv
<1>1. Init => FirstInv
  BY DEF Init, FirstInv, PublishedInv, Published, Uncommitted
<1>2. /\ IInv /\ IInv' /\ (\A q \in Proc : FormalSource(q)) /\ (\A q \in Proc : CurrentInv(q))
      /\ FirstInv /\ [Next]_vars
      => FirstInv'
  <2> SUFFICES ASSUME IInv, IInv', \A q \in Proc : FormalSource(q), \A q \in Proc : CurrentInv(q),
                      FirstInv, [Next]_vars
               PROVE  FirstInv'
    OBVIOUS
  <2>1. CASE \E p \in Proc : Commit(p)
    BY <2>1, CommitPublishes DEF FirstInv
  <2>2. CASE \A p \in Proc : ~Commit(p)
    <3>0. \A S \in SUBSET Proc : ~Crash(S)
      BY DEF Crash, Recoverable
    <3>1. Published' = Published
      BY <2>2, <3>0, PublishedStep DEF Recoverable
    <3>2. nodes' = nodes
      BY <2>2, TableFrame, NextCases DEF Starts, Crash, dbVars
    <3> QED BY <3>1, <3>2 DEF FirstInv, PublishedInv
  <2> QED BY <2>1, <2>2
<1> QED BY <1>1, <1>2, Invariance, SourceInvariance, CurrentInvariance, PTL DEF Spec

\* On an installed panel the file that counts is always that of the committed table.
LEMMA PublishedInvariance ==
  ASSUME OwnRows, Recoverable, Installed
  PROVE  Spec => []PublishedInv
<1>1. FirstInv => PublishedInv
  BY DEF FirstInv
<1> QED BY <1>1, FirstInvariance, PTL

\* Where no two processes change the same row the committed table never has two enabled nodes
\* on one port, so a restart of the API can render it (build_singbox_config), under every
\* fault and crash.
THEOREM TableStaysBuildable ==
  ASSUME OwnRows
  PROVE  Spec => []CommittedTableBuilds
<1>1. Init => CommittedTableBuilds
  BY SeedAssumption DEF Init, CommittedTableBuilds
<1>2. /\ IInv /\ IInv' /\ (\A q \in Proc : CurrentInv(q)) /\ CommittedTableBuilds /\ [Next]_vars
      => CommittedTableBuilds'
  <2> SUFFICES ASSUME IInv, IInv', \A q \in Proc : CurrentInv(q), CommittedTableBuilds, [Next]_vars
               PROVE  CommittedTableBuilds'
    OBVIOUS
  <2>1. CASE \E p \in Proc : Commit(p)
    <3>1. PICK p \in Proc : Commit(p)
      BY <2>1
    <3>2. config = Inbounds(nodes')
      <4>1. InTransaction(p) \/ want[p] = Blank
        BY <3>1 DEF Commit, CurrentInv, LoadedInv, InTransaction
      <4> QED BY <3>1, <4>1, CommitSettles, RendersTransaction
    <3>3. config # NoFile
      BY <3>2, InboundsType, ValueAssumption DEF IInv, TypeOK
    <3> QED BY <3>2, <3>3 DEF IInv, Sound, CommittedTableBuilds
  <2>2. CASE \A p \in Proc : ~Commit(p)
    <3>1. nodes' = nodes
      BY <2>2, TableFrame, NextCases DEF Starts, Crash, dbVars
    <3> QED BY <3>1 DEF CommittedTableBuilds
  <2> QED BY <2>1, <2>2
<1> QED BY <1>1, <1>2, Invariance, CurrentInvariance, PTL DEF Spec

\* Where no two processes change the same row and failures can be undone on the spot, the
\* formal file is that of the committed table whenever no operation is in progress: after
\* success, failure and rollback (safe_apply with its handler's commit).
THEOREM FileIsTheTables ==
  ASSUME OwnRows, Recoverable, Installed
  PROVE  Spec => []FileFollowsTable
<1>1. IInv /\ PublishedInv => FileFollowsTable
  <2> SUFFICES ASSUME IInv, PublishedInv, holder = NoProc PROVE config = Inbounds(nodes)
    BY DEF FileFollowsTable
  <2>1. \A p \in Proc : ~Uncommitted(p)
    BY PublishedIs, ProcAssumption
  <2> QED BY <2>1, PublishedIs DEF PublishedInv
<1> QED BY <1>1, Invariance, PublishedInvariance, PTL

\* Where rows are not shared and failures can be undone, every complete backup pairs a file
\* with the table it was generated from (_snapshot_state), whatever was pending when it was
\* taken, also on a panel whose first file is still to be written.
THEOREM BackupsPair ==
  ASSUME OwnRows, Recoverable
  PROVE  Spec => []BackupPairsMatch
<1>1. Init => BackupPairsMatch
  BY DEF Init, BackupPairsMatch
<1>2. IInv /\ FirstInv /\ BackupPairsMatch /\ [Next]_vars => BackupPairsMatch'
  <2> SUFFICES ASSUME IInv, FirstInv, BackupPairsMatch, [Next]_vars PROVE BackupPairsMatch'
    OBVIOUS
  <2>1. CASE \E p \in Proc : CopyConfig(p)
    BY <2>1, CopyAdds DEF BackupPairsMatch
  <2>0. ASSUME NEW p \in Proc, pc[p] = "sidecar" PROVE config = Inbounds(nodes)
    <3>2. \A q \in Proc : ~Uncommitted(q)
      BY <2>0, PublishedIs DEF Uncommitted, IInv, LockOwner, Critical
    <3>3. config # NoFile
      BY <2>0 DEF IInv, ProcInv, SourceInv
    <3> QED BY <3>2, <3>3, PublishedIs DEF FirstInv, PublishedInv
  <2>2. CASE \E p \in Proc : WriteSidecar(p)
    <3>1. PICK p \in Proc : WriteSidecar(p)
      BY <2>2
    <3>2. config = Inbounds(nodes)
      BY <2>0, <3>1 DEF WriteSidecar
    <3> QED BY <3>1, <3>2, SidecarCompletes DEF BackupPairsMatch
  <2>3. CASE \E p \in Proc : BackupFails(p) /\ pc[p] = "sidecar"
    BY <2>0, <2>3, FailureRemoves DEF BackupPairsMatch
  <2>4. CASE backups' = backups
    BY <2>4 DEF BackupPairsMatch
  <2> QED BY <2>1, <2>2, <2>3, <2>4, BackupFrame, NextCases DEF Starts, Crash, fileVars
<1> QED BY <1>1, <1>2, Invariance, FirstInvariance, PTL DEF Spec

\* On an installed panel the whole of ApplyPipeline implements AtomicApply: one step publishes
\* a table and the file generated from it, and a failed operation is no step at all.
THEOREM PipelineIsAtomic ==
  ASSUME OwnRows, Recoverable, Installed
  PROVE  Spec => AppliesAtomically
<1>1. IInv /\ PublishedInv => nodes \in Table /\ Published = Inbounds(nodes)
  BY DEF IInv, TypeOK, PublishedInv
<1>2. IInv' /\ PublishedInv' => nodes' \in Table /\ Published' = Inbounds(nodes')
  BY DEF IInv, TypeOK, PublishedInv
<1>3. IInv /\ PublishedInv => Atomic!Init
  BY <1>1 DEF Atomic!Init
<1>4. IInv' /\ PublishedInv' => [Atomic!Publish]_<<nodes, Published>>
  BY <1>2 DEF Atomic!Publish
<1> QED BY <1>3, <1>4, Invariance, PublishedInvariance, PTL DEF AppliesAtomically, Atomic!Spec

------------------------------------------------------------------------------
(* The start of the API.                                                   *)

\* The startup edits nothing, so it renders the committed table.
LEMMA BootRenders == ASSUME BootInv PROVE Render(Boot) = Inbounds(nodes)
<1>1. \A n \in Node : View(Boot)[n] = nodes[n]
  BY DEF BootInv, View, Rows, Blank
<1> QED BY <1>1 DEF Render, Inbounds

\* The steps of the startup.
LEMMA BootSteps ==
  ASSUME IInv, BootInv, Step(Boot), FormalSource(Boot)
  PROVE  BootInv'
<1>0. /\ pc \in [Proc -> Label] /\ task \in [Proc -> Task] /\ want \in [Proc -> Session]
      /\ Boot \in Proc /\ Boot # NoProc /\ ProcInv(Boot) /\ PathInv(Boot)
  BY ProcAssumption DEF IInv, TypeOK, Proc, Api, ProcInv, SessionInv
<1> USE <1>0 DEF Goto, dbVars, localVars, Leave, Expire, Raise, Return, Continue, Rollback,
     EndTransaction,
                 Fail, BackedUp
<1>1. CASE Commit(Boot)
  <2>1. /\ task[Boot] = "reconcile" /\ pc[Boot] = "commit" /\ nodes' = nodes /\ config' = config
        /\ writer' = NoProc /\ pc'[Boot] = "unmark" /\ task' = task /\ want' = want
    BY <1>1 DEF Commit, PathInv, BootInv, Rows, fileVars
  <2>2. config = Render(Boot)
    BY <2>1 DEF ProcInv, StagingInv, Replaced
  <2> QED BY <2>1, <2>2, BootRenders DEF BootInv
<1>2. ~Flush(Boot) /\ ~Settle(Boot) /\ ~ReplaceNodes(Boot) /\ ~SelectBackup(Boot)
  BY DEF Flush, Settle, ReplaceNodes, SelectBackup, BootInv, PathInv, ProcInv, SessionInv
<1>3. CASE ~Commit(Boot)
  <2>1. pc'[Boot] # "unmark" /\ pc'[Boot] # "flush"
    BY <1>2, <1>3
       DEF BootInv, Step, AfterLock, FlushTimeout, AcquireLock, LockTimeout, Compare, Stage,
           StageFails, Validate, Reject, CheckUnavailable, WriteSidecar, BackupFails, CopyConfig,
           NothingToCopy,
           Install, InstallFails, Restart, RestartFailure, CommitFails, Unmark, Revert,
           Rerestart, RecordFailure, Abort
  <2>2. writer' # Boot
    BY <1>2, <1>3
       DEF BootInv, Step, FlushTimeout, AcquireLock, LockTimeout, Compare, Stage,
           StageFails, Validate, Reject, CheckUnavailable, WriteSidecar, BackupFails, CopyConfig,
           NothingToCopy,
           Install, InstallFails, Restart, RestartFailure, CommitFails, Unmark, Revert,
           Rerestart, RecordFailure, Abort
  <2>3. task'[Boot] \in {task[Boot], "none"} /\ want'[Boot] \in {want[Boot], Blank}
    BY <1>2, <1>3
       DEF BootInv, Step, FlushTimeout, AcquireLock, LockTimeout, Compare, Stage,
           StageFails, Validate, Reject, CheckUnavailable, WriteSidecar, BackupFails, CopyConfig,
           NothingToCopy,
           Install, InstallFails, Restart, RestartFailure, CommitFails, Unmark, Revert,
           Rerestart, RecordFailure, Abort
  <2> QED BY <2>1, <2>2, <2>3 DEF BootInv
<1> QED BY <1>1, <1>3

\* What was committed at the start stays in force while others move.
LEMMA BootInvariance == Spec => []BootInv
<1>1. Init => BootInv
  BY ProcAssumption DEF Init, BootInv, Blank, Proc, Api
<1>2. IInv /\ (\A q \in Proc : FormalSource(q)) /\ BootInv /\ [Next]_vars => BootInv'
  <2> SUFFICES ASSUME IInv, \A q \in Proc : FormalSource(q), BootInv, [Next]_vars PROVE BootInv'
    OBVIOUS
  <2>0. /\ Boot \in Proc /\ Boot # NoProc /\ (pc[Boot] = "unmark" => holder = Boot)
        /\ pc \in [Proc -> Label] /\ task \in [Proc -> Task] /\ want \in [Proc -> Session]
    BY ProcAssumption DEF Proc, Api, IInv, LockOwner, Critical, TypeOK
  <2>1. CASE Step(Boot)
    BY <2>0, <2>1, BootSteps
  <2>2. CASE \E p \in Proc \ {Boot} : Step(p)
    <3>1. PICK p \in Proc \ {Boot} : Alone(p)
      BY <2>2, StepAlone
    <3>2. /\ pc'[Boot] = pc[Boot] /\ task'[Boot] = task[Boot] /\ want'[Boot] = want[Boot]
          /\ writer' # Boot
          /\ holder = Boot => nodes' = nodes /\ config' = config
      BY <2>0, <3>1 DEF Alone, Moves, BootInv
    <3> QED BY <2>0, <3>2 DEF BootInv
  <2>3. CASE \E p \in Req \cup Cli : Start(p)
    <3>1. PICK p \in Req \cup Cli : Starts(p)
      BY <2>3, StartFrame
    <3> QED BY <2>0, <3>1, ProcAssumption DEF Starts, BootInv, dbVars, fileVars
  <2>4. CASE StartApi
    BY <2>0, <2>4 DEF StartApi, Goto, BootInv, dbVars
  <2>5. CASE \E S \in SUBSET Proc : Crash(S)
    BY <2>0, <2>5 DEF Crash, BootInv, Blank, fileVars
  <2>6. CASE DataPlaneRestarts \/ UNCHANGED vars
    BY <2>6 DEF DataPlaneRestarts, vars, dbVars, fileVars, localVars, BootInv
  <2> QED BY <2>1, <2>2, <2>3, <2>4, <2>5, <2>6 DEF Next, Quiet, CrashApi, CrashCli, Proc, Api
<1> QED BY <1>1, <1>2, Invariance, SourceInvariance, PTL DEF Spec

\* The two ways into service: the file was current, or the marker has just been removed.
LEMMA WaysUp ==
  ASSUME IInv, BootInv, [Next]_vars, api # "up", api' = "up"
  PROVE  /\ UNCHANGED <<nodes, config, running>> /\ ~marker'
         /\ holder = Boot /\ pc[Boot] \in {"compare", "unmark"} /\ pc'[Boot] = "idle"
         /\ config = Inbounds(nodes) /\ (pc[Boot] = "compare" => ~marker)
         /\ \E p \in Proc : Step(p)
<1>0. /\ pc \in [Proc -> Label] /\ task \in [Proc -> Task] /\ Boot \in Proc
      /\ \A p \in Proc : pc[p] \in Critical => holder = p
      /\ PathInv(Boot)
  BY DEF IInv, TypeOK, Proc, Api, LockOwner, ProcInv, SessionInv
<1>1. PICK p \in Proc : Step(p)
  BY DEF Next, vars, StartApi, CrashApi, CrashCli, DataPlaneRestarts, Quiet, Start, Edit, Begin,
         CreateNode, UpdateNode, SetEnabled, RegenerateSecret, DeleteNode, RegenerateAll,
         UpdateSettings, Post, Command, Operate
<1>2. p = Boot /\ ((Compare(p) /\ pc'[p] = "idle") \/ Unmark(p))
  BY <1>0, <1>1
     DEF BootInv, PathInv, Goto, Leave, Raise, Return, Continue, Fail, BackedUp,
         Step, Flush, FlushTimeout, Settle, AcquireLock, LockTimeout, SelectBackup, Compare, Stage,
         StageFails, Validate, Reject, CheckUnavailable, WriteSidecar, BackupFails, CopyConfig,
         NothingToCopy,
         ReplaceNodes, Install, InstallFails, Restart, RestartFailure, Commit, CommitFails, Unmark,
         Revert, Rerestart, RecordFailure, Abort
<1>3. CASE Compare(p) /\ pc'[p] = "idle"
  <2>1. InSync(p) /\ UNCHANGED <<marker, nodes, config, running>> /\ pc[p] = "compare"
    BY <1>0, <1>3 DEF Compare, Continue, Raise, Goto, dbVars
  <2> QED BY <1>0, <1>1, <1>2, <1>3, <2>1, BootRenders DEF InSync, Critical
<1>4. CASE Unmark(p)
  <2>1. ~marker' /\ UNCHANGED <<nodes, config, running>> /\ pc[p] = "unmark" /\ pc'[p] = "idle"
    BY <1>0, <1>4 DEF Unmark, Return, Leave, Raise, Goto, dbVars
  <2> QED BY <1>0, <1>1, <1>2, <2>1 DEF BootInv, Critical
<1> QED BY <1>2, <1>3, <1>4

\* The API serves only on a formal file that is that of the committed table, with the
\* reconcile marker removed, whatever fails and whenever it crashed before (lifespan,
\* reconcile_with_database).
THEOREM ServiceStartsConverged == Spec => ServesConverged
<1>1. IInv /\ BootInv /\ [Next]_vars
      => [api # "up" /\ api' = "up" => config' = Inbounds(nodes') /\ ~marker']_vars
  BY WaysUp
<1> QED BY <1>1, Invariance, BootInvariance, PTL DEF Spec, ServesConverged

------------------------------------------------------------------------------
(* The start of the API after crashes.                                     *)

\* A command line of OnlyCrashes installs nothing.
LEMMA CliSteps ==
  ASSUME OnlyCrashes, IInv, NEW c \in Cli, c \in Proc, Step(c), CliInv(c)
  PROVE  CliInv(c)'
<1>0. /\ pc \in [Proc -> Label] /\ task \in [Proc -> Task] /\ PathInv(c)
  BY DEF IInv, TypeOK, ProcInv, SessionInv
<1>1. CASE AcquireLock(c)
  BY <1>0, <1>1 DEF AcquireLock, AfterLock, Goto, CliInv, PathInv, localVars
<1>2. ~SelectBackup(c) /\ ~ReplaceNodes(c) /\ ~Compare(c) /\ ~Install(c) /\ ~InstallFails(c)
      /\ ~Commit(c) /\ ~CommitFails(c) /\ ~Unmark(c) /\ ~Revert(c) /\ ~Rerestart(c)
  BY <1>0 DEF CliInv, PathInv, SelectBackup, ReplaceNodes, Compare, Install, InstallFails, Commit,
              CommitFails, Unmark, Revert, Rerestart
<1>3. CASE Stage(c) \/ StageFails(c) \/ Validate(c) \/ Reject(c) \/ CheckUnavailable(c)
  BY <1>0, <1>3
     DEF CliInv, PathInv, Goto, Leave, Raise, Return, Continue, Fail, localVars, Rollback,
         Stage, StageFails, Validate, Reject, CheckUnavailable
<1>4. CASE CopyConfig(c) \/ NothingToCopy(c) \/ WriteSidecar(c) \/ BackupFails(c)
  BY <1>0, <1>4
     DEF CliInv, PathInv, Goto, Leave, Raise, Return, Continue, BackedUp, localVars,
         CopyConfig, NothingToCopy, WriteSidecar, BackupFails
<1>5. CASE Restart(c) \/ RestartFailure(c) \/ RecordFailure(c) \/ Abort(c)
  BY <1>0, <1>5
     DEF CliInv, PathInv, Goto, Leave, Raise, Return, Continue, localVars, Rollback,
         Restart, RestartFailure, RecordFailure, Abort
<1>6. CASE Flush(c) \/ FlushTimeout(c) \/ Settle(c) \/ LockTimeout(c)
  BY <1>0, <1>6
     DEF CliInv, PathInv, Goto, Leave, localVars, Flush, FlushTimeout, Settle, LockTimeout
<1> QED BY <1>1, <1>2, <1>3, <1>4, <1>5, <1>6 DEF Step

\* Nor does it start to.
LEMMA CliStarts ==
  ASSUME OnlyCrashes, IInv, NEW c \in Cli, Start(c), CliInv(c)
  PROVE  CliInv(c)'
<1>0. pc \in [Proc -> Label] /\ task \in [Proc -> Task] /\ c \in Proc
  BY DEF IInv, TypeOK, Proc, Api
<1>1. PICK k \in Script[c] : Begin(c, k)
  BY DEF Start, CreateNode, UpdateNode, SetEnabled, RegenerateSecret, DeleteNode, RegenerateAll,
         UpdateSettings, Post, Command, Operate, Edit, Begin
<1>2. task'[c] = k /\ k \in {"restart", "check", "backup"}
  BY <1>0, <1>1 DEF Begin, OnlyCrashes
<1>3. pc'[c] \in {"flush", "lock"}
  BY StartFrame DEF Starts
<1> QED BY <1>2, <1>3 DEF CliInv

\* A handler stays the one it is until it ends.
LEMMA TaskFrame ==
  ASSUME IInv, NEW p \in Proc, Step(p)
  PROVE  task'[p] \in {task[p], "none"}
<1>0. task \in [Proc -> Task]
  BY DEF IInv, TypeOK
<1> QED BY <1>0
     DEF Leave, Raise, Return, Continue, Fail, BackedUp, localVars, Rollback, EndTransaction,
         Step, Flush, FlushTimeout, Settle, AcquireLock, LockTimeout, SelectBackup, Compare, Stage,
         StageFails, Validate, Reject, CheckUnavailable, WriteSidecar, BackupFails, CopyConfig,
         NothingToCopy, ReplaceNodes, Install, InstallFails, Restart, RestartFailure, Commit,
         CommitFails, Unmark, Revert, Rerestart, RecordFailure, Abort

\* Which process moves says which part of the API runs.
LEMMA ApiFrame ==
  ASSUME IInv, NEW p \in Proc, Step(p)
  PROVE  /\ pc[p] # "idle"
         /\ p # Boot => api' = api
         /\ p = Boot => IF pc'[p] = "idle" THEN api' \in {"up", "down", api} ELSE api' = api
<1>0. pc \in [Proc -> Label]
  BY DEF IInv, TypeOK
<1> QED BY <1>0
        DEF Goto, Leave, Raise, Return, Continue, Fail, BackedUp,
         Step, Flush, FlushTimeout, Settle, AcquireLock, LockTimeout, SelectBackup, Compare, Stage,
         StageFails, Validate, Reject, CheckUnavailable, WriteSidecar, BackupFails, CopyConfig,
         NothingToCopy,
         ReplaceNodes, Install, InstallFails, Restart, RestartFailure, Commit, CommitFails, Unmark,
         Revert, Rerestart, RecordFailure, Abort

\* A startup ends in service or ends the process.
LEMMA BootReturns ==
  ASSUME IInv, BootInv, Step(Boot), pc'[Boot] = "idle"
  PROVE  api' \in {"up", "down"}
<1>0. /\ pc \in [Proc -> Label] /\ Boot \in Proc /\ PathInv(Boot)
  BY DEF IInv, TypeOK, Proc, Api, ProcInv, SessionInv
<1>1. ~Flush(Boot) /\ ~Settle(Boot)
  BY DEF Flush, Settle, BootInv, IInv, ProcInv, SessionInv, Proc, Api
<1> QED BY <1>0, <1>1
        DEF Goto, Leave, Raise, Return, Continue, Fail, BackedUp, AfterLock,
         Step, FlushTimeout, AcquireLock, LockTimeout, SelectBackup, Compare, Stage,
         StageFails, Validate, Reject, CheckUnavailable, WriteSidecar, BackupFails, CopyConfig,
         NothingToCopy,
         ReplaceNodes, Install, InstallFails, Restart, RestartFailure, Commit, CommitFails, Unmark,
         Revert, Rerestart, RecordFailure, Abort

\* Requests run while the API is up, the startup while it starts.
LEMMA ApiInvariance ==
  ASSUME OnlyCrashes
  PROVE  Spec => []ApiInv
<1>0. Boot \notin Req \cup Cli /\ Req \cap Cli = {} /\ Boot \in Proc /\ Req \subseteq Proc /\ Cli \subseteq Proc
  BY ProcAssumption DEF Proc, Api
<1>1. Init => ApiInv
  BY <1>0 DEF Init, ApiInv, CliInv
<1>2. IInv /\ BootInv /\ ApiInv /\ [Next]_vars => ApiInv'
  <2> SUFFICES ASSUME IInv, BootInv, ApiInv, [Next]_vars PROVE ApiInv'
    OBVIOUS
  <2>0. pc \in [Proc -> Label] /\ task \in [Proc -> Task]
    BY DEF IInv, TypeOK
  <2>1. CASE \E p \in Proc : Step(p)
    <3>1. PICK p \in Proc : Step(p)
      BY <2>1
    <3>2. \A q \in Proc \ {p} : pc'[q] = pc[q] /\ task'[q] = task[q]
      BY <3>1, StepAlone DEF Alone, Moves
    <3>3. \A c \in Cli : CliInv(c)'
      <4>1. \A c \in Cli \ {p} : CliInv(c)'
        BY <1>0, <3>2 DEF ApiInv, CliInv
      <4>2. p \in Cli => CliInv(p)'
        BY <3>1, CliSteps DEF ApiInv
      <4> QED BY <4>1, <4>2
    <3>4. \A r \in Req : task'[r] \notin {"reconcile", "prepare"}
      BY <1>0, <3>1, <3>2, TaskFrame DEF ApiInv
    <3>5. CASE p = Boot
      BY <1>0, <3>1, <3>2, <3>3, <3>4, <3>5, ApiFrame, BootReturns DEF ApiInv
    <3>6. CASE p # Boot
      BY <1>0, <3>1, <3>2, <3>3, <3>4, <3>6, ApiFrame DEF ApiInv
    <3> QED BY <3>5, <3>6
  <2>2. CASE \E p \in Req \cup Cli : Start(p)
    <3>1. PICK p \in Req \cup Cli : Start(p)
      BY <2>2
    <3>2. Starts(p) /\ api' = api
      BY <3>1, StartFrame
    <3>3. p \in Req => api = "up" /\ task'[p] \notin {"reconcile", "prepare"}
      <4>1. PICK k \in Edits \cup Endpoints \cup Commands \cup {"settings"} :
              Begin(p, k) /\ (p \in Req => k \notin Commands \ Endpoints)
        BY <1>0, <3>1
           DEF Start, CreateNode, UpdateNode, SetEnabled, RegenerateSecret, DeleteNode,
                RegenerateAll,
               UpdateSettings, Post, Command, Operate, Edit, Edits, Commands
      <4> QED BY <1>0, <2>0, <4>1 DEF Begin, Edits, Endpoints, Commands
    <3>4. \A c \in Cli : CliInv(c)'
      BY <1>0, <3>1, <3>2, CliStarts DEF ApiInv, CliInv, Starts
    <3> QED BY <1>0, <3>2, <3>3, <3>4 DEF ApiInv, Starts
  <2>3. CASE StartApi
    BY <1>0, <2>0, <2>3 DEF StartApi, Goto, ApiInv, CliInv
  <2>4. CASE CrashApi
    <3>1. api' = "down" /\ \A q \in Api : pc'[q] = "idle" /\ task'[q] = "none"
      BY <2>4 DEF CrashApi, Crash, Proc
    <3>2. \A c \in Cli : pc'[c] = pc[c] /\ task'[c] = task[c]
      BY <1>0, <2>4 DEF CrashApi, Crash, Api
    <3> QED BY <3>1, <3>2 DEF ApiInv, CliInv, Api
  <2>5. CASE \E p \in Cli : CrashCli(p)
    <3>1. PICK p \in Cli : CrashCli(p)
      BY <2>5
    <3>2. /\ api' = api /\ \A q \in Proc \ {p} : pc'[q] = pc[q] /\ task'[q] = task[q]
          /\ pc'[p] = "idle" /\ task'[p] = "none"
      BY <1>0, <3>1 DEF CrashCli, Crash
    <3> QED BY <1>0, <3>2 DEF ApiInv, CliInv
  <2>6. CASE DataPlaneRestarts \/ UNCHANGED vars
    BY <2>6 DEF DataPlaneRestarts, vars, localVars, ApiInv, CliInv
  <2> QED BY <2>1, <2>2, <2>3, <2>4, <2>5, <2>6 DEF Next, Quiet
<1> QED BY <1>1, <1>2, Invariance, BootInvariance, PTL DEF Spec

\* A crash leaves the formal file as it is, and takes back the promise of a rollback.
LEMMA CrashPublished ==
  ASSUME IInv, IInv', NEW S \in SUBSET Proc, Crash(S)
  PROVE  /\ Published' \in {Published, config}
         /\ (\A q \in S : ~Uncommitted(q)) => Published' = Published
<1>0. /\ config' = config /\ \A q \in S : ~Uncommitted(q)'
      /\ \A q \in Proc \ S : Uncommitted(q)' = Uncommitted(q) /\ prev'[q] = prev[q]
  BY DEF Crash, Uncommitted, fileVars
<1>1. CASE \E q \in Proc : Uncommitted(q)'
  <2>1. PICK q \in Proc : Uncommitted(q)'
    BY <1>1
  <2>2. Uncommitted(q) /\ prev'[q] = prev[q]
    BY <1>0, <2>1
  <2> QED BY <2>1, <2>2, PublishedIs, PublishedThen
<1>2. CASE \A q \in Proc : ~Uncommitted(q)'
  BY <1>0, <1>2, PublishedIs, PublishedThen
<1> QED BY <1>1, <1>2

\* The formal file changes with an installation and its reversal only.
LEMMA FileFrame ==
  ASSUME Reversible, NEW p \in Proc, Step(p), ~Install(p), ~Revert(p)
  PROVE  config' = config
  BY DEF Reversible, Step, fileVars, Flush, FlushTimeout, Settle, AcquireLock, LockTimeout,
         SelectBackup, Compare, Stage, StageFails, Validate, Reject, CheckUnavailable, WriteSidecar,
         BackupFails, CopyConfig, NothingToCopy, ReplaceNodes, InstallFails, Restart,
         RestartFailure, Commit, CommitFails, Unmark, Rerestart, RecordFailure, Abort

\* Only the startup touches the marker.
LEMMA MarkerFrame ==
  ASSUME OnlyCrashes, IInv, NEW p \in Proc, Step(p), FormalSource(p), ApiInv
  PROVE  /\ p # Boot => marker' = marker
         /\ marker' = marker \/ Compare(p) \/ Unmark(p)
<1>1. marker' = marker \/ Compare(p) \/ Unmark(p)
  BY DEF Step, fileVars, Flush, FlushTimeout, Settle, AcquireLock, LockTimeout,
         SelectBackup, Stage, StageFails, Validate, Reject, CheckUnavailable, WriteSidecar,
         BackupFails, CopyConfig, NothingToCopy, ReplaceNodes, Install, InstallFails, Restart,
         RestartFailure, Commit, CommitFails, Revert, Rerestart, RecordFailure, Abort
<1>2. task[p] = "reconcile" => p = Boot
  BY DEF ApiInv, CliInv, Proc, Api
<1>3. Compare(p) \/ Unmark(p) => task[p] = "reconcile"
  BY DEF Compare, Unmark, FormalSource
<1> QED BY <1>1, <1>2, <1>3

\* Past the comparison the startup has written the marker.
LEMMA BootMarks ==
  ASSUME OnlyCrashes, IInv, BootInv, Step(Boot), FormalSource(Boot), ApiInv, MarkerInv, ~marker'
  PROVE  pc'[Boot] \in {"idle", "lock", "compare", "abort"}
<1>0. pc \in [Proc -> Label] /\ Boot \in Proc /\ PathInv(Boot)
  BY DEF IInv, TypeOK, Proc, Api, ProcInv, SessionInv
<1>1. CASE Compare(Boot) \/ Unmark(Boot)
  BY <1>0, <1>1 DEF Compare, Unmark, Return, Leave, Raise, Continue, Goto
<1>2. CASE ~Compare(Boot) /\ ~Unmark(Boot)
  <2>1. ~marker /\ pc[Boot] \in {"lock", "compare", "abort"}
    BY <1>0, <1>2, MarkerFrame, ApiFrame DEF MarkerInv
  <2>2. AcquireLock(Boot) \/ LockTimeout(Boot) \/ Abort(Boot)
    BY <1>2, <2>1
       DEF Step, Flush, FlushTimeout, Settle, SelectBackup, Stage,
         StageFails, Validate, Reject, CheckUnavailable, WriteSidecar, BackupFails, CopyConfig,
         NothingToCopy, ReplaceNodes, Install, InstallFails, Restart, RestartFailure, Commit,
         CommitFails, Revert, Rerestart, RecordFailure
  <2> QED BY <1>0, <2>2
          DEF AcquireLock, AfterLock, LockTimeout, Abort, Leave, Goto, BootInv, PathInv
<1> QED BY <1>1, <1>2

\* The marker outlives every crash between the comparison and the end of the startup.
LEMMA MarkerInvariance ==
  ASSUME OnlyCrashes
  PROVE  Spec => []MarkerInv
<1>0. Boot \in Proc /\ Boot \notin Req \cup Cli
  BY ProcAssumption DEF Proc, Api
<1>1. Init => MarkerInv
  BY <1>0 DEF Init, MarkerInv
<1>2. /\ IInv /\ (\A q \in Proc : FormalSource(q)) /\ BootInv /\ ApiInv /\ MarkerInv /\ [Next]_vars
      => MarkerInv'
  <2> SUFFICES ASSUME IInv, \A q \in Proc : FormalSource(q), BootInv, ApiInv, MarkerInv, [Next]_vars
               PROVE  MarkerInv'
    OBVIOUS
  <2>0. pc \in [Proc -> Label]
    BY DEF IInv, TypeOK
  <2>1. CASE \E p \in Proc : Step(p)
    <3>1. PICK p \in Proc : Step(p)
      BY <2>1
    <3>2. api' = "up" => ~marker'
      <4>1. CASE api # "up"
        BY <4>1, WaysUp
      <4>2. CASE api = "up"
        <5>1. p # Boot
          BY <3>1, <4>2, ApiFrame DEF ApiInv
        <5> QED BY <3>1, <4>2, <5>1, MarkerFrame DEF MarkerInv
      <4> QED BY <4>1, <4>2
    <3>3. ~marker' => pc'[Boot] \in {"idle", "lock", "compare", "abort"}
      <4>1. CASE p = Boot
        BY <3>1, <4>1, <1>0, BootMarks
      <4>2. CASE p # Boot
        <5>1. pc'[Boot] = pc[Boot] /\ marker' = marker
          BY <1>0, <3>1, <4>2, StepAlone, MarkerFrame DEF Alone, Moves
        <5> QED BY <5>1 DEF MarkerInv
      <4> QED BY <4>1, <4>2
    <3> QED BY <3>2, <3>3 DEF MarkerInv
  <2>2. CASE \E p \in Req \cup Cli : Start(p)
    BY <1>0, <2>2, StartFrame DEF Starts, MarkerInv, fileVars
  <2>3. CASE StartApi
    BY <1>0, <2>0, <2>3 DEF StartApi, Goto, MarkerInv, fileVars
  <2>4. CASE CrashApi
    BY <1>0, <2>4 DEF CrashApi, Crash, MarkerInv, fileVars, Api
  <2>5. CASE \E p \in Cli : CrashCli(p)
    BY <1>0, <2>5 DEF CrashCli, Crash, MarkerInv, fileVars
  <2>6. CASE DataPlaneRestarts \/ UNCHANGED vars
    BY <2>6 DEF DataPlaneRestarts, vars, fileVars, MarkerInv
  <2> QED BY <2>1, <2>2, <2>3, <2>4, <2>5, <2>6 DEF Next, Quiet
<1> QED BY <1>1, <1>2, Invariance, SourceInvariance, BootInvariance, ApiInvariance, PTL DEF Spec

\* Where only crashes happen and there is a formal file, sing-box keeps the file it runs or
\* takes that one.
LEMMA RunningFrame ==
  ASSUME OnlyCrashes, IInv, NEW p \in Proc, Step(p)
  PROVE  /\ ~RestartFailure(p) /\ ~Rerestart(p) => (running' = running \/ running' = config)
         /\ Restart(p) => running' = config /\ config' = config /\ nodes' = nodes
         /\ RestartFailure(p) \/ Rerestart(p) =>
              /\ config' = config /\ nodes' = nodes
              /\ config # NoFile => ~RestartFailure(p) /\ running' = config
         /\ ~InstallFails(p)
<1>1. config # NoFile => ~RestartFails
  BY DEF RestartFails, OnlyCrashes
<1>2. ~InstallFails(p)
  BY DEF InstallFails, OnlyCrashes
<1>3. Restart(p) => running' = config /\ config' = config /\ nodes' = nodes
  BY DEF Restart, RestartSucceeds, fileVars, dbVars
<1>4. RestartFailure(p) \/ Rerestart(p) => config' = config /\ nodes' = nodes
  BY DEF RestartFailure, Rerestart, Rollback, EndTransaction, fileVars, dbVars
<1>5. config # NoFile => ~RestartFailure(p) /\ (Rerestart(p) => running' = config)
  BY <1>1 DEF RestartFailure, Rerestart, RestartSucceeds
<1>6. ~Restart(p) /\ ~Rerestart(p) /\ ~RestartFailure(p) => running' = running
  BY <1>2
     DEF Step, Fail, Flush, FlushTimeout, Settle, AcquireLock, LockTimeout,
         SelectBackup, Compare, Stage, StageFails, Validate, Reject, CheckUnavailable, WriteSidecar,
         BackupFails, CopyConfig, NothingToCopy, ReplaceNodes, Install, Commit, CommitFails, Unmark,
         Revert, RecordFailure, Abort
<1> QED BY <1>2, <1>3, <1>4, <1>5, <1>6

\* Without a formal file a plain restart fails, and so does the restart after the reversal of
\* the first installation: the file is not the table's before or after.
LEMMA NothingToRun ==
  ASSUME OnlyCrashes, IInv, IInv', NEW p \in Proc, RestartFailure(p) \/ Rerestart(p), config = NoFile
  PROVE  /\ config' # Inbounds(nodes')
         /\ \A q \in Proc : pc'[q] \notin {"commit", "unmark", "revert"}
<1>1. config' = NoFile /\ nodes' \in Table
  BY RunningFrame DEF Step, IInv, TypeOK
<1>2. config' # Inbounds(nodes')
  BY <1>1, InboundsType, ValueAssumption
<1>3. /\ pc \in [Proc -> Label] /\ pc[p] \in {"restart", "rerestart"} /\ holder = p
      /\ \A q \in Proc \ {p} : pc'[q] = pc[q] /\ pc[q] \notin Critical
  BY StepAlone DEF Step, Alone, Moves, IInv, TypeOK, LockOwner, Critical, RestartFailure, Rerestart
<1>4. RestartFailure(p) => task[p] = "restart"
  <2> SUFFICES ASSUME RestartFailure(p), task[p] # "restart" PROVE FALSE
    OBVIOUS
  <2>1. config = Render(p)
    BY DEF RestartFailure, IInv, ProcInv, StagingInv, Replaced
  <2> QED BY <2>1, RenderType, ValueAssumption DEF IInv
<1>5. pc'[p] \in {"abort", "audit"}
  BY <1>3, <1>4 DEF RestartFailure, Rerestart, Raise, Continue, Goto
<1> QED BY <1>2, <1>3, <1>5 DEF Critical

\* A step that reaches the commit, the end of a startup or a rollback.
LEMMA LateSteps ==
  ASSUME OnlyCrashes, IInv, NEW p \in Proc, Step(p), task[p] # "prepare",
         ~RestartFailure(p)
  PROVE  /\ pc'[p] = "commit" => Restart(p)
         /\ pc'[p] = "unmark" => Commit(p)
         /\ pc'[p] = "revert" => CommitFails(p)
<1>0. pc \in [Proc -> Label] /\ ~InstallFails(p)
  BY RunningFrame DEF IInv, TypeOK
<1> QED BY <1>0
        DEF Goto, Leave, Raise, Return, Continue, Fail, BackedUp, AfterLock,
         Step, Flush, FlushTimeout, Settle, AcquireLock, LockTimeout, SelectBackup, Compare, Stage,
         StageFails, Validate, Reject, CheckUnavailable, WriteSidecar, BackupFails, CopyConfig,
         NothingToCopy, ReplaceNodes, Install, Restart, Commit, CommitFails, Unmark,
         Revert, Rerestart, RecordFailure, Abort

\* Before a request touches the formal file, that file is the committed table's and sing-box
\* runs it.
LEMMA RequestsStartInSync ==
  ASSUME IInv, ApiInv, MarkerInv, RunningInv, NEW r \in Req, r \in Proc, pc[r] # "idle"
  PROVE  /\ api = "up" /\ ~marker /\ Published = Inbounds(nodes)
         /\ (\A q \in Proc : ~Uncommitted(q)) => config = Inbounds(nodes) /\ running = config
  BY PublishedIs DEF ApiInv, MarkerInv, RunningInv, PublishedInv

\* A request gives up its commit only when another one holds the write lock; then it has
\* changed no row itself, and has installed what was installed.
LEMMA GivenUpCommit ==
  ASSUME OnlyCrashes, IInv, ApiInv, MarkerInv, RunningInv, NEW r \in Req, r \in Proc,
         FormalSource(r), CurrentInv(r), CommitFails(r)
  PROVE  config' = config /\ prev'[r] = prev[r] /\ config = prev[r].cfg
<1>1. pc[r] = "commit" /\ config' = config /\ prev' = prev /\ writer # r
  BY DEF CommitFails, WriteTimeout, MayWrite, OnlyCrashes, fileVars, Rollback
<1>2. want[r] = Blank
  BY <1>1 DEF CurrentInv, LoadedInv, InTransaction
<1>3. config = Inbounds(nodes)
  BY <1>1, <1>2, RendersTransaction DEF Rows, IInv, ProcInv, StagingInv, Replaced
<1>4. Uncommitted(r)
  BY <1>1 DEF Uncommitted, FormalSource
<1>5. prev[r].cfg = Inbounds(nodes)
  BY <1>1, <1>4, RequestsStartInSync, PublishedIs
<1> QED BY <1>1, <1>3, <1>5

\* The step that moves, and the two conditions on what sing-box runs.
LEMMA RunningStep ==
  ASSUME OnlyCrashes, OwnRows, IInv, IInv', BootInv, ApiInv, MarkerInv, RunningInv,
         \A q \in Proc : FormalSource(q) /\ CurrentInv(q), NEW p \in Proc, Step(p)
  PROVE  /\ ~marker' /\ config' = Inbounds(nodes') => running' = config'
         /\ \A q \in Proc : pc'[q] \in {"commit", "unmark"} => running' = config'
         /\ \A r \in Req : pc'[r] = "revert" => config' = prev'[r].cfg
<1>0. /\ Reversible /\ Boot \in Proc /\ task[p] # "prepare"
      /\ p \in Req \/ p \in Cli \/ p = Boot
      /\ \A q \in Proc : pc[q] \in Critical => holder = q
      /\ pc \in [Proc -> Label]
  BY DEF OnlyCrashes, Reversible, ApiInv, CliInv, BootInv, Proc, Api, IInv, LockOwner, TypeOK
<1>1. \A q \in Proc \ {p} : pc'[q] = pc[q] /\ task'[q] = task[q] /\ prev'[q] = prev[q]
  BY StepAlone DEF Alone, Moves
<1>2. CASE Install(p)
  <2>1. /\ holder = p /\ nodes' = nodes /\ running' = running /\ marker' = marker
        /\ pc'[p] = "restart" /\ pc[p] = "install"
    BY <1>0, <1>2 DEF Install, Continue, Goto, Critical, dbVars
  <2>2. \A q \in Proc : pc'[q] \notin {"commit", "unmark", "revert"}
    BY <1>0, <1>1, <2>1 DEF Critical
  <2>3. CASE p = Boot
    BY <2>1, <2>2, <2>3 DEF MarkerInv, Proc, Api
  <2>4. CASE p \in Req
    <3>1. \A q \in Proc : ~Uncommitted(q)
      BY <2>1, PublishedIs DEF Uncommitted
    <3>2. config = Inbounds(nodes) /\ running = config
      BY <2>1, <2>4, <3>1, RequestsStartInSync
    <3> QED BY <2>1, <2>2, <3>2 DEF Proc, Api
  <2> QED BY <1>0, <2>1, <2>3, <2>4 DEF ApiInv, CliInv
<1>3. CASE Revert(p)
  <2>1. /\ holder = p /\ nodes' = nodes /\ running' = running /\ marker' = marker
        /\ config' = prev[p].cfg /\ pc'[p] \in {"abort", "rerestart"} /\ pc[p] = "revert"
    BY <1>0, <1>3 DEF Revert, Reversible, Raise, Goto, Critical, dbVars
  <2>2. \A q \in Proc : pc'[q] \notin {"commit", "unmark", "revert"}
    BY <1>0, <1>1, <2>1 DEF Critical
  <2>3. CASE p = Boot
    BY <2>1, <2>2, <2>3 DEF MarkerInv, Proc, Api
  <2>4. CASE p \in Req
    BY <2>1, <2>2, <2>4 DEF RunningInv, Proc, Api
  <2> QED BY <1>0, <2>1, <2>3, <2>4 DEF ApiInv, CliInv
<1>4. CASE Commit(p)
  <2>1. /\ holder = p /\ config' = config /\ running' = running /\ pc[p] = "commit"
        /\ pc'[p] \in {"idle", "unmark"}
    BY <1>0, <1>4 DEF Commit, Continue, Return, Leave, Goto, Critical, fileVars
  <2>2. running = config
    BY <2>1 DEF RunningInv
  <2>3. \A q \in Proc : pc'[q] # "revert"
    BY <1>0, <1>1, <2>1 DEF Critical
  <2> QED BY <2>1, <2>2, <2>3 DEF Proc, Api
<1>5. CASE config = NoFile /\ (RestartFailure(p) \/ Rerestart(p))
  BY <1>5, NothingToRun DEF Proc, Api
<1>6. CASE /\ ~Install(p) /\ ~Revert(p) /\ ~Commit(p)
           /\ config # NoFile \/ (~RestartFailure(p) /\ ~Rerestart(p))
  <2>1. /\ config' = config /\ nodes' = nodes /\ ~RestartFailure(p)
        /\ running' = running \/ running' = config
    BY <1>0, <1>6, FileFrame, TableFrame, RunningFrame
  <2>2. ~marker' /\ config' = Inbounds(nodes') => running' = config'
    <3>1. Unmark(p) => running = config
      BY DEF Unmark, RunningInv
    <3>2. Compare(p) /\ ~marker' => ~marker
      BY DEF Compare
    <3> QED BY <2>1, <3>1, <3>2, MarkerFrame DEF RunningInv
  <2>3. \A q \in Proc : pc'[q] \in {"commit", "unmark"} => running' = config'
    BY <1>0, <1>1, <1>6, <2>1, LateSteps, RunningFrame DEF RunningInv
  <2>4. \A r \in Req : pc'[r] = "revert" => config' = prev'[r].cfg
    <3>1. p \in Req /\ pc'[p] = "revert" => config' = prev'[p].cfg
      BY <1>0, <2>1, LateSteps, GivenUpCommit
    <3> QED BY <1>1, <2>1, <3>1 DEF RunningInv, Proc, Api
  <2> QED BY <2>2, <2>3, <2>4
<1> QED BY <1>2, <1>3, <1>4, <1>5, <1>6

\* A crash is one of the API or of a command line, whatever else happens.
LEMMA KindsOfCrash ==
  ASSUME IInv, [Next]_vars, NEW S \in SUBSET Proc, Crash(S)
  PROVE  CrashApi \/ \E c \in Cli : CrashCli(c)
<1>0. /\ crashes \in Nat /\ crashes' = crashes + 1
      /\ \E p \in Proc : pc'[p] # pc[p]
  BY DEF IInv, TypeOK, Crash
<1>1. ASSUME NEW p \in Proc, Step(p) PROVE crashes' = crashes
  BY <1>1 DEF Step, boundVars, Flush, FlushTimeout, Settle, AcquireLock, LockTimeout,
         SelectBackup, Compare, Stage, StageFails, Fail, Validate, Reject, CheckUnavailable,
         WriteSidecar,
         BackupFails, CopyConfig, NothingToCopy, ReplaceNodes, Install, InstallFails, Restart,
         RestartFailure, Commit, CommitFails, Unmark, Revert, Rerestart, RecordFailure, Abort
<1>2. ASSUME NEW p \in Req \cup Cli, Start(p) PROVE crashes' = crashes
  BY <1>2 DEF Start, CreateNode, UpdateNode, SetEnabled, RegenerateSecret, DeleteNode,
       RegenerateAll,
         UpdateSettings, Post, Command, Operate, Edit, Begin
<1>3. ~StartApi /\ ~DataPlaneRestarts /\ ~Quiet /\ ~(UNCHANGED vars)
  BY <1>0 DEF StartApi, DataPlaneRestarts, Quiet, vars, boundVars
<1> QED BY <1>0, <1>1, <1>2, <1>3 DEF Next

\* While the API serves, the file that counts is the committed table's.
LEMMA PublishedWhileUp ==
  ASSUME OnlyCrashes, OwnRows, IInv, IInv', BootInv, ApiInv, RunningInv,
         \A q \in Proc : FormalSource(q) /\ CurrentInv(q), [Next]_vars, api' = "up"
  PROVE  PublishedInv'
<1>1. CASE api # "up"
  <2>1. /\ config' = Inbounds(nodes') /\ holder = Boot /\ pc'[Boot] = "idle"
        /\ \E p \in Proc : Step(p)
    BY <1>1, WaysUp
  <2>2. PICK p \in Proc : Step(p)
    BY <2>1
  <2>3. p = Boot
    BY <1>1, <2>2, ApiFrame
  <2>4. \A q \in Proc \ {Boot} : Uncommitted(q)' = Uncommitted(q) /\ ~Uncommitted(q)
    BY <2>1, <2>2, <2>3, StepAlone, PublishedIs DEF Alone, Moves, Uncommitted
  <2>5. \A q \in Proc : ~Uncommitted(q)'
    BY <2>1, <2>4 DEF Uncommitted
  <2> QED BY <2>1, <2>5, PublishedThen DEF PublishedInv
<1>2. CASE api = "up" /\ \E p \in Proc : Commit(p)
  BY <1>2, CommitPublishes
<1>3. CASE api = "up" /\ \E c \in Cli : CrashCli(c)
  <2>1. PICK c \in Cli : CrashCli(c)
    BY <1>3
  <2>2. {c} \in SUBSET Proc /\ Crash({c}) /\ ~Uncommitted(c) /\ nodes' = nodes
    BY <2>1 DEF CrashCli, Crash, Proc, Uncommitted, ApiInv, CliInv
  <2>3. Published' = Published
    BY <2>2, CrashPublished
  <2> QED BY <1>3, <2>2, <2>3 DEF RunningInv, PublishedInv
<1>4. CASE api = "up" /\ (\A p \in Proc : ~Commit(p)) /\ \A S \in SUBSET Proc : ~Crash(S)
  <2>1. Published' = Published
    BY <1>4, PublishedStep DEF OnlyCrashes, Reversible
  <2>2. nodes' = nodes
    BY <1>4, TableFrame, NextCases DEF Starts, dbVars
  <2> QED BY <1>4, <2>1, <2>2 DEF RunningInv, PublishedInv
<1>5. (\E c \in Cli : CrashCli(c)) \/ \A S \in SUBSET Proc : ~Crash(S)
  BY KindsOfCrash DEF CrashApi
<1> QED BY <1>1, <1>2, <1>3, <1>4, <1>5

\* A crash drops operations, and neither the table, the files nor what sing-box runs.
LEMMA RunningCrash ==
  ASSUME IInv, IInv', ApiInv, RunningInv, [Next]_vars, NEW S \in SUBSET Proc, Crash(S)
  PROVE  /\ ~marker' /\ config' = Inbounds(nodes') => running' = config'
         /\ \A q \in Proc : pc'[q] \in {"commit", "unmark"} => running' = config'
         /\ \A r \in Req : pc'[r] = "revert" => config' = prev'[r].cfg
<1>1. UNCHANGED <<nodes, config, marker, running>>
  BY DEF Crash, fileVars
<1>2. \A q \in Proc : pc'[q] = "idle" \/ (pc'[q] = pc[q] /\ prev'[q] = prev[q])
  BY DEF Crash
<1> QED BY <1>1, <1>2 DEF RunningInv, Proc, Api

\* Hence what sing-box runs is known wherever file and table agree without a marker.
LEMMA RunningInvariance ==
  ASSUME OnlyCrashes, OwnRows
  PROVE  Spec => []RunningInv
<1>0. Reversible
  BY DEF OnlyCrashes, Reversible
<1>1. Init => RunningInv
  <2> SUFFICES ASSUME Init PROVE RunningInv
    OBVIOUS
  <2>1. ~Installed => config # Inbounds(nodes) /\ api # "up"
    BY InboundsType, SeedAssumption, ValueAssumption DEF Init
  <2> QED BY <2>1 DEF Init, RunningInv, PublishedInv, Published, Uncommitted, Proc, Api
<1>2. /\ IInv /\ IInv' /\ (\A q \in Proc : FormalSource(q)) /\ (\A q \in Proc : CurrentInv(q))
      /\ BootInv /\ ApiInv /\ MarkerInv /\ RunningInv /\ [Next]_vars
      => RunningInv'
  <2> SUFFICES ASSUME IInv, IInv', \A q \in Proc : FormalSource(q), \A q \in Proc : CurrentInv(q),
                      BootInv, ApiInv, MarkerInv, RunningInv, [Next]_vars
               PROVE  RunningInv'
    OBVIOUS
  <2>1. api' = "up" => PublishedInv'
    BY PublishedWhileUp
  <2>2. CASE \E p \in Proc : Step(p)
    BY <2>1, <2>2, RunningStep DEF RunningInv
  <2>3. CASE \E S \in SUBSET Proc : Crash(S)
    BY <2>1, <2>3, RunningCrash DEF RunningInv
  <2>4. CASE \E p \in Proc : Starts(p)
    <3>1. PICK p \in Proc : Starts(p)
      BY <2>4
    <3>2. /\ UNCHANGED <<nodes, config, marker, running, prev>>
          /\ \A q \in Proc : pc'[q] = pc[q] \/ pc'[q] \in {"flush", "lock"}
      BY <3>1 DEF Starts, dbVars, fileVars
    <3> QED BY <2>1, <3>2 DEF RunningInv, Proc, Api
  <2>5. CASE DataPlaneRestarts \/ UNCHANGED vars
    BY <2>1, <2>5 DEF DataPlaneRestarts, vars, dbVars, fileVars, localVars, RunningInv
  <2> QED BY <2>2, <2>3, <2>4, <2>5, StartFrame, StartApiFrame
          DEF Next, Quiet, CrashApi, CrashCli, Proc, Api
<1> QED BY <1>0, <1>1, <1>2, Invariance, SourceInvariance, CurrentInvariance,
           BootInvariance, ApiInvariance, MarkerInvariance, PTL DEF Spec

\* Where no two processes change a row and nothing fails but by crashes of the API, of a
\* command line or of sing-box, the API serves only when sing-box runs the formal file: one
\* that was installed and not restarted before a crash is caught by the marker or by its
\* difference from the table (lifespan, reconcile_with_database).
THEOREM ServiceStartsRunning ==
  ASSUME OnlyCrashes, OwnRows
  PROVE  Spec => ServesRunning
<1>1. IInv /\ BootInv /\ RunningInv /\ [Next]_vars
      => [api # "up" /\ api' = "up" => running' = config']_vars
  <2> SUFFICES ASSUME IInv, BootInv, RunningInv, [Next]_vars, api # "up", api' = "up"
               PROVE  running' = config'
    OBVIOUS
  <2>1. /\ UNCHANGED <<nodes, config, running>> /\ config = Inbounds(nodes)
        /\ pc[Boot] \in {"compare", "unmark"} /\ (pc[Boot] = "compare" => ~marker)
    BY WaysUp
  <2>2. running = config
    BY <2>1 DEF RunningInv, Proc, Api
  <2> QED BY <2>1, <2>2
<1> QED BY <1>1, Invariance, BootInvariance, RunningInvariance, PTL DEF Spec, ServesRunning

==============================================================================
