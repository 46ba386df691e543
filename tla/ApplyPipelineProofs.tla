------------------------- MODULE ApplyPipelineProofs -------------------------
(***************************************************************************)
(* The safety properties of ApplyPipeline that hold for every instance:    *)
(* any number of nodes, requests and commands, any scripts, any faults.    *)
(* They follow from IInv (module ApplyInvariant), which every step keeps.  *)
(***************************************************************************)
EXTENDS ApplyInvariant, TLAPS

------------------------------------------------------------------------------
(* What the operators return.                                              *)

\* The file generated from a table has one entry, perhaps Absent, for each node.
LEMMA InboundsType == \A t \in Table : Inbounds(t) \in Config
  BY DEF Inbounds, Table, Config, Row

\* A request renders a complete table, whatever its session has loaded.
LEMMA RenderType == ASSUME TypeOK, NEW p \in Proc PROVE Render(p) \in Config
<1>1. Rows(p) \in Table
  BY DEF TypeOK, Rows
<1>2. want[p] \in Session
  BY DEF TypeOK
<1>3. View(p) \in Table
  BY <1>1, <1>2, ValueAssumption DEF View, Table, Session
<1> QED BY <1>3, InboundsType DEF Render

\* A flush leaves a complete table in the transaction.
LEMMA WrittenType ==
  ASSUME TypeOK, NEW p \in Proc
  PROVE [n \in Node |-> Written(p, n)] \in Table
<1>1. nodes \in Table /\ seen[p] \in Session /\ want[p] \in Session
  BY DEF TypeOK
<1>2. ASSUME NEW n \in Node PROVE Written(p, n) \in Row \cup {Absent}
  <2>1. nodes[n] \in Row \cup {Absent}
    BY <1>1 DEF Table
  <2>2. /\ seen[p][n] \in Row \cup {Absent, Unloaded}
        /\ want[p][n] \in Row \cup {Absent, Unloaded}
    BY <1>1 DEF Session
  <2>3. CASE want[p][n] = Unloaded
    BY <2>1, <2>3 DEF Written
  <2>4. CASE want[p][n] # Unloaded /\ (want[p][n] = Absent \/ seen[p][n] = Absent)
    BY <2>2, <2>4 DEF Written
  <2>5. CASE want[p][n] # Unloaded /\ want[p][n] # Absent /\ seen[p][n] # Absent
    BY <2>1, <2>2, <2>5 DEF Written, Row
  <2> QED BY <2>3, <2>4, <2>5
<1> QED BY <1>2 DEF Table

------------------------------------------------------------------------------
(* One process moves.                                                      *)

\* What a step of p may disturb of the others: it writes the committed table and the files
\* only as the holder of the operation lock, and takes a lock only when it is free.
Moves(p) ==
  /\ \A q \in Proc \ {p} : /\ pc'[q] = pc[q] /\ task'[q] = task[q]
                           /\ want'[q] = want[q] /\ prev'[q] = prev[q]
  /\ nodes' = nodes \/ (holder = p /\ writer \in {p, NoProc})
  /\ \/ writer' = writer /\ pending' = pending
     \/ writer \in {p, NoProc} /\ writer' \in {p, NoProc}
  /\ holder = p \/ UNCHANGED <<staging, config, backups>>
  /\ \/ holder' = holder /\ (pc'[p] \in Critical <=> pc[p] \in Critical)
     \/ holder = p /\ holder' = NoProc /\ pc'[p] \notin Critical
     \/ holder = NoProc /\ holder' = p /\ pc'[p] \in Critical

\* The other processes keep their part of the invariant: one inside the operation lock
\* finds the files, the table and its own transaction as they were.
LEMMA OthersKeep ==
  ASSUME IInv, NEW p \in Proc, Moves(p), NEW q \in Proc, q # p
  PROVE  ProcInv(q)'
<1> USE DEF IInv, Moves
<1>0. ProcInv(q) /\ q # NoProc
  BY ProcAssumption
<1>1. pc'[q] = pc[q] /\ task'[q] = task[q] /\ want'[q] = want[q] /\ prev'[q] = prev[q]
  OBVIOUS
<1>2. CASE pc[q] \in Critical
  <2>1. holder = q
    BY <1>2 DEF LockOwner
  <2>2. nodes' = nodes /\ staging' = staging /\ config' = config /\ backups' = backups
    BY <2>1
  <2>3. Rows(q)' = Rows(q)
    BY <2>2, <1>0 DEF Rows
  <2>4. Render(q)' = Render(q)
    BY <2>3, <1>1 DEF Render, View
  <2>5. SessionInv(q)' /\ ChosenInv(q)'
    BY <1>0, <1>1, <1>2 DEF ProcInv, SessionInv, PathInv, ChosenInv, Critical
  <2>6. StagingInv(q)'
    BY <1>0, <1>1, <2>2, <2>4 DEF ProcInv, StagingInv, Approved, Replaced
  <2>7. SourceInv(q)'
    BY <1>0, <1>1, <2>2 DEF ProcInv, SourceInv, NoSource, NeedsSource
  <2> QED BY <2>5, <2>6, <2>7 DEF ProcInv
<1>3. CASE pc[q] \notin Critical
  <2>1. SessionInv(q)'
    BY <1>0, <1>1 DEF ProcInv, SessionInv, PathInv
  <2>2. ChosenInv(q)' /\ StagingInv(q)'
    BY <1>1, <1>3 DEF ChosenInv, StagingInv, Approved, Replaced, Critical
  <2>3. SourceInv(q)'
    BY <1>0, <1>1, <1>3 DEF ProcInv, SourceInv, NoSource, NeedsSource, Critical
  <2> QED BY <2>1, <2>2, <2>3 DEF ProcInv
<1> QED BY <1>2, <1>3

\* So it is enough to look at the process that moves.
LEMMA OneMoves ==
  ASSUME IInv, NEW p \in Proc, Moves(p),
         TypeOK', NoOpenChanges', Sound(config)', ProcInv(p)'
  PROVE  IInv'
<1>1. LockOwner'
  <2>1. p # NoProc /\ LockOwner
    BY ProcAssumption DEF IInv
  <2>2. ASSUME NEW q \in Proc, q # p PROVE pc'[q] = pc[q] /\ q # NoProc
    BY ProcAssumption, <2>2 DEF Moves
  <2> QED BY <2>1, <2>2 DEF LockOwner, Moves
<1>2. \A q \in Proc : ProcInv(q)'
  BY OthersKeep
<1> QED BY <1>1, <1>2 DEF IInv

------------------------------------------------------------------------------
(* Where a handler ends up.                                                *)

\* Outside the operation lock, or inside it with nothing rendered and nothing to undo, the
\* invariant asks little of a process.
LEMMA NothingAtStake ==
  ASSUME TypeOK, NEW p \in Proc, ProcInv(p), pc[p] # "idle",
         pc'[p] \in {"abort", "audit", "unmark", "rerestart"},
         task'[p] = task[p], want'[p] \in {want[p], Blank}, prev'[p] = prev[p]
  PROVE  ProcInv(p)'
<1>1. SessionInv(p)'
  BY DEF ProcInv, SessionInv, PathInv, Blank
<1>2. ChosenInv(p)' /\ StagingInv(p)'
  BY DEF ChosenInv, StagingInv, Approved, Replaced
<1>3. SourceInv(p)'
  BY DEF ProcInv, SourceInv, NoSource, NeedsSource
<1> QED BY <1>1, <1>2, <1>3 DEF ProcInv

\* A handler that has returned holds nothing.
LEMMA HasLeft ==
  ASSUME NEW p \in Proc, pc'[p] = "idle", task'[p] = "none",
         want'[p] = Blank, prev'[p] = NoPrev
  PROVE  ProcInv(p)'
<1>1. SessionInv(p)'
  BY DEF SessionInv, PathInv, Blank
<1>2. ChosenInv(p)' /\ StagingInv(p)'
  BY DEF ChosenInv, StagingInv, Approved, Replaced
<1>3. SourceInv(p)'
  BY DEF SourceInv, Sound, NoPrev, NoSource, NeedsSource
<1> QED BY <1>1, <1>2, <1>3 DEF ProcInv

\* A handler that waits for a lock or for its first statement has no rollback source.
LEMMA Waiting ==
  ASSUME TypeOK, NEW p \in Proc, ProcInv(p),
         pc'[p] \in {"flush", "lock"}, prev'[p] = prev[p], prev[p].cfg = NoFile,
         task'[p] # "none", pc'[p] = "lock" => task'[p] # "settings",
         task'[p] \in {"none", "settings", "restart"} => want'[p] = Blank
  PROVE  ProcInv(p)'
<1>1. SessionInv(p)' /\ ChosenInv(p)' /\ StagingInv(p)'
  BY DEF SessionInv, PathInv, ChosenInv, StagingInv, Approved, Replaced
<1>2. SourceInv(p)'
  BY DEF SourceInv, Sound, NoSource, NeedsSource
<1> QED BY <1>1, <1>2 DEF ProcInv

------------------------------------------------------------------------------
(* The initial state.                                                      *)

LEMMA InitKeeps == Init => IInv
<1> SUFFICES ASSUME Init PROVE IInv
  OBVIOUS
<1>1. nodes \in Table /\ Sound(Inbounds(nodes)) /\ Inbounds(nodes) \in Config
  BY SeedAssumption, InboundsType DEF Init, Sound
<1>2. NoPrev \in [cfg : File, state : Table] /\ Blank \in Session
  BY DEF NoPrev, Blank, File, Table, Session
<1>3. TypeOK
  <2>1. /\ nodes \in Table /\ pending \in Table
        /\ writer \in Proc \cup {NoProc} /\ holder \in Proc \cup {NoProc}
        /\ staging \in File /\ config \in File /\ running \in Config \cup {Down}
        /\ marker \in BOOLEAN /\ api \in {"down", "starting", "up"}
    BY <1>1, InstalledAssumption DEF Init, File
  <2>2. backups \in Seq(Backup)
    BY DEF Init
  <2>3. pc \in [Proc -> Label] /\ task \in [Proc -> Task] /\ begun \in Nat /\ crashes \in Nat
    BY DEF Init, Label, Task
  <2>4. /\ seen \in [Proc -> Session] /\ want \in [Proc -> Session]
        /\ prev \in [Proc -> [cfg : File, state : Table]]
    BY <1>2 DEF Init
  <2> QED BY <2>1, <2>2, <2>3, <2>4 DEF TypeOK
<1>4. LockOwner /\ NoOpenChanges /\ Sound(config)
  BY <1>1, ProcAssumption DEF Init, LockOwner, NoOpenChanges, Critical, Sound
<1>5. ASSUME NEW p \in Proc PROVE ProcInv(p)
  BY DEF Init, ProcInv, SessionInv, PathInv, ChosenInv, StagingInv, SourceInv, Sound, Approved,
         Replaced, NoSource, NeedsSource, NoPrev
<1> QED BY <1>3, <1>4, <1>5 DEF IInv

------------------------------------------------------------------------------
(* Starting a handler.                                                     *)

\* Whatever rows a handler loads and changes, starting it keeps the invariant.
LEMMA EditKeeps ==
  ASSUME IInv, NEW p \in Req \cup Cli, NEW k \in Task \ {"none", "restart"},
         NEW S \in SUBSET Node, NEW w, \A n \in S : w[n] \in Row \cup {Absent},
         k = "settings" => S = {}, Edit(p, k, S, w)
  PROVE  IInv'
<1>0. p \in Proc /\ TypeOK /\ ProcInv(p) /\ pc[p] = "idle"
  BY DEF IInv, Edit, Begin, Proc, Api
<1>1. TypeOK'
  <2>1. nodes \in Table
    BY <1>0 DEF TypeOK
  <2>2. [n \in Node |-> IF n \in S THEN nodes[n] ELSE Unloaded] \in Session
    BY <2>1 DEF Table, Session
  <2>3. [n \in Node |-> IF n \in S THEN w[n] ELSE Unloaded] \in Session
    BY DEF Session
  <2> QED BY <1>0, <2>2, <2>3
          DEF TypeOK, Edit, Begin, Goto, Label, dbVars, fileVars
<1>2. Moves(p)
  BY <1>0 DEF Moves, TypeOK, Edit, Begin, Goto, Critical, dbVars, fileVars
<1>3. NoOpenChanges' /\ Sound(config)'
  BY DEF IInv, NoOpenChanges, Edit, Begin, dbVars, fileVars
<1>4. ProcInv(p)'
  <2>1. task'[p] = k /\ pc'[p] = "flush" /\ prev'[p] = prev[p]
    BY <1>0 DEF TypeOK, Edit, Begin, Goto
  <2>2. k = "settings" => want'[p] = Blank
    BY <1>0 DEF TypeOK, Edit, Blank
  <2>3. prev[p].cfg = NoFile
    BY <1>0 DEF ProcInv, SourceInv, NoSource
  <2> QED BY <1>0, <2>1, <2>2, <2>3, Waiting
<1> QED BY <1>0, <1>1, <1>2, <1>3, <1>4, OneMoves

LEMMA OperateKeeps ==
  ASSUME IInv, NEW p \in Req \cup Cli, NEW K \in SUBSET (Task \ {"none", "settings"}),
         Operate(p, K)
  PROVE  IInv'
<1>0. p \in Proc /\ TypeOK /\ ProcInv(p) /\ pc[p] = "idle" /\ task[p] = "none"
  BY DEF IInv, Operate, Begin, Proc, Api, ProcInv, SessionInv, PathInv
<1>1. TypeOK'
  BY <1>0 DEF TypeOK, Operate, Begin, Goto, Label, dbVars, fileVars
<1>2. Moves(p)
  BY <1>0 DEF Moves, TypeOK, Operate, Begin, Goto, Critical, dbVars, fileVars
<1>3. NoOpenChanges' /\ Sound(config)'
  BY DEF IInv, NoOpenChanges, Operate, Begin, dbVars, fileVars
<1>4. ProcInv(p)'
  <2>0. task'[p] # "none" /\ task'[p] # "settings"
    BY <1>0 DEF TypeOK, Operate, Begin
  <2>1. pc'[p] = "lock" /\ prev'[p] = prev[p] /\ want'[p] = want[p]
    BY <1>0 DEF TypeOK, Operate, Begin, Goto
  <2>2. prev[p].cfg = NoFile /\ want[p] = Blank
    BY <1>0 DEF ProcInv, SourceInv, NoSource, SessionInv, PathInv
  <2>3. want'[p] = Blank
    BY <2>1, <2>2
  <2> QED BY <1>0, <2>0, <2>1, <2>2, <2>3, Waiting
<1> QED BY <1>0, <1>1, <1>2, <1>3, <1>4, OneMoves

LEMMA EditOneKeeps ==
  ASSUME IInv, NEW p \in Req \cup Cli, NEW k \in Edits,
         NEW n \in Node, NEW r \in Row \cup {Absent}, Edit(p, k, {n}, [m \in {n} |-> r])
  PROVE  IInv'
<1>1. k \in Task \ {"none", "restart"} /\ k # "settings"
  BY DEF Edits, Task
<1>2. \A m \in {n} : [x \in {n} |-> r][m] \in Row \cup {Absent}
  OBVIOUS
<1> QED BY <1>1, <1>2, EditKeeps

LEMMA StartKeeps == ASSUME IInv, NEW p \in Req \cup Cli, Start(p) PROVE IInv'
<1>0. nodes \in Table
  BY DEF IInv, TypeOK
<1>1. CASE CreateNode(p)
  <2>1. PICK n \in Target[p], r \in Row : Edit(p, "create", {n}, [m \in {n} |-> r])
    BY <1>1 DEF CreateNode
  <2>2. n \in Node
    BY <2>1, ScenarioAssumption
  <2> QED BY <2>1, <2>2, EditOneKeeps DEF Edits
<1>2. CASE UpdateNode(p)
  <2>1. PICK n \in Target[p], r \in Row : Edit(p, "update", {n}, [m \in {n} |-> r])
    BY <1>2 DEF UpdateNode, Existing
  <2>2. n \in Node
    BY <2>1, ScenarioAssumption
  <2> QED BY <2>1, <2>2, EditOneKeeps DEF Edits
<1>3. CASE SetEnabled(p)
  <2>1. PICK n \in Existing(Target[p]), e \in BOOLEAN :
          Edit(p, "setEnabled", {n}, [m \in {n} |-> [nodes[n] EXCEPT !.enabled = e]])
    BY <1>3 DEF SetEnabled
  <2>2. n \in Node /\ [nodes[n] EXCEPT !.enabled = e] \in Row
    BY <1>0, <2>1, ScenarioAssumption DEF Existing, Table, Row
  <2> QED BY <2>1, <2>2, EditOneKeeps DEF Edits
<1>4. CASE RegenerateSecret(p)
  <2>1. PICK n \in Existing(Target[p]), c \in Cfg :
          Edit(p, "regenerate", {n}, [m \in {n} |-> [nodes[n] EXCEPT !.cfg = c]])
    BY <1>4 DEF RegenerateSecret
  <2>2. n \in Node /\ [nodes[n] EXCEPT !.cfg = c] \in Row
    BY <1>0, <2>1, ScenarioAssumption DEF Existing, Table, Row
  <2> QED BY <2>1, <2>2, EditOneKeeps DEF Edits
<1>5. CASE DeleteNode(p)
  <2>1. PICK n \in Target[p] : Edit(p, "delete", {n}, [m \in {n} |-> Absent])
    BY <1>5 DEF DeleteNode, Existing
  <2>2. n \in Node
    BY <2>1, ScenarioAssumption
  <2> QED BY <2>1, <2>2, EditOneKeeps DEF Edits
<1>6. CASE RegenerateAll(p)
  <2>1. PICK c \in [Existing(Node) -> Cfg] :
          Edit(p, "regenerateAll", Existing(Node),
               [n \in Existing(Node) |-> [nodes[n] EXCEPT !.cfg = c[n]]])
    BY <1>6 DEF RegenerateAll
  <2>2. \A n \in Existing(Node) :
          [m \in Existing(Node) |-> [nodes[m] EXCEPT !.cfg = c[m]]][n] \in Row
    BY <1>0, <2>1 DEF Existing, Table, Row
  <2>3. Existing(Node) \subseteq Node
    BY DEF Existing
  <2> QED BY <2>1, <2>2, <2>3, EditKeeps DEF Task, Edits
<1>7. CASE UpdateSettings(p)
  BY <1>7, EditKeeps DEF UpdateSettings, Task
<1>8. CASE Post(p)
  BY <1>8, OperateKeeps DEF Post, Endpoints, Task
<1>9. CASE Command(p)
  BY <1>9, OperateKeeps DEF Command, Commands, Task
<1> QED BY <1>1, <1>2, <1>3, <1>4, <1>5, <1>6, <1>7, <1>8, <1>9 DEF Start

LEMMA StartApiKeeps == ASSUME IInv, StartApi PROVE IInv'
<1>0. Boot \in Proc /\ TypeOK /\ ProcInv(Boot) /\ pc[Boot] = "idle" /\ task[Boot] = "none"
  BY DEF IInv, StartApi, Proc, Api, ProcInv, SessionInv, PathInv
<1>1. TypeOK'
  BY <1>0 DEF TypeOK, StartApi, Goto, Label, Task, dbVars, fileVars, boundVars
<1>2. Moves(Boot)
  BY <1>0 DEF Moves, TypeOK, StartApi, Goto, Critical, dbVars, fileVars
<1>3. NoOpenChanges' /\ Sound(config)'
  BY DEF IInv, NoOpenChanges, StartApi, dbVars, fileVars
<1>4. ProcInv(Boot)'
  <2>1. pc'[Boot] = "lock" /\ prev'[Boot] = prev[Boot] /\ task'[Boot] = "reconcile"
    BY <1>0 DEF TypeOK, StartApi, Goto
  <2>2. prev[Boot].cfg = NoFile
    BY <1>0 DEF ProcInv, SourceInv, NoSource
  <2> QED BY <1>0, <2>1, <2>2, Waiting
<1> QED BY <1>0, <1>1, <1>2, <1>3, <1>4, OneMoves

------------------------------------------------------------------------------
(* Steps that give up, and steps that return.                              *)

LEMMA GivingUp ==
  ASSUME IInv, NEW p \in Proc, Moves(p), TypeOK', NoOpenChanges', Sound(config)', pc[p] # "idle",
         pc'[p] \in {"abort", "audit", "unmark", "rerestart"},
         task'[p] = task[p], want'[p] \in {want[p], Blank}, prev'[p] = prev[p]
  PROVE  IInv'
<1>1. TypeOK /\ ProcInv(p)
  BY DEF IInv
<1> QED BY <1>1, NothingAtStake, OneMoves

LEMMA Returning ==
  ASSUME IInv, NEW p \in Proc, Moves(p), TypeOK', NoOpenChanges', Sound(config)', Leave(p)
  PROVE  IInv'
<1>1. pc'[p] = "idle" /\ task'[p] = "none" /\ want'[p] = Blank /\ prev'[p] = NoPrev
  BY DEF IInv, TypeOK, Leave, Goto, Expire
<1> QED BY <1>1, HasLeft, OneMoves

\* Leaving changes the types of nothing.
LEMMA LeaveType ==
  ASSUME TypeOK, NEW p \in Proc, Leave(p)
  PROVE  /\ pc' \in [Proc -> Label] /\ task' \in [Proc -> Task]
         /\ seen' \in [Proc -> Session] /\ want' \in [Proc -> Session]
         /\ prev' \in [Proc -> [cfg : File, state : Table]]
<1>1. NoPrev \in [cfg : File, state : Table] /\ Blank \in Session
  BY DEF NoPrev, Blank, File, Table, Session
<1> QED BY <1>1 DEF TypeOK, Leave, Goto, Expire, Label, Task

\* Nor does a rollback.
LEMMA RollbackType ==
  ASSUME TypeOK, NEW p \in Proc, Rollback(p)
  PROVE  /\ nodes' \in Table /\ pending' \in Table /\ writer' \in Proc \cup {NoProc}
         /\ task' \in [Proc -> Task]
         /\ seen' \in [Proc -> Session] /\ want' \in [Proc -> Session]
         /\ prev' \in [Proc -> [cfg : File, state : Table]]
<1>1. Blank \in Session
  BY DEF Blank, Session
<1> QED BY <1>1 DEF TypeOK, Rollback, EndTransaction, Expire

\* A rollback leaves the committed table alone and closes no transaction but p's.
LEMMA RollbackFrame ==
  ASSUME IInv, NEW p \in Proc, Rollback(p)
  PROVE  /\ NoOpenChanges' /\ nodes' = nodes
         /\ \/ writer' = writer /\ pending' = pending
            \/ writer \in {p, NoProc} /\ writer' \in {p, NoProc}
         /\ \A q \in Proc \ {p} : /\ task'[q] = task[q] /\ want'[q] = want[q]
                                  /\ prev'[q] = prev[q]
         /\ task'[p] = task[p] /\ want'[p] = Blank /\ prev'[p] = prev[p]
  BY ProcAssumption
     DEF IInv, TypeOK, NoOpenChanges, Rollback, EndTransaction, Expire

------------------------------------------------------------------------------
(* Taking the locks.                                                       *)

LEMMA FlushKeeps == ASSUME IInv, NEW p \in Proc, Flush(p) PROVE IInv'
<1>0. TypeOK /\ ProcInv(p) /\ pc[p] = "flush" /\ writer = NoProc /\ p # NoProc
  BY ProcAssumption DEF IInv, Flush
<1>1. TypeOK'
  BY <1>0, WrittenType DEF TypeOK, Flush, Goto, Label, fileVars, localVars, boundVars
<1>2. Moves(p)
  BY <1>0 DEF Moves, TypeOK, Flush, Goto, Critical, fileVars, localVars
<1>3. NoOpenChanges' /\ Sound(config)'
  BY <1>0 DEF IInv, NoOpenChanges, Flush, fileVars
<1>4. prev'[p] = prev[p] /\ task'[p] = task[p] /\ want'[p] = want[p] /\ prev[p].cfg = NoFile
  BY <1>0 DEF Flush, localVars, ProcInv, SourceInv, NoSource
<1>5. CASE pc'[p] = "settle"
  <2>1. task[p] \in {"settings", "restart"} /\ writer' = p /\ nodes' = nodes
        /\ pending' = [n \in Node |-> Written(p, n)]
    BY <1>0, <1>5 DEF Flush, Goto, TypeOK
  <2>2. want[p] = Blank
    BY <1>0, <2>1 DEF ProcInv, SessionInv, PathInv
  <2>3. \A n \in Node : Written(p, n) = nodes[n]
    BY <2>2 DEF Written, Blank
  <2>4. pending' = nodes'
    BY <1>0, <2>1, <2>3 DEF TypeOK, Table
  <2>5. SessionInv(p)'
    BY <1>4, <1>5, <2>1, <2>2, <2>4 DEF SessionInv, PathInv, Blank
  <2>6. ChosenInv(p)' /\ StagingInv(p)' /\ SourceInv(p)'
    BY <1>4, <1>5 DEF ChosenInv, StagingInv, Approved, Replaced, SourceInv, Sound, NoSource,
                      NeedsSource
  <2> QED BY <1>1, <1>2, <1>3, <2>5, <2>6, OneMoves DEF ProcInv
<1>6. CASE pc'[p] = "lock"
  <2>1. task[p] \notin {"none", "settings", "restart"} \/ want[p] = Blank
    BY <1>0 DEF ProcInv, SessionInv, PathInv
  <2>2. task'[p] \in {"none", "settings", "restart"} => want'[p] = Blank
    BY <1>4, <2>1
  <2>3. task'[p] # "none" /\ task'[p] # "settings"
    BY <1>0, <1>4, <1>6 DEF Flush, Goto, TypeOK, ProcInv, SessionInv, PathInv
  <2> QED BY <1>0, <1>1, <1>2, <1>3, <1>4, <1>6, <2>2, <2>3, Waiting, OneMoves
<1>7. CASE pc'[p] = "abort"
  BY <1>0, <1>1, <1>2, <1>3, <1>4, <1>7, GivingUp
<1>8. pc'[p] \in {"settle", "lock", "abort"}
  BY <1>0 DEF Flush, Goto, TypeOK
<1> QED BY <1>5, <1>6, <1>7, <1>8

LEMMA FlushTimeoutKeeps == ASSUME IInv, NEW p \in Proc, FlushTimeout(p) PROVE IInv'
<1>0. TypeOK /\ pc[p] = "flush"
  BY DEF IInv, FlushTimeout
<1>1. TypeOK'
  BY <1>0 DEF TypeOK, FlushTimeout, Goto, Label, dbVars, fileVars, localVars, boundVars
<1>2. Moves(p)
  BY <1>0 DEF Moves, TypeOK, FlushTimeout, Goto, Critical, dbVars, fileVars, localVars
<1>3. NoOpenChanges' /\ Sound(config)'
  BY DEF IInv, NoOpenChanges, FlushTimeout, dbVars, fileVars
<1>4. pc'[p] = "abort" /\ task'[p] = task[p] /\ want'[p] = want[p] /\ prev'[p] = prev[p]
  BY <1>0 DEF TypeOK, FlushTimeout, Goto, localVars
<1> QED BY <1>0, <1>1, <1>2, <1>3, <1>4, GivingUp

LEMMA SettleKeeps == ASSUME IInv, NEW p \in Proc, Settle(p) PROVE IInv'
<1>0. TypeOK /\ writer = p /\ pending = nodes /\ pc[p] = "settle"
  BY DEF IInv, Settle, ProcInv, SessionInv, PathInv
<1>1. TypeOK'
  BY <1>0, LeaveType DEF TypeOK, Settle, fileVars, boundVars
<1>2. Moves(p)
  BY <1>0 DEF Moves, TypeOK, Settle, Leave, Goto, Expire, Critical, fileVars
<1>3. NoOpenChanges' /\ Sound(config)' /\ Leave(p)
  BY <1>0 DEF IInv, NoOpenChanges, Settle, fileVars
<1> QED BY <1>1, <1>2, <1>3, Returning

LEMMA AcquireLockKeeps == ASSUME IInv, NEW p \in Proc, AcquireLock(p) PROVE IInv'
<1>0. TypeOK /\ ProcInv(p) /\ pc[p] = "lock" /\ holder = NoProc
  BY DEF IInv, AcquireLock
<1>1. /\ pc'[p] \in {"select", "compare", "backup", "restart", "stage"}
      /\ pc'[p] = "restart" <=> task[p] = "restart"
      /\ pc'[p] = "backup" <=> task[p] = "backup"
      /\ pc'[p] = "select" <=> task[p] = "restore"
      /\ pc'[p] = "compare" <=> task[p] = "reconcile"
      /\ pc' = [pc EXCEPT ![p] = pc'[p]]
  BY <1>0 DEF AcquireLock, AfterLock, Goto, TypeOK
<1>2. TypeOK'
  BY <1>0, <1>1 DEF TypeOK, AcquireLock, Label, dbVars, fileVars, localVars, boundVars
<1>3. Moves(p)
  BY <1>0, <1>1 DEF Moves, TypeOK, AcquireLock, Critical, dbVars, fileVars, localVars
<1>4. NoOpenChanges' /\ Sound(config)'
  BY DEF IInv, NoOpenChanges, AcquireLock, dbVars, fileVars
<1>5. task' = task /\ want' = want /\ prev' = prev /\ prev[p].cfg = NoFile
  BY <1>0 DEF AcquireLock, localVars, ProcInv, SourceInv, NoSource
<1>6. SessionInv(p)'
  BY <1>0, <1>1, <1>5 DEF ProcInv, SessionInv, PathInv, Blank
<1>7. ChosenInv(p)' /\ StagingInv(p)'
  BY <1>1, <1>5 DEF ChosenInv, StagingInv, Approved, Replaced
<1>8. SourceInv(p)'
  BY <1>1, <1>5 DEF SourceInv, Sound, NoSource, NeedsSource
<1> QED BY <1>2, <1>3, <1>4, <1>6, <1>7, <1>8, OneMoves DEF ProcInv

LEMMA LockTimeoutKeeps == ASSUME IInv, NEW p \in Proc, LockTimeout(p) PROVE IInv'
<1>0. TypeOK /\ pc[p] = "lock"
  BY DEF IInv, LockTimeout
<1>1. TypeOK'
  BY <1>0 DEF TypeOK, LockTimeout, Goto, Label, dbVars, fileVars, localVars, boundVars
<1>2. Moves(p)
  BY <1>0 DEF Moves, TypeOK, LockTimeout, Goto, Critical, dbVars, fileVars, localVars
<1>3. NoOpenChanges' /\ Sound(config)'
  BY DEF IInv, NoOpenChanges, LockTimeout, dbVars, fileVars
<1>4. pc'[p] = "abort" /\ task'[p] = task[p] /\ want'[p] = want[p] /\ prev'[p] = prev[p]
  BY <1>0 DEF TypeOK, LockTimeout, Goto, localVars
<1> QED BY <1>0, <1>1, <1>2, <1>3, <1>4, GivingUp

------------------------------------------------------------------------------
(* Under the operation lock.                                               *)

\* The process inside the lock is its holder.
LEMMA Inside ==
  ASSUME IInv, NEW p \in Proc, pc[p] \in Critical
  PROVE  TypeOK /\ ProcInv(p) /\ holder = p /\ pc[p] # "idle" /\ p # NoProc
         /\ (writer = NoProc => pending = nodes)
  BY ProcAssumption DEF IInv, LockOwner, NoOpenChanges, Critical

LEMMA SelectBackupKeeps == ASSUME IInv, NEW p \in Proc, SelectBackup(p) PROVE IInv'
<1>0. TypeOK /\ ProcInv(p) /\ holder = p /\ pc[p] = "select" /\ p # NoProc
  BY Inside DEF SelectBackup, Critical
<1>1. NoOpenChanges' /\ Sound(config)'
  BY DEF IInv, NoOpenChanges, SelectBackup, dbVars, fileVars
<1>2. CASE Raise(p) /\ UNCHANGED want
  <2>1. TypeOK'
    BY <1>0, <1>2 DEF TypeOK, SelectBackup, Raise, Goto, Label, dbVars, fileVars, boundVars
  <2>2. Moves(p)
    BY <1>0, <1>2 DEF Moves, TypeOK, SelectBackup, Raise, Goto, Critical, dbVars, fileVars
  <2>3. pc'[p] = "abort" /\ task'[p] = task[p] /\ want'[p] = want[p] /\ prev'[p] = prev[p]
    BY <1>0, <1>2 DEF TypeOK, SelectBackup, Raise, Goto
  <2> QED BY <1>0, <1>1, <2>1, <2>2, <2>3, GivingUp
<1>3. CASE \E i \in DOMAIN backups :
             /\ backups[i].state # NoSidecar
             /\ want' = [want EXCEPT ![p] = backups[i].state]
             /\ Goto(p, "backup")
             /\ UNCHANGED holder
  <2>1. PICK i \in DOMAIN backups : /\ backups[i].state # NoSidecar
                                    /\ want' = [want EXCEPT ![p] = backups[i].state]
    BY <1>3
  <2>2. backups[i].state \in Table
    <3>1. backups \in Seq(Backup)
      BY <1>0 DEF TypeOK
    <3>2. backups[i] \in Backup
      BY <2>1, <3>1
    <3> QED BY <2>1, <3>2 DEF Backup
  <2>3. want' \in [Proc -> Session] /\ want'[p] \in Table
    BY <1>0, <2>1, <2>2 DEF TypeOK, Table, Session
  <2>4. TypeOK'
    BY <1>0, <1>3, <2>3 DEF TypeOK, SelectBackup, Goto, Label, dbVars, fileVars, boundVars
  <2>5. Moves(p)
    BY <1>0, <1>3, <2>1 DEF Moves, TypeOK, SelectBackup, Goto, Critical, dbVars, fileVars
  <2>6. /\ pc'[p] = "backup" /\ task'[p] = "restore"
        /\ prev'[p] = prev[p] /\ prev[p].cfg = NoFile
    BY <1>0, <1>3 DEF TypeOK, SelectBackup, Goto, ProcInv, SessionInv, PathInv, SourceInv,
                      NoSource
  <2>7. SessionInv(p)' /\ ChosenInv(p)' /\ StagingInv(p)'
    BY <2>3, <2>6 DEF SessionInv, PathInv, ChosenInv, StagingInv, Approved, Replaced
  <2>8. SourceInv(p)'
    BY <2>6 DEF SourceInv, Sound, NoSource, NeedsSource
  <2> QED BY <1>1, <2>4, <2>5, <2>7, <2>8, OneMoves DEF ProcInv
<1> QED BY <1>2, <1>3 DEF SelectBackup

\* The three ends of Compare, and what it leaves alone.
LEMMA CompareKeeps == ASSUME IInv, NEW p \in Proc, Compare(p) PROVE IInv'
<1>0. TypeOK /\ ProcInv(p) /\ holder = p /\ pc[p] = "compare" /\ p # NoProc
  BY Inside DEF Compare, Critical
<1>1. NoOpenChanges' /\ Sound(config)'
  BY DEF IInv, NoOpenChanges, Compare, dbVars
<1>2. CASE Return(p) /\ UNCHANGED marker
  <2>1. TypeOK'
    BY <1>0, <1>2, LeaveType DEF TypeOK, Compare, Return, dbVars, boundVars
  <2>2. Moves(p)
    BY <1>0, <1>2 DEF Moves, TypeOK, Compare, Return, Leave, Goto, Expire, Critical, dbVars
  <2>3. Leave(p)
    BY <1>2 DEF Return
  <2> QED BY <1>1, <2>1, <2>2, <2>3, Returning
<1>3. CASE Continue(p, "stage") /\ marker' = TRUE
  <2>1. TypeOK'
    BY <1>0, <1>3 DEF TypeOK, Compare, Continue, Goto, Label, dbVars, localVars, boundVars
  <2>2. Moves(p)
    BY <1>0, <1>3 DEF Moves, TypeOK, Compare, Continue, Goto, Critical, dbVars, localVars
  <2>3. /\ pc'[p] = "stage" /\ task'[p] = task[p] /\ want'[p] = want[p]
        /\ prev'[p] = prev[p] /\ prev[p].cfg = NoFile
    BY <1>0, <1>3 DEF TypeOK, Continue, Goto, localVars, ProcInv, SourceInv, NoSource
  <2>4. SessionInv(p)' /\ ChosenInv(p)' /\ StagingInv(p)'
    BY <1>0, <2>3 DEF ProcInv, SessionInv, PathInv, Blank, ChosenInv, StagingInv, Approved,
                      Replaced
  <2>5. SourceInv(p)'
    BY <2>3 DEF SourceInv, Sound, NoSource, NeedsSource
  <2> QED BY <1>1, <2>1, <2>2, <2>4, <2>5, OneMoves DEF ProcInv
<1>4. CASE Raise(p) /\ marker' \in {marker, TRUE} /\ UNCHANGED <<api, localVars>>
  <2>1. TypeOK'
    BY <1>0, <1>4 DEF TypeOK, Compare, Raise, Goto, Label, dbVars, localVars, boundVars
  <2>2. Moves(p)
    BY <1>0, <1>4 DEF Moves, TypeOK, Compare, Raise, Goto, Critical, dbVars, localVars
  <2>3. pc'[p] = "abort" /\ task'[p] = task[p] /\ want'[p] = want[p] /\ prev'[p] = prev[p]
    BY <1>0, <1>4 DEF TypeOK, Raise, Goto, localVars
  <2> QED BY <1>0, <1>1, <2>1, <2>2, <2>3, GivingUp
<1> QED BY <1>2, <1>3, <1>4 DEF Compare

LEMMA StageKeeps == ASSUME IInv, NEW p \in Proc, Stage(p) PROVE IInv'
<1>0. TypeOK /\ ProcInv(p) /\ holder = p /\ pc[p] = "stage" /\ p # NoProc
  BY Inside DEF Stage, Critical
<1>1. Render(p) \in Config
  BY <1>0, RenderType
<1>2. TypeOK'
  BY <1>0, <1>1 DEF TypeOK, Stage, Continue, Goto, Label, File, dbVars, localVars, boundVars
<1>3. Moves(p)
  BY <1>0 DEF Moves, TypeOK, Stage, Continue, Goto, Critical, dbVars, localVars
<1>4. NoOpenChanges' /\ Sound(config)'
  BY DEF IInv, NoOpenChanges, Stage, dbVars
<1>5. /\ pc'[p] = "validate" /\ task'[p] = task[p] /\ want'[p] = want[p] /\ prev'[p] = prev[p]
      /\ staging' = Render(p) /\ Buildable(Render(p))
      /\ nodes' = nodes /\ backups' = backups
  BY <1>0 DEF TypeOK, Stage, Continue, Goto, localVars, dbVars
<1>6. Render(p)' = Render(p)
  BY DEF Render, View, Rows, Stage, Continue, dbVars, localVars
<1>7. SessionInv(p)' /\ ChosenInv(p)'
  BY <1>0, <1>5 DEF ProcInv, SessionInv, PathInv, Blank, ChosenInv
<1>8. StagingInv(p)'
  BY <1>5, <1>6 DEF StagingInv, Approved, Replaced
<1>9. SourceInv(p)'
  BY <1>0, <1>5 DEF ProcInv, SourceInv, NoSource, NeedsSource
<1> QED BY <1>2, <1>3, <1>4, <1>7, <1>8, <1>9, OneMoves DEF ProcInv

\* A failure before anything is installed.
LEMMA FailKeeps ==
  ASSUME IInv, NEW p \in Proc, pc[p] \in Critical, Fail(p), Sound(config)',
         staging' \in File, config' \in File, backups' \in Seq(Backup), marker' \in BOOLEAN
  PROVE  IInv'
<1>0. TypeOK /\ ProcInv(p) /\ holder = p /\ pc[p] # "idle" /\ p # NoProc
  BY Inside
<1>1. CASE Rollback(p) /\ Goto(p, "audit") /\ UNCHANGED holder
  <2>1. TypeOK'
    BY <1>0, <1>1, RollbackType DEF TypeOK, Fail, Goto, Label, boundVars
  <2>2. Moves(p)
    BY <1>0, <1>1, RollbackFrame DEF Moves, TypeOK, Goto, Critical
  <2>3. pc'[p] = "audit"
    BY <1>0, <1>1 DEF TypeOK, Goto
  <2> QED BY <1>0, <1>1, <2>1, <2>2, <2>3, RollbackFrame, GivingUp
<1>2. CASE Raise(p) /\ UNCHANGED <<dbVars, localVars>>
  <2>1. TypeOK'
    BY <1>0, <1>2 DEF TypeOK, Fail, Raise, Goto, Label, dbVars, localVars, boundVars
  <2>2. Moves(p)
    BY <1>0, <1>2 DEF Moves, TypeOK, Raise, Goto, Critical, dbVars, localVars
  <2>3. pc'[p] = "abort" /\ task'[p] = task[p] /\ want'[p] = want[p] /\ prev'[p] = prev[p]
    BY <1>0, <1>2 DEF TypeOK, Raise, Goto, localVars
  <2>4. NoOpenChanges'
    BY <1>2 DEF IInv, NoOpenChanges, dbVars
  <2> QED BY <1>0, <2>1, <2>2, <2>3, <2>4, GivingUp
<1> QED BY <1>1, <1>2 DEF Fail

LEMMA StageFailsKeeps == ASSUME IInv, NEW p \in Proc, StageFails(p) PROVE IInv'
<1>1. /\ Fail(p) /\ pc[p] \in Critical /\ Sound(config)'
      /\ staging' \in File /\ config' \in File /\ backups' \in Seq(Backup) /\ marker' \in BOOLEAN
  BY DEF IInv, TypeOK, StageFails, Critical, fileVars
<1> QED BY <1>1, FailKeeps

LEMMA CheckUnavailableKeeps == ASSUME IInv, NEW p \in Proc, CheckUnavailable(p) PROVE IInv'
<1>1. /\ Fail(p) /\ pc[p] \in Critical /\ Sound(config)'
      /\ staging' \in File /\ config' \in File /\ backups' \in Seq(Backup) /\ marker' \in BOOLEAN
  BY DEF IInv, TypeOK, CheckUnavailable, Critical, fileVars
<1> QED BY <1>1, FailKeeps

LEMMA ValidateKeeps == ASSUME IInv, NEW p \in Proc, Validate(p) PROVE IInv'
<1>0. /\ TypeOK /\ ProcInv(p) /\ holder = p /\ pc[p] = "validate" /\ p # NoProc
      /\ Accepted(staging) /\ staging = Render(p) /\ Buildable(staging)
  BY Inside DEF Validate, Critical, ProcInv, StagingInv
<1>1. /\ NoOpenChanges' /\ Sound(config)' /\ nodes' = nodes /\ staging' = staging
      /\ config' = config /\ backups' = backups /\ writer' = writer /\ pending' = pending
  BY DEF IInv, NoOpenChanges, Validate, dbVars, fileVars
<1>2. CASE Return(p)
  <2>1. TypeOK'
    BY <1>0, <1>2, LeaveType DEF TypeOK, Validate, Return, dbVars, fileVars, boundVars
  <2>2. Moves(p)
    BY <1>0, <1>1, <1>2 DEF Moves, TypeOK, Return, Leave, Goto, Expire, Critical
  <2> QED BY <1>1, <1>2, <2>1, <2>2, Returning DEF Return
<1>3. CASE /\ task[p] = "prepare"
           /\ prev' = [prev EXCEPT ![p] = [cfg |-> config, state |-> nodes]]
           /\ Goto(p, "install")
           /\ UNCHANGED <<holder, task, seen, want, api>>
  <2>1. TypeOK'
    BY <1>0, <1>3 DEF TypeOK, Validate, Goto, Label, dbVars, fileVars, boundVars
  <2>2. Moves(p)
    BY <1>0, <1>1, <1>3 DEF Moves, TypeOK, Goto, Critical
  <2>3. /\ pc'[p] = "install" /\ task'[p] = "prepare" /\ prev'[p].cfg = config
        /\ Render(p)' = Render(p)
    BY <1>0, <1>1, <1>3 DEF TypeOK, Goto, Render, View, Rows
  <2>4. SessionInv(p)' /\ ChosenInv(p)'
    BY <2>3 DEF SessionInv, PathInv, ChosenInv
  <2>5. StagingInv(p)'
    BY <1>0, <1>1, <2>3 DEF StagingInv, Approved, Replaced
  <2>6. SourceInv(p)'
    BY <1>1, <2>3 DEF SourceInv, NoSource, NeedsSource
  <2> QED BY <1>1, <2>1, <2>2, <2>4, <2>5, <2>6, OneMoves DEF ProcInv
<1>4. CASE \/ task[p] = "restore" /\ Continue(p, "install")
           \/ task[p] \notin {"check", "prepare", "restore"} /\ Continue(p, "backup")
  <2>1. TypeOK'
    BY <1>0, <1>4
       DEF TypeOK, Validate, Continue, Goto, Label, dbVars, fileVars, localVars, boundVars
  <2>2. Moves(p)
    BY <1>0, <1>1, <1>4 DEF Moves, TypeOK, Continue, Goto, Critical, localVars
  <2>3. /\ task' = task /\ want' = want /\ prev' = prev /\ Render(p)' = Render(p)
        /\ \/ pc'[p] = "install" /\ task[p] = "restore"
           \/ pc'[p] = "backup" /\ task[p] # "restore"
    BY <1>0, <1>1, <1>4 DEF TypeOK, Continue, Goto, localVars, Render, View, Rows
  <2>4. SessionInv(p)' /\ ChosenInv(p)'
    BY <1>0, <2>3 DEF ProcInv, SessionInv, PathInv, Blank, ChosenInv
  <2>5. StagingInv(p)'
    BY <1>0, <1>1, <2>3 DEF StagingInv, Approved, Replaced
  <2>6. SourceInv(p)'
    BY <1>0, <1>1, <2>3 DEF ProcInv, SourceInv, NoSource, NeedsSource
  <2> QED BY <1>1, <2>1, <2>2, <2>4, <2>5, <2>6, OneMoves DEF ProcInv
<1> QED BY <1>2, <1>3, <1>4 DEF Validate

LEMMA RejectKeeps == ASSUME IInv, NEW p \in Proc, Reject(p) PROVE IInv'
<1>0. TypeOK /\ ProcInv(p) /\ holder = p /\ pc[p] = "validate" /\ p # NoProc
  BY Inside DEF Reject, Critical
<1>1. Sound(config)' /\ UNCHANGED <<staging, config, backups>>
  BY DEF IInv, Reject, fileVars
<1>2. CASE Raise(p) /\ UNCHANGED <<dbVars, localVars>>
  <2>1. TypeOK'
    BY <1>0, <1>2 DEF TypeOK, Reject, Raise, Goto, Label, dbVars, fileVars, localVars, boundVars
  <2>2. Moves(p)
    BY <1>0, <1>1, <1>2 DEF Moves, TypeOK, Raise, Goto, Critical, dbVars, localVars
  <2>3. pc'[p] = "abort" /\ task'[p] = task[p] /\ want'[p] = want[p] /\ prev'[p] = prev[p]
    BY <1>0, <1>2 DEF TypeOK, Raise, Goto, localVars
  <2>4. NoOpenChanges'
    BY <1>2 DEF IInv, NoOpenChanges, dbVars
  <2> QED BY <1>0, <1>1, <2>1, <2>2, <2>3, <2>4, GivingUp
<1>3. CASE Rollback(p) /\ Goto(p, "audit") /\ UNCHANGED holder
  <2>1. TypeOK'
    BY <1>0, <1>3, RollbackType DEF TypeOK, Reject, Goto, Label, fileVars, boundVars
  <2>2. Moves(p)
    BY <1>0, <1>1, <1>3, RollbackFrame DEF Moves, TypeOK, Goto, Critical
  <2>3. pc'[p] = "audit"
    BY <1>0, <1>3 DEF TypeOK, Goto
  <2> QED BY <1>0, <1>1, <1>3, <2>1, <2>2, <2>3, RollbackFrame, GivingUp
<1> QED BY <1>2, <1>3 DEF Reject

LEMMA CopyConfigKeeps == ASSUME IInv, NEW p \in Proc, CopyConfig(p) PROVE IInv'
<1>0. /\ TypeOK /\ ProcInv(p) /\ holder = p /\ pc[p] = "backup" /\ p # NoProc
      /\ config \in Config /\ config # NoFile
  BY Inside DEF CopyConfig, Critical, TypeOK, File
<1> DEFINE head == [cfg |-> config, state |-> NoSidecar]
<1>1. backups' = <<head>> \o backups /\ head \in Backup /\ backups \in Seq(Backup)
  BY <1>0 DEF CopyConfig, TypeOK, Backup
<1>2. backups' \in Seq(Backup) /\ backups' # << >> /\ backups'[1] = head
  BY <1>1
<1>3. TypeOK'
  BY <1>0, <1>2 DEF TypeOK, CopyConfig, NoteCurrent, Goto, Label, File, dbVars, boundVars
<1>4. Moves(p)
  BY <1>0 DEF Moves, TypeOK, CopyConfig, NoteCurrent, Goto, Critical, dbVars
<1>5. NoOpenChanges' /\ Sound(config)' /\ Sound(config)
  BY DEF IInv, NoOpenChanges, CopyConfig, dbVars
<1>6. /\ pc'[p] = "sidecar" /\ task' = task /\ want' = want
      /\ prev'[p] = [cfg |-> config, state |-> nodes]
      /\ nodes' = nodes /\ config' = config /\ staging' = staging
      /\ Render(p)' = Render(p)
  BY <1>0 DEF TypeOK, CopyConfig, NoteCurrent, Goto, dbVars, Render, View, Rows
<1>7. SessionInv(p)' /\ ChosenInv(p)'
  BY <1>0, <1>6 DEF ProcInv, SessionInv, PathInv, Blank, ChosenInv
<1>8. StagingInv(p)'
  BY <1>0, <1>6 DEF ProcInv, StagingInv, Approved, Replaced
<1>9. SourceInv(p)'
  BY <1>0, <1>2, <1>5, <1>6 DEF SourceInv, NoSource, NeedsSource
<1> QED BY <1>3, <1>4, <1>5, <1>7, <1>8, <1>9, OneMoves DEF ProcInv

------------------------------------------------------------------------------
\* The three ways on from a backup.
LEMMA BackedUpKeeps ==
  ASSUME IInv, NEW p \in Proc, pc[p] \in {"backup", "sidecar"}, BackedUp(p),
         UNCHANGED <<dbVars, staging, config, marker, running, boundVars>>,
         backups' \in Seq(Backup),
         prev[p].cfg # NoFile =>
           prev[p].state = nodes /\ backups' # << >> /\ backups'[1] = prev[p]
  PROVE  IInv'
<1>0. TypeOK /\ ProcInv(p) /\ holder = p /\ p # NoProc /\ pc[p] # "idle"
  BY Inside DEF Critical
<1>1. /\ NoOpenChanges' /\ Sound(config)' /\ nodes' = nodes /\ staging' = staging
      /\ config' = config /\ writer' = writer /\ pending' = pending
  BY DEF IInv, NoOpenChanges, dbVars
<1>2. CASE Return(p)
  <2>1. TypeOK'
    BY <1>0, <1>2, LeaveType DEF TypeOK, Return, dbVars, boundVars
  <2>2. Moves(p)
    BY <1>0, <1>1, <1>2 DEF Moves, TypeOK, Return, Leave, Goto, Expire, Critical
  <2> QED BY <1>1, <1>2, <2>1, <2>2, Returning DEF Return
<1>3. CASE \/ task[p] = "restore" /\ Continue(p, "replace")
           \/ task[p] \notin {"backup", "restore"} /\ Continue(p, "install")
  <2>1. TypeOK'
    BY <1>0, <1>3 DEF TypeOK, Continue, Goto, Label, dbVars, localVars, boundVars
  <2>2. Moves(p)
    BY <1>0, <1>1, <1>3 DEF Moves, TypeOK, Continue, Goto, Critical, localVars
  <2>3. /\ task' = task /\ want' = want /\ prev' = prev /\ Render(p)' = Render(p)
        /\ \/ pc'[p] = "replace" /\ task[p] = "restore"
           \/ pc'[p] = "install" /\ task[p] \notin {"backup", "restore"}
    BY <1>0, <1>1, <1>3 DEF TypeOK, Continue, Goto, localVars, Render, View, Rows
  <2>4. SessionInv(p)' /\ ChosenInv(p)'
    BY <1>0, <2>3 DEF ProcInv, SessionInv, PathInv, Blank, ChosenInv
  <2>5. StagingInv(p)'
    BY <1>0, <1>1, <2>3 DEF ProcInv, StagingInv, Approved, Replaced
  <2>6. SourceInv(p)'
    BY <1>0, <1>1, <2>3 DEF ProcInv, SourceInv, NoSource, NeedsSource
  <2> QED BY <1>1, <2>1, <2>2, <2>4, <2>5, <2>6, OneMoves DEF ProcInv
<1> QED BY <1>2, <1>3 DEF BackedUp

LEMMA NothingToCopyKeeps == ASSUME IInv, NEW p \in Proc, NothingToCopy(p) PROVE IInv'
<1>1. TypeOK /\ ProcInv(p)
  BY DEF IInv
<1>2. /\ BackedUp(p) /\ pc[p] = "backup" /\ prev[p].cfg = NoFile /\ backups' \in Seq(Backup)
      /\ UNCHANGED <<dbVars, staging, config, marker, running, boundVars>>
  BY <1>1 DEF TypeOK, NothingToCopy, ProcInv, SourceInv, NoSource, fileVars
<1> QED BY <1>2, BackedUpKeeps

\* Pruning keeps the newest backup, and the rest keeps its type.
LEMMA PruneKeepsNewest ==
  ASSUME NEW s \in Seq(Backup), s # << >>
  PROVE  Prune(s) \in Seq(Backup) /\ Prune(s) # << >> /\ Prune(s)[1] = s[1]
<1> DEFINE n == IF Len(s) < BackupLimit THEN Len(s) ELSE BackupLimit
<1>1. n \in 1..Len(s)
  BY LimitAssumption
<1>2. Prune(s) = SubSeq(s, 1, n)
  BY DEF Prune
<1>3. /\ SubSeq(s, 1, n) \in Seq(Backup) /\ Len(SubSeq(s, 1, n)) = n
      /\ SubSeq(s, 1, n)[1] = s[1]
  BY <1>1
<1> QED BY <1>1, <1>2, <1>3

\* A pruning that stops half way keeps at least as much.
LEMMA PrunedInPartIs ==
  ASSUME NEW s \in Seq(Backup), s # << >>, NEW t \in PrunedInPart(s)
  PROVE  t \in Seq(Backup)
<1>1. Prune(s) \in Seq(Backup) /\ Len(Prune(s)) \in Nat
  BY PruneKeepsNewest
<1>2. PICK i \in Len(Prune(s)) + 1 .. Len(s) + 1 : t = Prune(s) \o SubSeq(s, i, Len(s))
  BY DEF PrunedInPart
<1>3. SubSeq(s, i, Len(s)) \in Seq(Backup)
  BY <1>1, <1>2
<1> QED BY <1>1, <1>2, <1>3

\* The second file makes a backup of the first one.
LEMMA Completed ==
  ASSUME IInv, NEW p \in Proc, pc[p] = "sidecar"
  PROVE  LET s == [backups EXCEPT ![1].state = prev[p].state]
         IN  s \in Seq(Backup) /\ s # << >> /\ s[1] = prev[p] /\ prev[p].state = nodes
<1>1. /\ prev[p] = [cfg |-> config, state |-> nodes] /\ backups # << >>
      /\ backups[1] = [cfg |-> config, state |-> NoSidecar]
      /\ backups \in Seq(Backup) /\ nodes \in Table /\ config \in Config
  BY DEF IInv, ProcInv, SourceInv, TypeOK, File
<1> DEFINE written == [backups EXCEPT ![1].state = prev[p].state]
<1>2. 1 \in DOMAIN backups /\ DOMAIN backups = 1..Len(backups) /\ Len(backups) \in Nat
  BY <1>1
<1>3. written[1] = prev[p] /\ prev[p] \in Backup
  BY <1>1, <1>2 DEF Backup
<1>4. \A i \in 1..Len(backups) : written[i] \in Backup
  BY <1>1, <1>2, <1>3
<1>5. written \in Seq(Backup) /\ Len(written) = Len(backups)
  BY <1>1, <1>2, <1>4
<1> QED BY <1>1, <1>2, <1>3, <1>5

LEMMA WriteSidecarKeeps == ASSUME IInv, NEW p \in Proc, WriteSidecar(p) PROVE IInv'
<1>0. /\ TypeOK /\ ProcInv(p) /\ pc[p] = "sidecar" /\ BackedUp(p)
      /\ UNCHANGED <<dbVars, staging, config, marker, running, boundVars>>
      /\ backups' = Prune([backups EXCEPT ![1].state = prev[p].state])
  BY DEF IInv, WriteSidecar
<1> DEFINE written == [backups EXCEPT ![1].state = prev[p].state]
<1>2. written \in Seq(Backup) /\ written # << >> /\ written[1] = prev[p] /\ prev[p].state = nodes
  BY <1>0, Completed
<1>3. backups' \in Seq(Backup) /\ backups' # << >> /\ backups'[1] = prev[p]
  BY <1>0, <1>2, PruneKeepsNewest
<1> QED BY <1>0, <1>2, <1>3, BackedUpKeeps

LEMMA BackupFailsKeeps == ASSUME IInv, NEW p \in Proc, BackupFails(p) PROVE IInv'
<1>0. TypeOK /\ ProcInv(p) /\ holder = p /\ pc[p] \in {"backup", "sidecar"} /\ p # NoProc
  BY Inside DEF BackupFails, Critical
<1>1. backups' \in Seq(Backup)
  <2>1. CASE backups' = IF pc[p] = "sidecar" THEN Tail(backups) ELSE backups
    BY <1>0, <2>1 DEF TypeOK, ProcInv, SourceInv
  <2>2. CASE /\ pc[p] = "sidecar"
             /\ backups' \in PrunedInPart([backups EXCEPT ![1].state = prev[p].state])
    BY <2>2, Completed, PrunedInPartIs
  <2> QED BY <2>1, <2>2 DEF BackupFails
<1>2. TypeOK'
  BY <1>0, <1>1 DEF TypeOK, BackupFails, Raise, Goto, Label, dbVars, localVars, boundVars
<1>3. Moves(p)
  BY <1>0 DEF Moves, TypeOK, BackupFails, Raise, Goto, Critical, dbVars, localVars
<1>4. NoOpenChanges' /\ Sound(config)'
  BY DEF IInv, NoOpenChanges, BackupFails, dbVars
<1>5. pc'[p] = "abort" /\ task'[p] = task[p] /\ want'[p] = want[p] /\ prev'[p] = prev[p]
  BY <1>0 DEF TypeOK, BackupFails, Raise, Goto, localVars
<1> QED BY <1>0, <1>2, <1>3, <1>4, <1>5, GivingUp

LEMMA ReplaceNodesKeeps == ASSUME IInv, NEW p \in Proc, ReplaceNodes(p) PROVE IInv'
<1>0. /\ TypeOK /\ ProcInv(p) /\ holder = p /\ pc[p] = "replace" /\ p # NoProc
      /\ task[p] = "restore" /\ want[p] \in Table
  BY Inside DEF ReplaceNodes, Critical, ProcInv, SessionInv, PathInv, ChosenInv
<1>1. /\ Sound(config)' /\ UNCHANGED <<staging, config, backups, marker>>
      /\ UNCHANGED <<running, boundVars>>
  BY DEF IInv, ReplaceNodes, fileVars
<1>2. CASE /\ MayWrite(p)
           /\ writer' = p /\ pending' = want[p] /\ nodes' = nodes
           /\ Continue(p, "stage")
  <2>1. TypeOK'
    BY <1>0, <1>1, <1>2 DEF TypeOK, Continue, Goto, Label, localVars, boundVars
  <2>2. Moves(p)
    BY <1>0, <1>1, <1>2 DEF Moves, TypeOK, MayWrite, Continue, Goto, Critical, localVars
  <2>3. NoOpenChanges'
    BY <1>0, <1>2 DEF NoOpenChanges
  <2>4. pc'[p] = "stage" /\ task' = task /\ want' = want /\ prev' = prev
    BY <1>0, <1>2 DEF TypeOK, Continue, Goto, localVars
  <2>5. SessionInv(p)' /\ ChosenInv(p)' /\ StagingInv(p)'
    BY <1>0, <2>4 DEF SessionInv, PathInv, ChosenInv, StagingInv, Approved, Replaced
  <2>6. SourceInv(p)'
    BY <1>0, <1>1, <1>2, <2>4 DEF ProcInv, SourceInv, NoSource, NeedsSource
  <2> QED BY <1>1, <2>1, <2>2, <2>3, <2>5, <2>6, OneMoves DEF ProcInv
<1>3. CASE Fail(p)
  <2>1. /\ staging' \in File /\ config' \in File /\ backups' \in Seq(Backup)
        /\ marker' \in BOOLEAN /\ pc[p] \in Critical
    BY <1>0, <1>1 DEF TypeOK, Critical
  <2> QED BY <1>1, <1>3, <2>1, FailKeeps
<1> QED BY <1>2, <1>3 DEF ReplaceNodes

LEMMA InstallKeeps == ASSUME IInv, NEW p \in Proc, Install(p) PROVE IInv'
<1>0. /\ TypeOK /\ ProcInv(p) /\ holder = p /\ pc[p] = "install" /\ p # NoProc
      /\ staging = Render(p) /\ Buildable(staging) /\ Accepted(staging)
  BY Inside DEF Install, Critical, ProcInv, StagingInv, Approved
<1>1. TypeOK'
  BY <1>0 DEF TypeOK, Install, Continue, Goto, Label, dbVars, localVars, boundVars
<1>2. Moves(p)
  BY <1>0 DEF Moves, TypeOK, Install, Continue, Goto, Critical, dbVars, localVars
<1>3. NoOpenChanges' /\ config' = staging /\ Sound(config')
  BY <1>0 DEF IInv, NoOpenChanges, Install, dbVars, Sound
<1>4. /\ task' = task /\ want' = want /\ prev' = prev /\ Render(p)' = Render(p)
      /\ nodes' = nodes /\ backups' = backups /\ task[p] # "restart"
      /\ pc'[p] \in {"commit", "restart"}
      /\ pc'[p] = "commit" <=> task[p] = "prepare"
  BY <1>0 DEF TypeOK, Install, Continue, Goto, dbVars, localVars, Render, View, Rows,
              ProcInv, SessionInv, PathInv
<1>5. SessionInv(p)' /\ ChosenInv(p)'
  BY <1>0, <1>4 DEF ProcInv, SessionInv, PathInv, Blank, ChosenInv
<1>6. StagingInv(p)'
  BY <1>0, <1>3, <1>4 DEF StagingInv, Approved, Replaced
<1>7. SourceInv(p)'
  BY <1>0, <1>4 DEF ProcInv, SourceInv, NoSource, NeedsSource
<1>8. Sound(config)'
  BY <1>3 DEF Sound
<1> QED BY <1>1, <1>2, <1>3, <1>5, <1>6, <1>7, <1>8, OneMoves DEF ProcInv

LEMMA InstallFailsKeeps == ASSUME IInv, NEW p \in Proc, InstallFails(p) PROVE IInv'
<1>0. /\ TypeOK /\ ProcInv(p) /\ holder = p /\ pc[p] = "install" /\ p # NoProc
      /\ Buildable(staging) /\ Accepted(staging) /\ Sound(config)
  BY Inside DEF InstallFails, Critical, ProcInv, StagingInv, Approved, IInv
<1>1. /\ config' \in {config, staging} /\ UNCHANGED <<staging, backups, marker>>
  BY DEF InstallFails
<1>2. Sound(config)' /\ config' \in File
  BY <1>0, <1>1 DEF Sound, TypeOK
<1>3. CASE /\ task[p] = "prepare" /\ Rollback(p) /\ Goto(p, "revert")
           /\ UNCHANGED <<holder, running, api, boundVars>>
  <2>1. TypeOK'
    BY <1>0, <1>1, <1>2, <1>3, RollbackType DEF TypeOK, Goto, Label, boundVars
  <2>2. Moves(p)
    BY <1>0, <1>3, RollbackFrame DEF Moves, TypeOK, Goto, Critical
  <2>3. pc'[p] = "revert" /\ task'[p] = "prepare" /\ want'[p] = Blank /\ prev'[p] = prev[p]
    BY <1>0, <1>3, RollbackFrame DEF TypeOK, Goto
  <2>4. SessionInv(p)' /\ ChosenInv(p)' /\ StagingInv(p)'
    BY <2>3 DEF SessionInv, PathInv, ChosenInv, StagingInv, Approved, Replaced
  <2>5. SourceInv(p)'
    BY <1>0, <2>3 DEF ProcInv, SourceInv, NoSource, NeedsSource
  <2> QED BY <1>2, <1>3, <2>1, <2>2, <2>4, <2>5, RollbackFrame, OneMoves DEF ProcInv
<1>4. CASE Fail(p)
  <2>1. /\ staging' \in File /\ backups' \in Seq(Backup) /\ marker' \in BOOLEAN
        /\ pc[p] \in Critical
    BY <1>0, <1>1 DEF TypeOK, Critical
  <2> QED BY <1>2, <1>4, <2>1, FailKeeps
<1> QED BY <1>3, <1>4 DEF InstallFails

\* However a restart ends, sing-box runs the formal file, what it ran before, or nothing.
LEMMA RestartType ==
  ASSUME TypeOK, RestartSucceeds \/ RestartFails
  PROVE  running' \in Config \cup {Down}
  BY DEF TypeOK, RestartSucceeds, RestartFails, File

LEMMA RestartKeeps == ASSUME IInv, NEW p \in Proc, Restart(p) PROVE IInv'
<1>0. /\ TypeOK /\ ProcInv(p) /\ holder = p /\ pc[p] = "restart" /\ p # NoProc
      /\ running' \in Config \cup {Down}
  BY Inside, RestartType DEF Restart, Critical
<1>1. /\ NoOpenChanges' /\ Sound(config)' /\ nodes' = nodes /\ staging' = staging
      /\ config' = config /\ backups' = backups /\ writer' = writer /\ pending' = pending
  BY DEF IInv, NoOpenChanges, Restart, dbVars, fileVars
<1>2. CASE Return(p)
  <2>1. TypeOK'
    BY <1>0, <1>2, LeaveType DEF TypeOK, Restart, Return, dbVars, fileVars, boundVars
  <2>2. Moves(p)
    BY <1>0, <1>1, <1>2 DEF Moves, TypeOK, Return, Leave, Goto, Expire, Critical
  <2> QED BY <1>1, <1>2, <2>1, <2>2, Returning DEF Return
<1>3. CASE /\ task[p] = "restart"
           /\ holder' = NoProc /\ Goto(p, "flush") /\ UNCHANGED <<localVars, api>>
  <2>1. TypeOK'
    BY <1>0, <1>3 DEF TypeOK, Restart, Goto, Label, dbVars, fileVars, localVars, boundVars
  <2>2. Moves(p)
    BY <1>0, <1>1, <1>3 DEF Moves, TypeOK, Goto, Critical, localVars
  <2>3. /\ pc'[p] = "flush" /\ task'[p] = "restart" /\ want'[p] = Blank
        /\ prev'[p] = prev[p] /\ prev[p].cfg = NoFile
    BY <1>0, <1>3 DEF TypeOK, Goto, localVars, ProcInv, SessionInv, SourceInv, NoSource
  <2> QED BY <1>0, <1>1, <2>1, <2>2, <2>3, Waiting, OneMoves
<1>4. CASE task[p] # "restart" /\ Continue(p, "commit")
  <2>1. TypeOK'
    BY <1>0, <1>4
       DEF TypeOK, Restart, Continue, Goto, Label, dbVars, fileVars, localVars, boundVars
  <2>2. Moves(p)
    BY <1>0, <1>1, <1>4 DEF Moves, TypeOK, Continue, Goto, Critical, localVars
  <2>3. /\ pc'[p] = "commit" /\ task' = task /\ want' = want /\ prev' = prev
        /\ Render(p)' = Render(p)
    BY <1>0, <1>1, <1>4 DEF TypeOK, Continue, Goto, localVars, Render, View, Rows
  <2>4. SessionInv(p)' /\ ChosenInv(p)'
    BY <1>0, <1>4, <2>3 DEF ProcInv, SessionInv, PathInv, Blank, ChosenInv
  <2>5. StagingInv(p)'
    BY <1>0, <1>1, <1>4, <2>3 DEF ProcInv, StagingInv, Approved, Replaced
  <2>6. SourceInv(p)'
    BY <1>0, <1>1, <1>4, <2>3 DEF ProcInv, SourceInv, NoSource, NeedsSource
  <2> QED BY <1>1, <2>1, <2>2, <2>4, <2>5, <2>6, OneMoves DEF ProcInv
<1> QED BY <1>2, <1>3, <1>4 DEF Restart

\* The rollback of the session, then of the file: the rollback source is still there.
LEMMA RevertingKeeps ==
  ASSUME IInv, NEW p \in Proc, pc[p] \in {"restart", "commit"},
         pc[p] = "restart" => task[p] # "restart",
         Rollback(p), Goto(p, "revert"), UNCHANGED <<holder, fileVars, api, boundVars>>,
         running' \in Config \cup {Down}
  PROVE  IInv'
<1>0. TypeOK /\ ProcInv(p) /\ holder = p /\ p # NoProc
  BY Inside DEF Critical
<1>1. Sound(config)' /\ UNCHANGED <<staging, config, backups, marker>>
  BY DEF IInv, fileVars
<1>2. TypeOK'
  BY <1>0, <1>1, RollbackType DEF TypeOK, Goto, Label, boundVars
<1>3. Moves(p)
  BY <1>0, <1>1, RollbackFrame DEF Moves, TypeOK, Goto, Critical
<1>4. /\ pc'[p] = "revert" /\ task'[p] = task[p] /\ want'[p] = Blank
      /\ prev'[p] = prev[p] /\ nodes' = nodes
  BY <1>0, RollbackFrame DEF TypeOK, Goto
<1>5. SessionInv(p)' /\ ChosenInv(p)' /\ StagingInv(p)'
  BY <1>0, <1>4
     DEF ProcInv, SessionInv, PathInv, ChosenInv, StagingInv, Approved, Replaced
<1>6. SourceInv(p)'
  BY <1>0, <1>1, <1>4 DEF ProcInv, SourceInv, NoSource, NeedsSource
<1> QED BY <1>1, <1>2, <1>3, <1>5, <1>6, RollbackFrame, OneMoves DEF ProcInv

LEMMA RestartFailureKeeps == ASSUME IInv, NEW p \in Proc, RestartFailure(p) PROVE IInv'
<1>0. /\ TypeOK /\ ProcInv(p) /\ holder = p /\ pc[p] = "restart" /\ p # NoProc
      /\ running' \in Config \cup {Down}
  BY Inside, RestartType DEF RestartFailure, Critical
<1>1. CASE Raise(p) /\ UNCHANGED <<dbVars, localVars>>
  <2>1. TypeOK'
    BY <1>0, <1>1
       DEF TypeOK, RestartFailure, Raise, Goto, Label, dbVars, fileVars, localVars, boundVars
  <2>2. Moves(p)
    BY <1>0, <1>1
       DEF Moves, TypeOK, RestartFailure, Raise, Goto, Critical, dbVars, fileVars, localVars
  <2>3. pc'[p] = "abort" /\ task'[p] = task[p] /\ want'[p] = want[p] /\ prev'[p] = prev[p]
    BY <1>0, <1>1 DEF TypeOK, Raise, Goto, localVars
  <2>4. NoOpenChanges' /\ Sound(config)'
    BY <1>1 DEF IInv, NoOpenChanges, RestartFailure, dbVars, fileVars
  <2> QED BY <1>0, <2>1, <2>2, <2>3, <2>4, GivingUp
<1>2. CASE task[p] # "restart" /\ Rollback(p) /\ Goto(p, "revert") /\ UNCHANGED holder
  BY <1>0, <1>2, RevertingKeeps DEF RestartFailure
<1> QED BY <1>1, <1>2 DEF RestartFailure

LEMMA CommitKeeps == ASSUME IInv, NEW p \in Proc, Commit(p) PROVE IInv'
<1>0. TypeOK /\ ProcInv(p) /\ holder = p /\ pc[p] = "commit" /\ p # NoProc
  BY Inside DEF Commit, Critical
<1>1. /\ NoOpenChanges' /\ Sound(config)' /\ nodes' \in Table /\ pending' \in Table
      /\ writer \in {p, NoProc} /\ writer' = NoProc
      /\ UNCHANGED <<staging, config, backups, marker, running, boundVars>>
  BY <1>0 DEF IInv, TypeOK, NoOpenChanges, Commit, MayWrite, Rows, fileVars
<1>2. CASE Return(p)
  <2>1. TypeOK'
    BY <1>0, <1>1, <1>2, LeaveType DEF TypeOK, Return, boundVars
  <2>2. Moves(p)
    BY <1>0, <1>1, <1>2 DEF Moves, TypeOK, Return, Leave, Goto, Expire, Critical
  <2> QED BY <1>1, <1>2, <2>1, <2>2, Returning DEF Return
<1>3. CASE Continue(p, "unmark")
  <2>1. TypeOK'
    BY <1>0, <1>1, <1>3 DEF TypeOK, Continue, Goto, Label, localVars, boundVars
  <2>2. Moves(p)
    BY <1>0, <1>1, <1>3 DEF Moves, TypeOK, Continue, Goto, Critical, localVars
  <2>3. pc'[p] = "unmark" /\ task'[p] = task[p] /\ want'[p] = want[p] /\ prev'[p] = prev[p]
    BY <1>0, <1>3 DEF TypeOK, Continue, Goto, localVars
  <2> QED BY <1>0, <1>1, <2>1, <2>2, <2>3, GivingUp
<1> QED BY <1>2, <1>3 DEF Commit

LEMMA CommitFailsKeeps == ASSUME IInv, NEW p \in Proc, CommitFails(p) PROVE IInv'
<1>1. running' \in Config \cup {Down}
  BY DEF IInv, TypeOK, CommitFails
<1> QED BY <1>1, RevertingKeeps DEF CommitFails

LEMMA UnmarkKeeps == ASSUME IInv, NEW p \in Proc, Unmark(p) PROVE IInv'
<1>0. TypeOK /\ ProcInv(p) /\ holder = p /\ pc[p] = "unmark" /\ p # NoProc
  BY Inside DEF Unmark, Critical
<1>1. /\ NoOpenChanges' /\ Sound(config)' /\ marker' \in BOOLEAN
      /\ UNCHANGED <<dbVars, staging, config, backups, running, boundVars>>
  BY DEF IInv, NoOpenChanges, Unmark, dbVars
<1>2. CASE Return(p)
  <2>1. TypeOK'
    BY <1>0, <1>1, <1>2, LeaveType DEF TypeOK, Return, dbVars, boundVars
  <2>2. Moves(p)
    BY <1>0, <1>1, <1>2 DEF Moves, TypeOK, Return, Leave, Goto, Expire, Critical, dbVars
  <2> QED BY <1>1, <1>2, <2>1, <2>2, Returning DEF Return
<1>3. CASE Raise(p) /\ UNCHANGED <<api, localVars>>
  <2>1. TypeOK'
    BY <1>0, <1>1, <1>3 DEF TypeOK, Raise, Goto, Label, dbVars, localVars, boundVars
  <2>2. Moves(p)
    BY <1>0, <1>1, <1>3 DEF Moves, TypeOK, Raise, Goto, Critical, dbVars, localVars
  <2>3. pc'[p] = "abort" /\ task'[p] = task[p] /\ want'[p] = want[p] /\ prev'[p] = prev[p]
    BY <1>0, <1>3 DEF TypeOK, Raise, Goto, localVars
  <2> QED BY <1>0, <1>1, <2>1, <2>2, <2>3, GivingUp
<1> QED BY <1>2, <1>3 DEF Unmark

LEMMA RevertKeeps == ASSUME IInv, NEW p \in Proc, Revert(p) PROVE IInv'
<1>0. TypeOK /\ ProcInv(p) /\ holder = p /\ pc[p] = "revert" /\ p # NoProc
  BY Inside DEF Revert, Critical
<1>1. /\ NoOpenChanges' /\ config' \in {config, prev[p].cfg}
      /\ UNCHANGED <<dbVars, staging, backups, marker, running, api, localVars, boundVars>>
  BY DEF IInv, NoOpenChanges, Revert, dbVars
<1>2. Sound(config)' /\ config' \in File
  BY <1>0, <1>1 DEF IInv, TypeOK, ProcInv, SourceInv, Sound
<1>3. \/ holder' = NoProc /\ Goto(p, "abort")
      \/ holder' = holder /\ Goto(p, "rerestart")
  BY DEF Revert, Raise
<1>4. TypeOK'
  BY <1>0, <1>1, <1>2, <1>3 DEF TypeOK, Goto, Label, dbVars, localVars, boundVars
<1>5. Moves(p)
  BY <1>0, <1>1, <1>3 DEF Moves, TypeOK, Goto, Critical, dbVars, localVars
<1>6. /\ pc'[p] \in {"abort", "rerestart"}
      /\ task'[p] = task[p] /\ want'[p] = want[p] /\ prev'[p] = prev[p]
  BY <1>0, <1>1, <1>3 DEF TypeOK, Goto, localVars
<1> QED BY <1>0, <1>1, <1>2, <1>4, <1>5, <1>6, GivingUp

LEMMA RerestartKeeps == ASSUME IInv, NEW p \in Proc, Rerestart(p) PROVE IInv'
<1>0. /\ TypeOK /\ ProcInv(p) /\ holder = p /\ pc[p] = "rerestart" /\ p # NoProc
      /\ running' \in Config \cup {Down}
  BY Inside, RestartType DEF Rerestart, Critical
<1>1. NoOpenChanges' /\ Sound(config)'
  BY DEF IInv, NoOpenChanges, Rerestart, dbVars, fileVars
<1>2. TypeOK'
  BY <1>0
     DEF TypeOK, Rerestart, Continue, Goto, Label, dbVars, fileVars, localVars, boundVars
<1>3. Moves(p)
  BY <1>0
     DEF Moves, TypeOK, Rerestart, Continue, Goto, Critical, dbVars, fileVars, localVars
<1>4. pc'[p] = "audit" /\ task'[p] = task[p] /\ want'[p] = want[p] /\ prev'[p] = prev[p]
  BY <1>0 DEF TypeOK, Rerestart, Continue, Goto, localVars
<1> QED BY <1>0, <1>1, <1>2, <1>3, <1>4, GivingUp

LEMMA RecordFailureKeeps == ASSUME IInv, NEW p \in Proc, RecordFailure(p) PROVE IInv'
<1>0. TypeOK /\ ProcInv(p) /\ holder = p /\ pc[p] = "audit" /\ p # NoProc
  BY Inside DEF RecordFailure, Critical
<1>1. NoOpenChanges' /\ Sound(config)'
  BY DEF IInv, NoOpenChanges, RecordFailure, dbVars, fileVars
<1>2. TypeOK'
  BY <1>0
     DEF TypeOK, RecordFailure, Raise, Goto, Label, dbVars, fileVars, localVars, boundVars
<1>3. Moves(p)
  BY <1>0
     DEF Moves, TypeOK, RecordFailure, Raise, Goto, Critical, dbVars, fileVars, localVars
<1>4. pc'[p] = "abort" /\ task'[p] = task[p] /\ want'[p] = want[p] /\ prev'[p] = prev[p]
  BY <1>0 DEF TypeOK, RecordFailure, Raise, Goto, localVars
<1> QED BY <1>0, <1>1, <1>2, <1>3, <1>4, GivingUp

LEMMA AbortKeeps == ASSUME IInv, NEW p \in Proc, Abort(p) PROVE IInv'
<1>0. TypeOK /\ pc[p] = "abort"
  BY DEF IInv, Abort
<1>1. TypeOK'
  BY <1>0, LeaveType DEF TypeOK, Abort, EndTransaction, fileVars, boundVars
<1>2. Moves(p)
  BY <1>0
     DEF Moves, TypeOK, Abort, EndTransaction, Leave, Goto, Expire, Critical, fileVars
<1>3. NoOpenChanges' /\ Sound(config)' /\ Leave(p)
  BY DEF IInv, NoOpenChanges, Abort, EndTransaction, fileVars
<1> QED BY <1>1, <1>2, <1>3, Returning

------------------------------------------------------------------------------
(* Crashes and restarts of sing-box.                                       *)

LEMMA CrashKeeps ==
  ASSUME IInv, NEW S \in SUBSET Proc, Crash(S), api' \in {"down", "starting", "up"}
  PROVE  IInv'
<1>0. /\ TypeOK /\ LockOwner /\ NoOpenChanges /\ Sound(config) /\ NoProc \notin Proc
      /\ \A q \in Proc : ProcInv(q)
  BY ProcAssumption DEF IInv
<1>1. TypeOK'
  <2>1. NoPrev \in [cfg : File, state : Table] /\ Blank \in Session
    BY DEF NoPrev, Blank, File, Table, Session
  <2>2. /\ pc' \in [Proc -> Label] /\ task' \in [Proc -> Task]
        /\ seen' \in [Proc -> Session] /\ want' \in [Proc -> Session]
        /\ prev' \in [Proc -> [cfg : File, state : Table]]
    BY <1>0, <2>1 DEF TypeOK, Crash, Label, Task
  <2> QED BY <1>0, <2>2 DEF TypeOK, Crash, fileVars
<1>2. LockOwner'
  BY <1>0 DEF LockOwner, Crash, Critical
<1>3. NoOpenChanges' /\ Sound(config)'
  BY <1>0 DEF NoOpenChanges, Crash, fileVars
<1>4. ASSUME NEW q \in S PROVE ProcInv(q)'
  <2>1. pc'[q] = "idle" /\ task'[q] = "none" /\ want'[q] = Blank /\ prev'[q] = NoPrev
    BY <1>4 DEF Crash
  <2> QED BY <2>1, HasLeft
<1>5. ASSUME NEW q \in Proc \ S PROVE ProcInv(q)'
  <2>1. /\ pc'[q] = pc[q] /\ task'[q] = task[q] /\ want'[q] = want[q] /\ prev'[q] = prev[q]
        /\ nodes' = nodes /\ staging' = staging /\ config' = config /\ backups' = backups
    BY <1>5 DEF Crash, fileVars
  <2>2. Rows(q)' = Rows(q) /\ (writer = q => writer' = q /\ pending' = pending)
    BY <1>0, <1>5, <2>1 DEF Rows, Crash
  <2>3. Render(q)' = Render(q)
    BY <2>1, <2>2 DEF Render, View
  <2>4. SessionInv(q)' /\ ChosenInv(q)'
    BY <1>0, <2>1, <2>2 DEF ProcInv, SessionInv, PathInv, ChosenInv
  <2>5. StagingInv(q)'
    BY <1>0, <2>1, <2>3 DEF ProcInv, StagingInv, Approved, Replaced
  <2>6. SourceInv(q)'
    BY <1>0, <2>1 DEF ProcInv, SourceInv, NoSource, NeedsSource
  <2> QED BY <2>4, <2>5, <2>6 DEF ProcInv
<1> QED BY <1>1, <1>2, <1>3, <1>4, <1>5 DEF IInv

\* A step that changes none of the variables that the invariant reads but `running' and
\* the bounds.
LEMMA BystanderKeeps ==
  ASSUME IInv, UNCHANGED <<dbVars, holder, fileVars, api, pc, localVars>>,
         running' \in Config \cup {Down}, begun' \in Nat, crashes' \in Nat
  PROVE  IInv'
<1>1. TypeOK' /\ LockOwner' /\ NoOpenChanges' /\ Sound(config)'
  BY DEF IInv, TypeOK, LockOwner, NoOpenChanges, dbVars, fileVars, localVars
<1>2. ASSUME NEW q \in Proc PROVE ProcInv(q)'
  <2>1. ProcInv(q) /\ Render(q)' = Render(q)
    BY DEF IInv, Render, View, Rows, dbVars, localVars
  <2>2. SessionInv(q)' /\ ChosenInv(q)' /\ SourceInv(q)'
    BY <2>1 DEF ProcInv, SessionInv, PathInv, ChosenInv, SourceInv, NoSource, NeedsSource,
                dbVars, fileVars, localVars
  <2>3. StagingInv(q)'
    BY <2>1 DEF ProcInv, StagingInv, Approved, Replaced, fileVars, localVars
  <2> QED BY <2>2, <2>3 DEF ProcInv
<1> QED BY <1>1, <1>2 DEF IInv

------------------------------------------------------------------------------
(* Every step.                                                             *)

LEMMA StepKeeps == ASSUME IInv, NEW p \in Proc, Step(p) PROVE IInv'
  BY FlushKeeps, FlushTimeoutKeeps, SettleKeeps, AcquireLockKeeps, LockTimeoutKeeps,
     SelectBackupKeeps, CompareKeeps, StageKeeps, StageFailsKeeps, ValidateKeeps,
     RejectKeeps, CheckUnavailableKeeps, CopyConfigKeeps, NothingToCopyKeeps,
     WriteSidecarKeeps, BackupFailsKeeps, ReplaceNodesKeeps, InstallKeeps,
     InstallFailsKeeps, RestartKeeps, RestartFailureKeeps, CommitKeeps, CommitFailsKeeps,
     UnmarkKeeps, RevertKeeps, RerestartKeeps, RecordFailureKeeps, AbortKeeps
  DEF Step

LEMMA NextKeeps == IInv /\ [Next]_vars => IInv'
<1> SUFFICES ASSUME IInv, [Next]_vars PROVE IInv'
  OBVIOUS
<1>1. CASE \E p \in Req \cup Cli : Start(p)
  BY <1>1, StartKeeps
<1>2. CASE \E p \in Proc : Step(p)
  BY <1>2, StepKeeps
<1>3. CASE StartApi
  BY <1>3, StartApiKeeps
<1>4. CASE CrashApi
  BY <1>4, CrashKeeps DEF CrashApi, Proc
<1>5. CASE \E p \in Cli : CrashCli(p)
  <2>1. PICK p \in Cli : CrashCli(p)
    BY <1>5
  <2>2. Crash({p}) /\ {p} \in SUBSET Proc /\ api' \in {"down", "starting", "up"}
    BY <2>1 DEF CrashCli, Proc, IInv, TypeOK
  <2> QED BY <2>2, CrashKeeps
<1>6. CASE DataPlaneRestarts
  <2>1. running' \in Config \cup {Down} /\ begun' \in Nat /\ crashes' \in Nat
    BY <1>6 DEF DataPlaneRestarts, IInv, TypeOK, File
  <2> QED BY <1>6, <2>1, BystanderKeeps DEF DataPlaneRestarts
<1>7. CASE UNCHANGED vars
  <2>1. running' \in Config \cup {Down} /\ begun' \in Nat /\ crashes' \in Nat
    BY <1>7 DEF vars, boundVars, IInv, TypeOK
  <2> QED BY <1>7, <2>1, BystanderKeeps DEF vars
<1> QED BY <1>1, <1>2, <1>3, <1>4, <1>5, <1>6, <1>7 DEF Next, Quiet

\* Operations exclude each other, and an operation on its way to the commit finds the
\* staging file, the formal file and its rollback source as it left them.
THEOREM Invariance == Spec => []IInv
<1> QED BY InitKeeps, NextKeeps, PTL DEF Spec

------------------------------------------------------------------------------
(* The properties.                                                         *)

\* Every variable keeps its type.
THEOREM TypeCorrect == Spec => []TypeOK
<1>1. IInv => TypeOK
  BY DEF IInv
<1> QED BY <1>1, Invariance, PTL

\* No operation installs a file that another one has rendered, or one that was not checked
\* (_operation_lock around generate_staging, validate_file and _install_staging).
THEOREM OperationsAreIsolated == Spec => []InstallsWhatItChecked
<1>1. IInv => InstallsWhatItChecked
  BY DEF IInv, ProcInv, StagingInv, Approved, InstallsWhatItChecked
<1> QED BY <1>1, Invariance, PTL

\* The formal file is one that sing-box accepts in every state of every run, whatever
\* fails and whenever a process crashes.
THEOREM FormalFileSound == Spec => []FormalFileChecked
<1>1. IInv => FormalFileChecked
  BY DEF IInv, Sound, FormalFileChecked
<1> QED BY <1>1, Invariance, PTL

\* A stale row of a request is never one of another request: what it commits without
\* having loaded it is what it has installed.
THEOREM StalenessIsLocal == Spec => []OnlyOwnRowsStale
<1>1. ASSUME IInv, NEW p \in Proc, pc[p] = "commit", NEW n \in Node, want[p][n] = Unloaded
      PROVE  config[n] = Inbounds(Rows(p))[n]
  <2>1. config = Render(p)
    BY <1>1 DEF IInv, ProcInv, StagingInv, Replaced
  <2>2. View(p)[n] = Rows(p)[n]
    BY <1>1 DEF View
  <2> QED BY <2>1, <2>2 DEF Render, Inbounds
<1>2. IInv => OnlyOwnRowsStale
  BY <1>1 DEF OnlyOwnRowsStale
<1> QED BY <1>2, Invariance, PTL

\* The backup that a rollback copies back is there until the operation has committed, and
\* it is the formal file with the table that is still committed.
THEOREM RollbackPossible == Spec => []RollbackSourceKept
<1>1. IInv => RollbackSourceKept
  BY DEF IInv, ProcInv, SourceInv, NeedsSource, NoSource, RollbackSourceKept
<1> QED BY <1>1, Invariance, PTL
==============================================================================
