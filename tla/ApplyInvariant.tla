--------------------------- MODULE ApplyInvariant ---------------------------
(***************************************************************************)
(* The inductive invariant behind the safety properties of ApplyPipeline   *)
(* that hold for every instance: who is inside the operation lock, whose   *)
(* transaction is open, and what the files are while an operation is on    *)
(* its way from the rendered staging file to the commit.                   *)
(***************************************************************************)
EXTENDS ApplyPipeline

\* The steps inside `with self._operation_lock()'.
Critical == {"select", "compare", "stage", "validate", "backup", "sidecar", "replace",
             "install", "restart", "commit", "unmark", "revert", "rerestart", "audit"}

LockOwner == \A p \in Proc : pc[p] \in Critical <=> holder = p
NoOpenChanges == writer = NoProc => pending = nodes

\* A file that systemd can start sing-box on, or none.
Sound(f) == f # NoFile => Buildable(f) /\ Accepted(f)

\* The way of each handler through the steps.
PathInv(p) ==
  /\ pc[p] = "idle" <=> task[p] = "none"
  /\ pc[p] = "lock" => task[p] # "settings"
  /\ pc[p] \in {"select", "replace"} => task[p] = "restore"
  /\ pc[p] \in {"compare", "stage", "validate", "install"} =>
       task[p] \notin {"settings", "restart", "backup"}
  /\ pc[p] \in {"backup", "sidecar"} => task[p] \notin {"settings", "restart"}

\* The session of p: nothing is loaded where nothing was edited, and the transaction that
\* is about to be committed outside the operation lock changes no node.
SessionInv(p) ==
  /\ PathInv(p)
  /\ task[p] \in {"none", "settings", "restart"} => want[p] = Blank
  /\ pc[p] = "settle" => writer = p /\ pending = nodes

\* The rows that a restore is going to write.
ChosenInv(p) ==
  task[p] = "restore" /\ pc[p] \in {"backup", "sidecar", "replace"} => want[p] \in Table

\* The staging file while it is checked, once it is checked, and the formal file while its
\* generation is not committed.
Approved(p) == \/ pc[p] = "install"
               \/ pc[p] \in {"backup", "sidecar"} /\ task[p] \notin {"backup", "restore"}
Replaced(p) == pc[p] = "commit" \/ (pc[p] = "restart" /\ task[p] # "restart")
StagingInv(p) ==
  /\ pc[p] = "validate" => staging = Render(p) /\ Buildable(staging)
  /\ Approved(p) => staging = Render(p) /\ Buildable(staging) /\ Accepted(staging)
  /\ Replaced(p) => config = Render(p)

\* The rollback source: before there is one, while it is written, and until it is not
\* needed any more.
NoSource(p) ==
  \/ pc[p] \in {"idle", "flush", "lock", "settle", "select", "compare", "backup"}
  \/ pc[p] \in {"stage", "validate"} /\ task[p] # "restore"
  \/ pc[p] = "restart" /\ task[p] = "restart"
NeedsSource(p) ==
  /\ task[p] \notin {"restart", "prepare", "backup"}
  /\ \/ pc[p] \in {"install", "restart", "commit", "revert"}
     \/ pc[p] \in {"replace", "stage", "validate"} /\ task[p] = "restore"
SourceInv(p) ==
  /\ Sound(prev[p].cfg)
  /\ NoSource(p) => prev[p].cfg = NoFile
  /\ pc[p] = "sidecar" => /\ prev[p] = [cfg |-> config, state |-> nodes]
                          /\ config # NoFile /\ backups # << >>
                          /\ backups[1] = [cfg |-> config, state |-> NoSidecar]
  /\ NeedsSource(p) /\ prev[p].cfg # NoFile =>
       prev[p].state = nodes /\ backups # << >> /\ backups[1] = prev[p]

ProcInv(p) == SessionInv(p) /\ ChosenInv(p) /\ StagingInv(p) /\ SourceInv(p)

\* Under every fault the model knows: operations exclude each other, what is installed is
\* what was rendered and checked, and what a rollback needs is there.
IInv ==
  /\ TypeOK
  /\ LockOwner
  /\ NoOpenChanges
  /\ Sound(config)
  /\ \A p \in Proc : ProcInv(p)

------------------------------------------------------------------------------
(* Where requests do not meet on a node, table and file agree as well.     *)

\* The rows that the handlers of p load and change.
OneRow == {"create", "update", "setEnabled", "regenerate", "delete"}
Touched(p) ==
  {n \in Node : /\ p \in Req \cup Cli
                /\ \/ Script[p] \cap OneRow # {} /\ n \in Target[p]
                   \/ Script[p] \cap {"regenerateAll", "restore"} # {}}

\* No two processes change the same row.
OwnRows == \A p, q \in Req \cup Cli : p # q => Touched(p) \cap Touched(q) = {}

\* A file operation fails before it has changed the formal file, and the copy back succeeds.
Reversible == Faults \cap {"fsync", "copy"} = {}
\* ... and the process lives to undo what failed after it.
Recoverable == Reversible /\ "crash" \notin Faults

\* p renders and commits what its own transaction has written.
InTransaction(p) ==
  \/ /\ task[p] \in Edits
     /\ pc[p] \in {"lock", "stage", "validate", "backup", "sidecar", "install", "restart", "commit"}
  \/ task[p] = "restore" /\ pc[p] \in {"stage", "validate", "install", "restart", "commit"}

\* Who may hold SQLite's write lock, and where.
WriterInv(p) ==
  writer = p =>
    /\ task[p] \in Edits \cup {"settings", "restart", "restore"}
    /\ pc[p] \notin {"idle", "flush"}
    /\ task[p] \in {"settings", "restart"} => pc[p] = "settle"
    /\ task[p] = "restore" => pc[p] \notin {"lock", "select"}

\* The open transaction is the committed table with the rows its session has changed.
ChangesInv(p) ==
  writer = p => \A n \in Node : pending[n] = IF want[p][n] = Unloaded THEN nodes[n] ELSE want[p][n]

\* What the session of p has loaded is its own, and still what is committed.
LoadedInv(p) ==
  /\ \A n \in Node : seen[p][n] # Unloaded => n \in Touched(p) /\ seen[p][n] = nodes[n]
  /\ \A n \in Node : want[p][n] # Unloaded => n \in Touched(p)
  /\ task[p] \notin Edits \cup {"restore"} => want[p] = Blank
  /\ task[p] = "restore" => Touched(p) = Node
  /\ pc[p] = "flush" =>
       /\ task[p] \in Edits \cup {"settings", "restart"}
       /\ \A n \in Node : want[p][n] # Unloaded => seen[p][n] # Unloaded

CurrentInv(p) ==
  /\ InTransaction(p) => writer = p
  /\ WriterInv(p) /\ ChangesInv(p) /\ LoadedInv(p)

\* Until its generation is installed, p's rollback source is the formal file; only the
\* startup compares before it renders and has a marker to remove, and a plain restart has nothing to commit or revert.
Before(p) == \/ pc[p] \in {"sidecar", "install"}
             \/ task[p] = "restore" /\ pc[p] \in {"replace", "stage", "validate"}
FormalSource(p) == /\ pc[p] \in {"compare", "unmark"} => task[p] = "reconcile"
                   /\ pc[p] \in {"commit", "revert"} => task[p] # "restart"
                   /\ Before(p) => prev[p].cfg = config

\* The file that counts is generated from the committed table.
PublishedInv == Published = Inbounds(nodes)

------------------------------------------------------------------------------
(* The start of the API.                                                   *)

\* The startup edits no row and writes nothing of its own before it commits; what it has
\* committed stays in force until it removes the marker.
BootInv ==
  /\ task[Boot] \in {"none", "reconcile"} /\ want[Boot] = Blank
  /\ writer # Boot /\ pc[Boot] # "flush"
  /\ pc[Boot] = "unmark" => config = Inbounds(nodes)

\* Nothing fails but by a crash, and the command line neither prepares nor restores: a file
\* that it had installed when it died would not be compared before the next start.
OnlyCrashes ==
  /\ Faults \subseteq {"crash"}
  /\ \A c \in Cli : Script[c] \subseteq {"restart", "check", "backup"}

\* Such a command line installs nothing.
CliInv(c) ==
  /\ task[c] \in {"none", "restart", "check", "backup"}
  /\ pc[c] \notin {"compare", "install", "commit", "revert", "unmark", "rerestart"}
  /\ pc[c] = "restart" => task[c] = "restart"
  /\ pc[c] \in {"backup", "sidecar"} => task[c] = "backup"

\* Which part of the API process runs.
ApiInv == /\ pc[Boot] # "idle" <=> api = "starting"
          /\ \A r \in Req : /\ pc[r] # "idle" => api = "up"
                            /\ task[r] \notin {"reconcile", "prepare"}
          /\ \A c \in Cli : CliInv(c)

\* The marker is there from before the startup touches the file until sing-box runs it.
MarkerInv == /\ api = "up" => ~marker
             /\ ~marker => pc[Boot] \in {"idle", "lock", "compare", "abort"}

\* Without the marker, a formal file that is that of the committed table is one that sing-box
\* runs: whatever was installed and not restarted before a crash is not that of the table.
RunningInv ==
  /\ ~marker /\ config = Inbounds(nodes) => running = config
  /\ \A p \in Proc : pc[p] \in {"commit", "unmark"} => running = config
  /\ api = "up" => PublishedInv
  /\ \A r \in Req : pc[r] = "revert" => config = prev[r].cfg
==============================================================================
