--------------------------- MODULE MCApplyPipeline ---------------------------
(***************************************************************************)
(* Instances of ApplyPipeline for TLC.  Two nodes, two values of their     *)
(* columns that the builder accepts and sing-box accepts too, one that     *)
(* sing-box refuses.                                                       *)
(***************************************************************************)
EXTENDS ApplyInvariant, TLC

CONSTANTS n1, n2, ca, cb, cbad, r1, r2, c1, boot

On(c)  == [enabled |-> TRUE, cfg |-> c]
Off(c) == [enabled |-> FALSE, cfg |-> c]

\* Tables of a panel in use: both nodes, or one that is switched off.
BothOn  == (n1 :> On(ca)) @@ (n2 :> On(cb))
FirstOff == (n1 :> Off(ca)) @@ (n2 :> On(cb))
OnlyFirst == (n1 :> On(ca)) @@ (n2 :> Absent)
MCSeeds == {BothOn, FirstOff, OnlyFirst}
OneSeed == {BothOn}
OffSeed == {FirstOff}

\* Every request addresses every node, or each a node of its own.
Shared == [p \in Req \cup Cli |-> Node]
Apart  == (r1 :> {n1}) @@ (r2 :> {n2}) @@ (c1 :> {})

\* Handlers on nodes of their own, and operations that render the whole table.
ApartScript == (r1 :> {"create", "update", "delete", "settings"})
            @@ (r2 :> {"setEnabled", "regenerate", "apply", "check", "restart"})
            @@ (c1 :> {"backup"})

\* Requests that may meet on a node, a command line that restores or prepares.
MeetScript == (r1 :> {"update", "regenerateAll", "settings"})
           @@ (r2 :> {"setEnabled", "delete", "apply"})
           @@ (c1 :> {"restore", "prepare"})

\* A node change, an apply and the command line, one lock order against the other; the
\* API crashes.
OrderScript == (r1 :> {"update", "delete"}) @@ (r2 :> {"apply"})
            @@ (c1 :> {"backup", "restart", "check"})

\* First installation: the command line prepares the file, the API starts on its own.
FreshScript == (r1 :> {"update", "apply"}) @@ (c1 :> {"prepare", "restart", "backup"})

\* Two requests for the same node, each changing another column.
RaceScript == (r1 :> {"update"}) @@ (r2 :> {"setEnabled"}) @@ (c1 :> {})

\* One request on its own.
SoloScript == (r1 :> {"update"})
==============================================================================
