--------------------------- MODULE AtomicDeployment ---------------------------
(***************************************************************************)
(* What update.sh and reconfigure.sh promise to the administrator: an      *)
(* installation has one identity (server name and TLS mode), one release   *)
(* and the rows the panel has written.  A script moves it to another       *)
(* identity or to the next release as a whole, or leaves it as it was, and *)
(* never takes back a row written before it stopped the panel.             *)
(***************************************************************************)
EXTENDS Naturals

CONSTANT Identity
VARIABLES identity, release, rows

Init == identity \in Identity /\ release = 0 /\ rows = 0

Write == /\ rows' = rows + 1
         /\ UNCHANGED <<identity, release>>
\* The panel serves again before the script has finished, so rows may come with it.
Reconfigure == /\ identity' \in Identity
               /\ rows' >= rows
               /\ UNCHANGED release
Update == /\ release' = release + 1
          /\ rows' >= rows
          /\ UNCHANGED identity

Spec == Init /\ [][Write \/ Reconfigure \/ Update]_<<identity, release, rows>>
==============================================================================
