----------------------------- MODULE MCDeployment -----------------------------
(* Instances of Deployment for TLC: two domains and an address. *)
EXTENDS Deployment, TLC

CONSTANTS alpha, beta, addr

Acme(n) == [name |-> n, selfSigned |-> FALSE]
SelfSigned(n) == [name |-> n, selfSigned |-> TRUE]

\* A name belongs to one mode.
Identities == {Acme(alpha), Acme(beta), SelfSigned(addr)}
\* A domain that the administrator switches to the self-signed mode.
OneDomain == {Acme(alpha), SelfSigned(alpha)}
==============================================================================
