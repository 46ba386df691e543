---------------------------- MODULE MCAuthSessions ----------------------------
(* Instances of AuthSessions for TLC: browsers that differ in nothing. *)
EXTENDS AuthSessions, TLC

Browsers == Permutations(Client)
==============================================================================
