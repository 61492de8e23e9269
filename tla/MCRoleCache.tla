----------------------------- MODULE MCRoleCache -----------------------------
(* Two threads.  The unit of time is the longest time a request takes, and a  *)
(* check interval is so short that it is over when the clock moves on.  The   *)
(* clock of the administrator's server is fast by one unit: the flag it sets  *)
(* is one that this server may look for too early.                            *)
EXTENDS RoleCache, TLC

CONSTANTS r1, r2
MCRequest == {r1, r2}
MCFast == {1}
Threads == Permutations(MCRequest)
=============================================================================
