---------------------------- MODULE MCEventLoop ----------------------------
(* A query and two mutations; the query and one mutation use the session's  *)
(* context, the other mutation is a client's.                               *)
EXTENDS EventLoop

CONSTANTS q, m, cm

MCCallers == {q, m, cm}
MCMutations == {m, cm}
MCOnSession == {q, m}
=============================================================================
