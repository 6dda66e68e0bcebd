-------------------------- MODULE MCSessionClients --------------------------
EXTENDS SessionClients, TLC

\* No definition tells one client from another.
ClientSymmetry == Permutations(Clients)
=============================================================================
