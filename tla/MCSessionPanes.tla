--------------------------- MODULE MCSessionPanes ---------------------------
EXTENDS SessionPanes
=============================================================================
