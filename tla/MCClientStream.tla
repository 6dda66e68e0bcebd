--------------------------- MODULE MCClientStream ---------------------------
EXTENDS ClientStream
=============================================================================
