--------------------------- MODULE MCServerRequests --------------------------
EXTENDS ServerRequests, TLC
=============================================================================
