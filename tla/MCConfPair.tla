----------------------------- MODULE MCConfPair -----------------------------
EXTENDS ConfPair
=============================================================================
