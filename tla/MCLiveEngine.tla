---------------------------- MODULE MCLiveEngine ----------------------------
EXTENDS LiveEngine
=============================================================================
