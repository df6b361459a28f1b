---------------------------- MODULE MCEnvironment ---------------------------
EXTENDS Environment
=============================================================================
