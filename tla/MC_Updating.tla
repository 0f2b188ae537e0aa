---------------------------- MODULE MC_Updating ----------------------------
\* Small instances of Updating for TLC.
EXTENDS Updating
=============================================================================
