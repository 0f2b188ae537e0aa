--------------------------- MODULE MC_TwoWayPipe ---------------------------
\* Small instances of TwoWayPipe for TLC: the runner and the settings window.
EXTENDS TwoWayPipe, TLC

CONSTANTS runner, settings, m1, m2, m3

\* two messages one way, one of them large, and one the other way
BothWays == m1 :> settings @@ m2 :> settings @@ m3 :> runner
OneWay   == m1 :> settings @@ m2 :> settings
=============================================================================
