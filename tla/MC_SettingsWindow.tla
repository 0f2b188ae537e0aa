------------------------- MODULE MC_SettingsWindow -------------------------
\* Small instances of SettingsWindow for TLC.
EXTENDS SettingsWindow
=============================================================================
