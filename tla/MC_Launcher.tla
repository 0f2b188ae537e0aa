---------------------------- MODULE MC_Launcher ----------------------------
\* A small instance of Launcher for TLC.
EXTENDS Launcher, TLC

CONSTANTS past, word, empty, files, history

\* "past" begins with the keyword of the history, which answers without it, too
Keywords == past :> {history} @@ word :> {} @@ empty :> {}
\* The history has what the other plugin finds, fast and slow.
InHistory == files :> {"fast", "slow"} @@ history :> {}
AllTunings == {{}, {"noGlobals"}, {"finalSort", "sequential"}}
=============================================================================
