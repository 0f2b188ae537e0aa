-------------------------- MODULE MC_UpdatingLost --------------------------
\* Updating with a history variable: whose copy of the status file is older than
\* what another actor has made of the file since.
EXTENDS Updating

VARIABLE outdated

\* The actor has read the file and not stored yet
HasCopy(a) == me[a].pc \notin {"off", "read"}

\* A change of the file outdates the copies of all actors but the one whose step
\* it is
HInit == Init /\ outdated = {}
HNext ==
    /\ Next
    /\ outdated' = {a \in Actors : /\ HasCopy(a) /\ HasCopy(a)'
                                   /\ a \in outdated \/ (file' # file /\ me'[a] = me[a])}
HSpec == HInit /\ [][HNext]_<<vars, outdated>>

\* store() is there "to prevent concurrent modification of the file": a worker of
\* the runner does not replace what another actor has stored in the file since
\* the worker read it.
NoLostUpdate ==
    [][\A a \in Threads :
         WorkerStore(a) /\ file' # file => a \notin outdated]_<<vars, outdated>>
=============================================================================
