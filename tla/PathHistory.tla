---------------------------- MODULE PathHistory ----------------------------
(***************************************************************************)
(* SignalPath with two history variables: how often the role of the node   *)
(* has changed since the agent's process started, and how often its engine *)
(* has halted the pool or restored it.                                     *)
(***************************************************************************)
EXTENDS SignalPath

CONSTANT MaxChanges    \* changes of the role in the life of one process (a bound for TLC)

ASSUME ChangesAssumption == MaxChanges \in Nat

VARIABLES changes, switches

countedVars == <<pathVars, changes, switches>>

CountedInit == PathInit /\ changes = 0 /\ switches = 0

CountedRun ==
    /\ AgentRuns
    /\ changes' = (IF role' # role THEN changes + 1 ELSE changes) /\ changes' <= MaxChanges
    /\ switches' = IF pc = "decide" /\ st'.suppressed # st.suppressed THEN switches + 1
                                                                     ELSE switches

CountedDeath == AgentDies /\ changes' = 0 /\ switches' = 0

CountedNext == CountedRun \/ CountedDeath
CountedSpec == CountedInit /\ [][CountedNext]_countedVars

CountedFairSpec == CountedSpec /\ PathFairness

(* No outage, full channel or late read makes the pool flap: the engine halts
   and restores it at most once for the role the process found, and once for
   each change of the role.  A process that is not the first may find itself
   halted and restore the pool once more, before it knows any role: when its
   first snapshot arrives between two reads of its first tick. *)
NoFlapping == switches <= changes + IF "crash" \in faults.kinds THEN 2 ELSE 1
=============================================================================
