----------------------------- MODULE SignalPath -----------------------------
(***************************************************************************)
(* From the role of the node to PgBouncer's pool: the collector with its   *)
(* drain goroutines and the decision engine in one agent process, as       *)
(* Agent.Run (internal/agent/agent.go) puts them together.  The collector  *)
(* is started first and shut down last; what its drain goroutine pushes    *)
(* into the circular buffer is the window the engine reads.                *)
(***************************************************************************)
EXTENDS Collector

CONSTANTS Floor, Step, DownTicks, UpTicks, DefaultPoolSize, IniSize, MaxConnections,
          FaultKinds, MaxFaults, NoFile, Torn    \* see Engine

VARIABLES pc, tick, st, above, below, file, tmp, pool, faults    \* see Engine

E == INSTANCE Engine WITH win <- Retained

ASSUME PathAssumption ==
    /\ Floor \in Nat \ {0} /\ Step \in Nat /\ Step >= Floor /\ MaxConnections \in Nat
    /\ {DefaultPoolSize, IniSize} \subseteq Floor .. MaxConnections
    /\ {DownTicks, UpTicks} \subseteq Nat \ {0}
    /\ \A snap \in Snapshots : snap.max \in Floor .. MaxConnections
    /\ FaultKinds \subseteq E!Faults /\ MaxFaults \in Nat
    /\ {NoFile, Torn} \cap E!States = {} /\ NoFile # Torn

engineState == <<pc, tick, st, above, below, file, tmp, pool, faults>>
pathVars    == <<collectorVars, engineState>>

PathInit == CollectorInit /\ E!EngineInit

---------------------------------------------------------------------------
(* The collector's goroutines do not see the engine. *)
Poll  == PollStep /\ UNCHANGED engineState
Ticks == Tick /\ UNCHANGED engineState
Drain == (Receive \/ PushToWindow) /\ UNCHANGED engineState

CollectorRuns ==
    /\ \/ SourceChanges \/ RoleChanges \/ LoopEnds
       \/ DrainerEnds \/ LogError \/ ErrDrainerEnds \/ CloseChannels
    /\ UNCHANGED engineState

(* The agent is told to stop.  Its end counts among the faults: it is told
   only while there is room for one. *)
StopIsTold ==
    /\ "crash" \in FaultKinds /\ faults.count < MaxFaults
    /\ Cancel
    /\ UNCHANGED engineState

(* The deferred calls of Run: engine.Shutdown comes first, and waits for the
   tick that is running. *)
EngineStopsFirst ==
    /\ pc = "idle"
    /\ BeginShutdown
    /\ UNCHANGED engineState

(* The engine, until its Shutdown has returned. *)
EngineRuns ==
    /\ UNCHANGED collectorVars
    /\ pc = "idle" => shutdown = "idle"
    /\ E!EngineStep

(* performLocalChecks, in the loop of Run, finds PgBouncer dead. *)
PgBouncerRestarts ==
    /\ shutdown = "idle"
    /\ UNCHANGED collectorVars
    /\ E!PoolRestart

---------------------------------------------------------------------------
(* The process dies at any moment, and the next one starts with empty
   channels, an empty window, and an engine that has not been created yet. *)
ProcessStarts ==
    /\ cancelled' = FALSE
    /\ poller' = [pc |-> "patroni", role |-> role]
    /\ accepted' = 0
    /\ snapshotsCh' = <<>> /\ snapshotsOpen' = TRUE
    /\ Errors' = 0 /\ errorsOpen' = TRUE
    /\ drainer' = [pc |-> "receive", held |-> <<>>] /\ errDrainer' = "receive"
    /\ buf' = [i \in Slots |-> ZeroSnapshot] /\ head' = 0 /\ count' = 0 /\ full' = FALSE
    /\ shutdown' = "idle" /\ panicked' = FALSE

AgentDies ==
    /\ ProcessStarts
    /\ UNCHANGED <<up, role>>
    /\ E!Crash

---------------------------------------------------------------------------
AgentRuns ==
    \/ Poll \/ Ticks \/ Drain \/ CollectorRuns
    \/ StopIsTold \/ EngineStopsFirst
    \/ EngineRuns \/ PgBouncerRestarts

PathNext == AgentRuns \/ AgentDies
PathSpec == PathInit /\ [][PathNext]_pathVars

(* Goroutines get to run, tickers tick, and queries and commands time out. *)
PathFairness ==
    /\ WF_pathVars(Poll) /\ WF_pathVars(Ticks) /\ WF_pathVars(Drain)
    /\ WF_pathVars(EngineRuns)

---------------------------------------------------------------------------
(* What the collector does to the window is what Engine.tla expects of it:
   all that is shown of the engine there holds in the agent. *)
ImplementsEngine == E!EngineSpec

(* As long as both sources answer. *)
Settled(r) == up = Sources /\ role = r /\ ~cancelled

(* engine.go:220, "no other connection pooler stops routing the instant
   Patroni signals a role change": when the node is no longer the primary,
   nothing between Patroni's answer and PgBouncer keeps the pool open for
   ever, if PgBouncer obeyed and nothing was restarted. *)
FailoverHalts ==
    \A r \in NodeRoles : E!Halting(r) =>
        (<>[]Settled(r) => <>[](E!Obedient => pool = 0))

(* engine.go:246: when the node returns to primary, the pool comes back,
   whatever the engine remembers of the failover. *)
ReturnReopens == <>[]Settled("primary") => <>[](~st.suppressed /\ (E!Obedient => pool > 0))
=============================================================================
