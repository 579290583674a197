----------------------------- MODULE Lifecycle -----------------------------
(***************************************************************************)
(* The agent as a process: the order in which main (cmd/axiom-agent)       *)
(* starts things, the goroutine that handles signals, Agent.Run, and how   *)
(* they end, seen from the PgBouncer that the agent starts and does not    *)
(* take along when it exits.  main and then Run try to start PgBouncer:    *)
(* only Run, if it succeeds, defers the Stop.                              *)
(***************************************************************************)
EXTENDS Naturals

VARIABLES
    main,        \* main: which start-up step is next, or how far it is in ending
    run,         \* Agent.Run
    sig,         \* what the signal goroutine is doing, "none" before a signal
    cancelled,   \* the context of Run
    streams,     \* a client holds a stream of the gRPC server open
    child,       \* the PgBouncer of this agent: "dead" until its reaper notices,
                 \* "told" once it has been sent a SIGTERM
    pipelines,   \* Starts that came off, each with a stats pipeline: 2 for more
    registered,  \* Run has deferred pool.Stop
    orphan       \* a PgBouncer of an earlier agent is alive and has the port

agentVars     == <<main, run, sig, cancelled>>
poolVars      == <<child, pipelines, registered, orphan>>
lifecycleVars == <<agentVars, streams, poolVars>>

Up == main # "down"

LifecycleInit ==
    /\ main = "down" /\ run = "none" /\ sig = "none"
    /\ cancelled = FALSE /\ streams = FALSE
    /\ child = "none" /\ pipelines = 0 /\ registered = FALSE /\ orphan \in BOOLEAN

(* The process is gone, and with it everything but PgBouncer. *)
Exit ==
    /\ main' = "down" /\ run' = "none" /\ sig' = "none"
    /\ cancelled' = FALSE /\ streams' = FALSE
    /\ child' = "none" /\ pipelines' = 0 /\ registered' = FALSE
    /\ orphan' = (orphan \/ child \in {"alive", "told"})

---------------------------------------------------------------------------
(* PgBouncer, seen from outside PoolManager.  It cannot bind a port that is
   taken and exits; Start may not notice (see StartConfirm there), the
   manager's reaper soon does. *)
StartComesOff ==
    /\ child' = IF orphan THEN "dead" ELSE "alive"
    /\ pipelines' = IF pipelines = 0 THEN 1 ELSE 2

(* The binary cannot be run, or nothing is left to be sent signal 0. *)
StartFails == UNCHANGED <<child, pipelines>>

PgBouncerDies ==
    /\ \/ child = "alive" /\ child' = "dead" /\ UNCHANGED orphan
       \/ child = "told" /\ child' = "none" /\ UNCHANGED orphan
       \/ orphan /\ orphan' = FALSE /\ UNCHANGED child
    /\ UNCHANGED <<agentVars, streams, pipelines, registered>>

(* The reaper needs the manager's mutex, which Stop holds while it waits. *)
ReaperNotices ==
    /\ child = "dead" /\ run # "stopping" /\ child' = "none"
    /\ UNCHANGED <<agentVars, streams, pipelines, registered, orphan>>

---------------------------------------------------------------------------
(* main. *)
Launch ==
    /\ main = "down" /\ main' = "pool"
    /\ UNCHANGED <<run, sig, cancelled, streams, poolVars>>

(* An error is only logged. *)
StartPool ==
    /\ main = "pool" /\ main' = "db"
    /\ StartComesOff \/ StartFails
    /\ UNCHANGED <<run, sig, cancelled, streams, registered, orphan>>

(* The state store opens; signals are handled and Run is started from here. *)
InitDB ==
    /\ main = "db" /\ main' = "listen" /\ run' = "start"
    /\ UNCHANGED <<sig, cancelled, streams, poolVars>>

(* log.Fatalf: the state store does not open, or the gRPC port is taken. *)
Fatal == main \in {"db", "listen"} /\ Exit

(* Serve refuses to begin after GracefulStop: main then ends in Fatal. *)
Listen ==
    /\ main = "listen" /\ sig \in {"none", "pending"} /\ main' = "serving"
    /\ UNCHANGED <<run, sig, cancelled, streams, poolVars>>

(* Serve returns when GracefulStop has come to its end; main's deferred
   calls then cancel the context and close the store. *)
ServeReturns ==
    /\ main = "serving" /\ sig = "stopped"
    /\ main' = "closing" /\ cancelled' = TRUE
    /\ UNCHANGED <<run, sig, streams, poolVars>>

MainReturns == main = "closing" /\ Exit

(* A crash, or a service manager that loses its patience. *)
Kill == Up /\ Exit

---------------------------------------------------------------------------
(* Signals.  Before main asks for them they end the process; after that the
   goroutine takes one, and all later ones stay in the channel. *)
SignalAtStart == main \in {"pool", "db"} /\ Exit

Signal ==
    /\ main \in {"listen", "serving"} /\ sig = "none" /\ sig' = "pending"
    /\ UNCHANGED <<main, run, cancelled, streams, poolVars>>

TakeSignal ==
    /\ sig = "pending" /\ sig' = "graceful"
    /\ UNCHANGED <<main, run, cancelled, streams, poolVars>>

\* Variant: the context is cancelled, and the server is left alone.
OnlyCancel ==
    /\ sig = "graceful" /\ ~cancelled /\ cancelled' = TRUE
    /\ UNCHANGED <<main, run, sig, streams, poolVars>>

\* Variant: Stop, which breaks off the calls that are running.
StopAtOnce ==
    /\ sig = "graceful"
    /\ sig' = "stopped"
    /\ UNCHANGED <<main, run, cancelled, streams, poolVars>>

(* GracefulStop waits for the streams that are open. *)
GracefulStop ==
    /\ sig = "graceful" /\ ~streams
    /\ sig' = "stopped"
    /\ UNCHANGED <<main, run, cancelled, streams, poolVars>>

(* The cancel after it races with main's return. *)
Cancel ==
    /\ sig = "stopped" /\ ~cancelled /\ cancelled' = TRUE
    /\ UNCHANGED <<main, run, sig, streams, poolVars>>

(* A client opens a stream (the server's Connect, PushLogs, ...) unless the
   server is stopping, and closes it when it likes. *)
StreamOpens ==
    /\ main = "serving" /\ sig \in {"none", "pending"} /\ ~streams /\ streams' = TRUE
    /\ UNCHANGED <<agentVars, poolVars>>

StreamCloses ==
    /\ streams /\ streams' = FALSE
    /\ UNCHANGED <<agentVars, poolVars>>

---------------------------------------------------------------------------
(* Agent.Run.  A process that is held, dead or alive, makes Start refuse. *)
RunStartsPool ==
    /\ run = "start" /\ run' = "loop"
    /\ \/ child = "none" /\ StartComesOff /\ registered' = TRUE
       \/ StartFails /\ UNCHANGED registered
    /\ UNCHANGED <<main, sig, cancelled, streams, orphan>>

RunGoes(from, to) ==
    /\ run = from /\ run' = to
    /\ UNCHANGED <<main, sig, cancelled, streams, registered, orphan>>

(* performLocalChecks, every 30 seconds and with the agent's mutex: Patroni
   is asked for its status, over HTTP and with no timeout ... *)
ChecksBegin    == RunGoes("loop", "asking") /\ UNCHANGED <<child, pipelines>>
PatroniAnswers == RunGoes("asking", "pool") /\ UNCHANGED <<child, pipelines>>

\* Variant: the checks only report.
ChecksOnlyLook == RunGoes("pool", "rest") /\ UNCHANGED <<child, pipelines>>

(* ... then a PgBouncer that is gone is started again ... *)
CheckPool ==
    /\ RunGoes("pool", "rest")
    /\ \/ child = "none" /\ StartComesOff
       \/ StartFails

(* ... and then the backups, ZFS, the load and the system are looked at. *)
ChecksEnd == RunGoes("rest", "loop") /\ UNCHANGED <<child, pipelines>>

\* Variant: Run returns without its deferred Stop.
RunEndsAtOnce == cancelled /\ RunGoes("loop", "gone") /\ UNCHANGED <<child, pipelines>>

(* Run returns: engine and collector are shut down, then the deferred Stop
   takes the manager's mutex and waits for the stats pipelines ... *)
RunEnds ==
    /\ cancelled /\ RunGoes("loop", IF registered THEN "stopping" ELSE "gone")
    /\ UNCHANGED <<child, pipelines>>

(* ... and tells PgBouncer to end.  That fails if the reaper has the process
   already. *)
StopSignals ==
    /\ pipelines = 1 /\ RunGoes("stopping", "gone")
    /\ child' \in CASE child = "alive" -> {"told"}
                     [] child = "dead"  -> {"none", "dead"}
                     [] OTHER           -> {child}
    /\ UNCHANGED pipelines

(* With two pipelines the second poller closes a channel that the first one
   has closed, while Stop still waits (NoPanic in PoolManager): a panic. *)
StopPanics == run = "stopping" /\ pipelines = 2 /\ Exit

---------------------------------------------------------------------------
MainStep   == StartPool \/ InitDB \/ Fatal \/ Listen \/ ServeReturns \/ MainReturns
SignalStep == TakeSignal \/ GracefulStop \/ Cancel
CheckStep  == ChecksBegin \/ PatroniAnswers \/ CheckPool \/ ChecksEnd
RunStep    == RunStartsPool \/ CheckStep \/ RunEnds \/ StopSignals \/ StopPanics

LifecycleNext ==
    \/ MainStep \/ SignalStep \/ RunStep
    \/ Launch \/ Kill \/ SignalAtStart \/ Signal
    \/ StreamOpens \/ StreamCloses \/ PgBouncerDies \/ ReaperNotices

LifecycleSpec == LifecycleInit /\ [][LifecycleNext]_lifecycleVars

(* Goroutines get to run and the ticker ticks.  Nothing is assumed of clients,
   signals, crashes, of the service manager that would launch the agent again,
   of a Stop, or of what the local checks ask. *)
LifecycleFairSpec ==
    /\ LifecycleSpec
    /\ WF_lifecycleVars(MainStep) /\ WF_lifecycleVars(SignalStep)
    /\ WF_lifecycleVars(ChecksBegin) /\ WF_lifecycleVars(CheckPool)
    /\ WF_lifecycleVars(ReaperNotices)

(* Patroni's API answers, and so do pgbackrest, zfs and the databases. *)
ChecksReturn == WF_lifecycleVars(PatroniAnswers) /\ WF_lifecycleVars(ChecksEnd)

(* A PgBouncer that is started again and again can be run in the end. *)
BinaryRuns == SF_lifecycleVars(child = "none" /\ CheckPool /\ StartComesOff)

---------------------------------------------------------------------------
(* Type invariant of the agent's life cycle, and who outlives whom: Run is
   started by main once the state store is open, no client is served before
   main listens, and none is cut off when main goes on to close the store. *)
LifecycleTypeOK ==
    /\ main \in {"down", "pool", "db", "listen", "serving", "closing"}
    /\ run \in {"none", "start", "loop", "asking", "pool", "rest", "stopping", "gone"}
    /\ sig \in {"none", "pending", "graceful", "stopped"}
    /\ {cancelled, streams, registered, orphan} \subseteq BOOLEAN
    /\ child \in {"none", "alive", "dead", "told"} /\ pipelines \in 0 .. 2
    /\ run = "none" <=> main \in {"down", "pool", "db"}
    /\ sig # "none" => main \in {"listen", "serving", "closing"}
    /\ streams => main = "serving" /\ sig # "stopped"

(* A signal ends the agent, whenever it comes and wherever the process is,
   once no client keeps a stream open: the goroutine that handles it, the
   server that drains and main do not wait for one another in a circle. *)
SignalEndsAgent == []<>~streams => (sig # "none" ~> ~Up)

(* However often PgBouncer dies, an agent whose Run goes on starts another,
   once no PgBouncer of an earlier agent has the port: as long as what the
   local checks ask answers, and the binary can be run. *)
Running == run \in {"loop", "asking", "pool", "rest"}

PoolIsServed ==
    ChecksReturn /\ BinaryRuns =>
        (<>[](Running /\ ~cancelled /\ ~orphan) => []<>(child = "alive"))

(* Two PgBouncers never hold the port, and the agent outlives none that Run
   has promised to stop: when Run has returned, only a PgBouncer that main
   started, or that Run was refused, is left and was not told to end.  And
   Run returns with such a promise only if no Start before or after its own
   came off: otherwise Stop ends in a panic that takes the agent with it. *)
StopsWhatItRegistered ==
    /\ ~(child = "alive" /\ orphan)
    /\ run = "gone" /\ registered => child # "alive" /\ pipelines = 1
=============================================================================
