---------------------------- MODULE PoolManager ----------------------------
(***************************************************************************)
(* internal/agent/pool.go: the supervisor of the PgBouncer process and its *)
(* stats pipeline.  Every Start spawns a reaper, a poller and a shipper;   *)
(* poller and shipper find each other through the fields statsCh and       *)
(* statsDone, which the next Start overwrites.                             *)
(*                                                                         *)
(* One sequential caller uses the manager, as in both programs of the      *)
(* repository: Run and its local checks (Start again whenever PgBouncer is *)
(* gone, Stop on the way out), and cmd/pooltest (Start, then Stop).        *)
(***************************************************************************)
EXTENDS Integers, FiniteSets

CONSTANTS
    StatsBufferSize,  \* capacity of statsCh
    MaxStarts,        \* successful calls of Start (a bound for TLC)
    MaxSamples,       \* samples polled (a bound for TLC)
    Troubles          \* what may go wrong around the manager

(* "exit": PgBouncer dies.  "query": SHOW STATS fails.  "open", "write": the
   stats log cannot be opened, or a line cannot be written. *)
ASSUME PoolAssumption ==
    /\ StatsBufferSize \in Nat \ {0} /\ MaxStarts \in Nat /\ MaxSamples \in Nat
    /\ Troubles \subseteq {"exit", "query", "open", "write"}

Gens == 1 .. MaxStarts    \* the processes and pipelines, by the Start that made them
nil  == 0

VARIABLES
    caller,      \* where the caller is in Start or Stop
    cmd,         \* pm.cmd: the process the manager holds, and status "running"
    proc,        \* each PgBouncer process
    reaper,      \* each reaper goroutine
    statsCh,     \* the field: the channel that is current
    statsDone,   \* the field: the done channel that is current
    queue,       \* samples in each statsCh
    closedCh,    \* the statsCh that were closed
    closedDone,  \* the statsDone that were closed
    poller,      \* each poller, and the statsDone its select waits on
    shipper,     \* each shipper, and the statsCh it ranges over
    tally,       \* samples polled, shipped, dropped (counted) and unwritten
    panicked     \* a goroutine panicked: the whole agent is gone

processVars  == <<cmd, proc, reaper>>
channelVars  == <<statsCh, statsDone, queue, closedCh, closedDone>>
pipelineVars == <<channelVars, poller, shipper, tally>>
poolVars     == <<caller, processVars, pipelineVars, panicked>>

PoolInit ==
    /\ caller = "idle" /\ cmd = nil /\ panicked = FALSE
    /\ proc = [g \in Gens |-> "none"] /\ reaper = [g \in Gens |-> "none"]
    /\ statsCh = nil /\ statsDone = nil
    /\ queue = [g \in Gens |-> 0] /\ closedCh = {} /\ closedDone = {}
    /\ poller = [g \in Gens |-> [pc |-> "none", done |-> nil]]
    /\ shipper = [g \in Gens |-> [pc |-> "none", ch |-> nil]]
    /\ tally = [polled |-> 0, shipped |-> 0, dropped |-> 0, unwritten |-> 0]

(* pm.mu: only Start and Stop keep it over several steps. *)
MuFree  == caller \in {"idle", "stopped"}
Started == {g \in Gens : proc[g] # "none"}
Live(g) == poller[g].pc \notin {"none", "exit"} \/ shipper[g].pc \notin {"none", "exit"}
Tally(field) == tally' = [tally EXCEPT ![field] = @ + 1]

---------------------------------------------------------------------------
(* Start, with the mutex held from beginning to end.  A manager that holds a
   process refuses, and so does a binary that cannot be run: both leave
   everything as it is. *)
StartSpawn ==
    /\ caller = "idle" /\ cmd = nil /\ Started # Gens
    /\ proc' = [proc EXCEPT ![Cardinality(Started) + 1] = "alive"]
    /\ caller' = "starting"
    /\ UNCHANGED <<cmd, reaper, pipelineVars, panicked>>

(* 300 ms later: signal 0 also succeeds on a process that exited and that
   nobody has waited for, and so it does not tell the two apart. *)
Confirms(g) == proc[g] \in {"alive", "exited"}

StartConfirm ==
    /\ caller = "starting"
    /\ LET g == Cardinality(Started)
       IN  /\ Confirms(g)
           /\ cmd' = g
           /\ reaper' = [reaper EXCEPT ![g] = "waiting"]
           /\ statsCh' = g /\ statsDone' = g
           /\ poller' = [poller EXCEPT ![g] = [pc |-> "wait", done |-> g]]
           /\ shipper' = [shipper EXCEPT ![g] = [pc |-> "open", ch |-> nil]]
    /\ caller' = "idle"
    /\ UNCHANGED <<proc, queue, closedCh, closedDone, tally, panicked>>

(* Stop: the pipeline first, then the process. *)
\* Variant: Stop closes statsCh itself.
StopPipelineAndChannel ==
    /\ caller = "idle"
    /\ IF statsDone = nil
         THEN caller' = "signalling" /\ UNCHANGED <<closedDone, closedCh>>
         ELSE /\ caller' = "waiting" /\ closedDone' = closedDone \cup {statsDone}
              /\ closedCh' = closedCh \cup {statsCh}
    /\ UNCHANGED <<processVars, statsCh, statsDone, queue, poller, shipper, tally, panicked>>

StopPipeline ==
    /\ caller = "idle"
    /\ IF statsDone = nil
         THEN caller' = "signalling" /\ UNCHANGED closedDone
         ELSE caller' = "waiting" /\ closedDone' = closedDone \cup {statsDone}
    /\ UNCHANGED <<processVars, statsCh, statsDone, queue, closedCh, poller, shipper,
                   tally, panicked>>

\* Variant: Stop does not wait for the goroutines.
StopNotWaiting ==
    /\ caller = "waiting"
    /\ statsDone' = nil /\ caller' = "signalling"
    /\ UNCHANGED <<processVars, statsCh, queue, closedCh, closedDone, poller, shipper,
                   tally, panicked>>

(* statsWG counts the goroutines of every pipeline ever started. *)
StopWaited ==
    /\ caller = "waiting" /\ \A g \in Gens : ~Live(g)
    /\ statsDone' = nil /\ caller' = "signalling"
    /\ UNCHANGED <<processVars, statsCh, queue, closedCh, closedDone, poller, shipper,
                   tally, panicked>>

(* SIGTERM fails only when the reaper already has the process; then the
   manager keeps its handle and Stop returns the error. *)
StopSignal ==
    /\ caller = "signalling"
    /\ cmd' = IF cmd # nil /\ proc[cmd] = "reaped" THEN cmd ELSE nil
    /\ caller' = "stopped"
    /\ UNCHANGED <<proc, reaper, pipelineVars, panicked>>

---------------------------------------------------------------------------
(* PgBouncer dies, on its own or of the SIGTERM. *)
Exit(g) ==
    /\ proc[g] = "alive" /\ ("exit" \in Troubles \/ caller = "stopped")
    /\ proc' = [proc EXCEPT ![g] = "exited"]
    /\ UNCHANGED <<caller, cmd, reaper, pipelineVars, panicked>>

ReaperWait(g) ==
    /\ reaper[g] = "waiting" /\ proc[g] = "exited"
    /\ proc' = [proc EXCEPT ![g] = "reaped"]
    /\ reaper' = [reaper EXCEPT ![g] = "locking"]
    /\ UNCHANGED <<caller, cmd, pipelineVars, panicked>>

\* Variant: the reaper clears the handle before it has waited.
ReaperClearsAtOnce(g) ==
    /\ reaper[g] \in {"waiting", "locking"} /\ MuFree
    /\ cmd' = nil
    /\ reaper' = [reaper EXCEPT ![g] = "done"]
    /\ UNCHANGED <<caller, proc, pipelineVars, panicked>>

ReaperClear(g) ==
    /\ reaper[g] = "locking" /\ MuFree
    /\ cmd' = nil
    /\ reaper' = [reaper EXCEPT ![g] = "done"]
    /\ UNCHANGED <<caller, proc, pipelineVars, panicked>>

---------------------------------------------------------------------------
(* statsPoller.  Back in the select it waits on the statsDone of that moment,
   and it sends on, and closes, the statsCh of that moment. *)
Poller(g, pc)  == poller' = [poller EXCEPT ![g].pc = pc]
PollerWaits(g) == poller' = [poller EXCEPT ![g] = [pc |-> "wait", done |-> statsDone]]
Panic == panicked' = TRUE

PollTick(g) ==
    /\ poller[g].pc = "wait"
    /\ Poller(g, "query")
    /\ UNCHANGED <<caller, processVars, channelVars, shipper, tally, panicked>>

\* Variant: the channel is left open.
PollDoneWithoutClose(g) ==
    /\ poller[g].pc = "wait" /\ poller[g].done \in closedDone
    /\ Poller(g, "exit")
    /\ UNCHANGED <<caller, processVars, channelVars, shipper, tally, panicked>>

PollDone(g) ==
    /\ poller[g].pc = "wait" /\ poller[g].done \in closedDone
    /\ Poller(g, "exit")
    /\ IF statsCh \in closedCh
         THEN Panic /\ UNCHANGED closedCh
         ELSE closedCh' = closedCh \cup {statsCh} /\ UNCHANGED panicked
    /\ UNCHANGED <<caller, processVars, statsCh, statsDone, queue, closedDone, shipper, tally>>

(* Also what ends polling at the bound. *)
QueryFails(g) ==
    /\ poller[g].pc = "query"
    /\ "query" \in Troubles \/ tally.polled = MaxSamples
    /\ PollerWaits(g)
    /\ UNCHANGED <<caller, processVars, channelVars, shipper, tally, panicked>>

QueryAnswers(g) ==
    /\ poller[g].pc = "query" /\ tally.polled < MaxSamples
    /\ Poller(g, "offer") /\ Tally("polled")
    /\ UNCHANGED <<caller, processVars, channelVars, shipper, panicked>>

\* Variant: a sample that finds the channel full is forgotten.
OfferReplacing(g) ==
    /\ poller[g].pc = "offer" /\ statsCh \notin closedCh
    /\ queue' = [queue EXCEPT ![statsCh] = IF @ < StatsBufferSize THEN @ + 1 ELSE @]
    /\ PollerWaits(g)
    /\ UNCHANGED <<caller, processVars, statsCh, statsDone, closedCh, closedDone,
                   shipper, tally, panicked>>

Offer(g) ==
    /\ poller[g].pc = "offer" /\ statsCh \notin closedCh
    /\ IF queue[statsCh] < StatsBufferSize
         THEN queue' = [queue EXCEPT ![statsCh] = @ + 1] /\ PollerWaits(g)
         ELSE Poller(g, "drop") /\ UNCHANGED queue
    /\ UNCHANGED <<caller, processVars, statsCh, statsDone, closedCh, closedDone,
                   shipper, tally, panicked>>

OfferClosed(g) ==
    /\ poller[g].pc = "offer" /\ statsCh \in closedCh
    /\ Panic
    /\ UNCHANGED <<caller, processVars, pipelineVars>>

PollDrop(g) ==
    /\ poller[g].pc = "drop" /\ MuFree
    /\ Tally("dropped") /\ PollerWaits(g)
    /\ UNCHANGED <<caller, processVars, channelVars, shipper, panicked>>

---------------------------------------------------------------------------
(* statsShipper.  It ranges over the statsCh it finds once the log is open;
   without a log it drains the channel and counts what it takes. *)
Shipper(g, pc) == shipper' = [shipper EXCEPT ![g].pc = pc]

OpenLog(g) ==
    /\ shipper[g].pc = "open"
    /\ \/ shipper' = [shipper EXCEPT ![g] = [pc |-> "ship", ch |-> statsCh]]
       \/ /\ "open" \in Troubles
          /\ shipper' = [shipper EXCEPT ![g] = [pc |-> "drain", ch |-> statsCh]]
    /\ UNCHANGED <<caller, processVars, channelVars, poller, tally, panicked>>

Take(g) ==
    /\ shipper[g].pc \in {"ship", "drain"} /\ queue[shipper[g].ch] > 0
    /\ queue' = [queue EXCEPT ![shipper[g].ch] = @ - 1]
    /\ Shipper(g, IF shipper[g].pc = "ship" THEN "write" ELSE "count")
    /\ UNCHANGED <<caller, processVars, statsCh, statsDone, closedCh, closedDone,
                   poller, tally, panicked>>

Write(g) ==
    /\ shipper[g].pc = "write"
    /\ Tally("shipped") \/ ("write" \in Troubles /\ Tally("unwritten"))
    /\ Shipper(g, "ship")
    /\ UNCHANGED <<caller, processVars, channelVars, poller, panicked>>

CountDrained(g) ==
    /\ shipper[g].pc = "count" /\ MuFree
    /\ Tally("dropped") /\ Shipper(g, "drain")
    /\ UNCHANGED <<caller, processVars, channelVars, poller, panicked>>

ShipperExit(g) ==
    /\ shipper[g].pc \in {"ship", "drain"}
    /\ shipper[g].ch \in closedCh /\ queue[shipper[g].ch] = 0
    /\ Shipper(g, "exit")
    /\ UNCHANGED <<caller, processVars, channelVars, poller, tally, panicked>>
---------------------------------------------------------------------------
CallerStep == StartSpawn \/ StartConfirm \/ StopPipeline \/ StopWaited \/ StopSignal
InCall     == StartConfirm \/ StopWaited \/ StopSignal
ReaperStep(g)  == ReaperWait(g) \/ ReaperClear(g)
PollerStep(g)  == PollTick(g) \/ PollDone(g) \/ QueryFails(g) \/ QueryAnswers(g)
                    \/ Offer(g) \/ OfferClosed(g) \/ PollDrop(g)
ShipperStep(g) == OpenLog(g) \/ Take(g) \/ Write(g) \/ CountDrained(g) \/ ShipperExit(g)

PoolNext ==
    /\ ~panicked
    /\ \/ CallerStep
       \/ \E g \in Gens : Exit(g) \/ ReaperStep(g) \/ PollerStep(g) \/ ShipperStep(g)

PoolSpec == PoolInit /\ [][PoolNext]_poolVars

(* Start and Stop run to their end, and so does every turn of a goroutine;
   a select with a closed statsDone does not choose the ticker forever.  Nothing
   makes the caller call, makes PgBouncer die or makes a query return. *)
OwnPollStep(g) == PollTick(g) \/ PollDone(g) \/ Offer(g) \/ OfferClosed(g) \/ PollDrop(g)

SupervisorFairness ==
    /\ WF_poolVars(~panicked /\ InCall)
    /\ \A g \in Gens : /\ WF_poolVars(~panicked /\ ReaperStep(g))
                       /\ WF_poolVars(~panicked /\ OwnPollStep(g))
                       /\ SF_poolVars(~panicked /\ PollDone(g))

(* The shippers are left out: a sink may block them for ever. *)
ShippersRun == \A g \in Gens : WF_poolVars(~panicked /\ ShipperStep(g))

(* SHOW STATS has no context and no timeout: it ends if PgBouncer answers it,
   or closes the connection. *)
QueryStep(g)  == QueryFails(g) \/ QueryAnswers(g)
QueriesReturn == \A g \in Gens : WF_poolVars(~panicked /\ QueryStep(g))

PoolFairSpec == PoolSpec /\ SupervisorFairness
---------------------------------------------------------------------------
PollerStates  == {"none", "wait", "query", "offer", "drop", "exit"}
ShipperStates == {"none", "open", "ship", "write", "drain", "count", "exit"}

ProcessTypeOK ==
    /\ caller \in {"idle", "starting", "waiting", "signalling", "stopped"}
    /\ cmd \in Gens \cup {nil}
    /\ proc \in [Gens -> {"none", "alive", "exited", "reaped"}]
    /\ reaper \in [Gens -> {"none", "waiting", "locking", "done"}]
    /\ panicked \in BOOLEAN

ChannelTypeOK ==
    /\ statsCh \in Gens \cup {nil} /\ statsDone \in Gens \cup {nil}
    /\ queue \in [Gens -> 0 .. StatsBufferSize]
    /\ closedCh \subseteq Gens /\ closedDone \subseteq Gens

PollerTypeOK  == poller \in [Gens -> [pc : PollerStates, done : Gens \cup {nil}]]
ShipperTypeOK == shipper \in [Gens -> [pc : ShipperStates, ch : Gens \cup {nil}]]
TallyTypeOK   == /\ tally \in [polled : Nat, shipped : Nat, dropped : Nat, unwritten : Nat]
                 /\ tally.polled <= MaxSamples

(* Type invariant of the supervisor; no channel holds more than its buffer. *)
PoolTypeOK == ProcessTypeOK /\ ChannelTypeOK /\ PollerTypeOK /\ ShipperTypeOK /\ TallyTypeOK

(* pool.go:52, "supervises a single pgbouncer subprocess": however often it
   dies and is started again, no two PgBouncers compete for the port. *)
SinglePgBouncer == Cardinality({g \in Gens : proc[g] = "alive"}) <= 1

(* pool.go:208: a sample that was polled is waiting, in a goroutine's hands,
   written, reported as unwritable, or counted as dropped; none disappears
   and none is counted twice, also with the leftovers of earlier Starts. *)
Offering == {g \in Gens : poller[g].pc \in {"offer", "drop"}}
Handling == {g \in Gens : shipper[g].pc \in {"write", "count"}}
Waiting  == {place \in Gens \X (1 .. StatsBufferSize) : place[2] <= queue[place[1]]}
Accounted ==
    tally.polled = tally.shipped + tally.dropped + tally.unwritten
                     + Cardinality(Offering) + Cardinality(Waiting) + Cardinality(Handling)

(* cmd/pooltest/main.go:126, "Stop() waits for the stats pipeline to fully
   drain before returning": a Stop that gets as far as the process has left
   no goroutine running and no sample unread. *)
Drained ==
    caller \in {"signalling", "stopped"} =>
        \A g \in Gens : ~Live(g) /\ queue[g] = 0

(* pool.go:179, "gracefully terminates": no goroutine closes, or sends on, a
   channel that another one closed, unless an earlier Start left its
   pipeline behind. *)
NoPanic == panicked => Cardinality(Started) > 1

(* cmd/pooltest/main.go:126: ... and, with a sink that makes progress and a
   PgBouncer that does not leave SHOW STATS hanging, Stop does return, unless a
   goroutine has come to count a drop and waits for the
   mutex that Stop holds while it waits for the goroutine. *)
CountsUnderStop ==
    caller = "waiting" /\ \E g \in Gens : poller[g].pc = "drop" \/ shipper[g].pc = "count"

StopReturns ==
    ShippersRun /\ QueriesReturn =>
        (caller = "waiting" ~> caller = "stopped" \/ CountsUnderStop \/ panicked)

(* What the comment says, without the exception. *)
StopAlwaysReturns ==
    ShippersRun /\ QueriesReturn => (caller = "waiting" ~> caller = "stopped")
=============================================================================
