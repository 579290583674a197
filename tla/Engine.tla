------------------------------ MODULE Engine ------------------------------
(***************************************************************************)
(* The decision engine of internal/engine: one control loop that reads the *)
(* rolling window, halts the pool when the node is not the primary,        *)
(* resizes it under load, and persists its state, together with what it    *)
(* acts on: PgBouncer's default_pool_size, the state file and the window   *)
(* that the collector's drain goroutine keeps pushing into.                *)
(*                                                                         *)
(* A tick is not atomic: the window is read three times, each command to   *)
(* PgBouncer may be refused or have its answer lost, each of the steps of  *)
(* saving may fail, and the agent may die between any two of them.         *)
(***************************************************************************)
EXTENDS RecentWindow

CONSTANTS
    Floor,            \* poolSizeFloor = 5
    Step,             \* poolSizeStep = 5
    DownTicks,        \* scaleDownConfirmTicks = 3
    UpTicks,          \* scaleUpConfirmTicks = 6
    DefaultPoolSize,  \* config.DefaultPoolSize = 20
    IniSize,          \* default_pool_size of the generated pgbouncer.ini = 90
    MaxConnections,   \* the largest max_connections a snapshot reports
    FaultKinds,       \* the faults the environment may cause
    MaxFaults,        \* how many of them in one behaviour (a bound for TLC)
    NoFile, Torn      \* the contents of an absent and of a partly written file

ASSUME SizingAssumption ==
    /\ Floor \in Nat \ {0} /\ Step \in Nat /\ Step >= Floor
    /\ MaxConnections \in Nat
    /\ DefaultPoolSize \in Floor .. MaxConnections
    /\ IniSize \in Floor .. MaxConnections

ASSUME TicksAssumption == DownTicks \in Nat \ {0} /\ UpTicks \in Nat \ {0}

(* PostgreSQL is configured with room for the floor. *)
ASSUME ServerAssumption ==
    \A snap \in Snapshots : snap.max \in Floor .. MaxConnections

(* "refused": the SET fails and changes nothing.  "lost": PgBouncer applies
   it but the answer does not arrive within the 3 s timeout.  "save": a step
   of saveStateFile fails.  "query": SHOW CONFIG fails on startup.  "crash":
   the agent dies or is stopped.  "poolRestart": PgBouncer dies and
   performLocalChecks starts it again from its ini file. *)
Faults == {"refused", "lost", "save", "query", "crash", "poolRestart"}

ASSUME FaultsAssumption == FaultKinds \subseteq Faults /\ MaxFaults \in Nat

VARIABLES
    pc,      \* where the control loop is; "down" when the agent is not running
    tick,    \* the locals of the running tick
    st,      \* EngineState in memory
    above,   \* aboveThresholdTicks, saturating at DownTicks
    below,   \* belowHalfTicks, saturating at UpTicks
    file,    \* the state file on disk
    tmp,     \* its temporary sibling
    pool,    \* default_pool_size inside PgBouncer
    faults   \* the faults so far: how many, and of which kinds

counters   == <<above, below>>
disk       == <<file, tmp>>
engineVars == <<win, pc, tick, st, above, below, file, tmp, pool, faults>>

(* EngineState; a zero SuppressedSince is suppressed = FALSE. *)
States == [lastRole : Roles, lastSize : Nat, suppressed : BOOLEAN, size : Nat]

ASSUME FilesAssumption == NoFile \notin States /\ Torn \notin States /\ NoFile # Torn

(* History: a bound and a condition for properties; no step reads the kinds. *)
FaultLog == [count : 0 .. MaxFaults, kinds : SUBSET FaultKinds]
NoFaults == [count |-> 0, kinds |-> {}]

Zones == {"high", "low", "middle", "invalid"}
NoTick == [role |-> "", max |-> 0, zone |-> "middle", resume |-> "idle"]

(* New without a state file. *)
FreshState == [lastRole   |-> "",
               lastSize   |-> DefaultPoolSize,
               suppressed |-> FALSE,
               size       |-> DefaultPoolSize]

EngineInit ==
    /\ WindowInit
    /\ pc = "down" /\ tick = NoTick /\ st = FreshState
    /\ above = 0 /\ below = 0
    /\ file = NoFile /\ tmp = NoFile
    /\ pool = IniSize
    /\ faults = NoFaults

Fault(kind) ==
    /\ kind \in FaultKinds /\ faults.count < MaxFaults
    /\ faults' = [count |-> faults.count + 1, kinds |-> faults.kinds \cup {kind}]

---------------------------------------------------------------------------
(* setPoolSize: SET default_pool_size = size, and what the engine is told. *)
Replies == {"applied", "lost", "refused"}

\* Variant: the floor is also applied to the 0 of a halt.
SetAtLeastFloor(size, reply) ==
    \/ reply \in {"applied", "lost"} /\ pool' = (IF size < Floor THEN Floor ELSE size)
       /\ IF reply = "lost" THEN Fault("lost") ELSE UNCHANGED faults
    \/ reply = "refused" /\ UNCHANGED pool /\ Fault("refused")

SetPoolSize(size, reply) ==
    \/ reply = "applied" /\ pool' = size /\ UNCHANGED faults
    \/ reply = "lost"    /\ pool' = size /\ Fault("lost")
    \/ reply = "refused" /\ UNCHANGED pool /\ Fault("refused")

(* The load zone of evaluateLoad, without division: avg = SumActive / Len,
   above 0.80 * max, below 0.50 * max. *)
ZoneOf(w, max) ==
    IF max <= 0 THEN "invalid"
    ELSE IF 5 * SumActive(w) > 4 * Len(w) * max THEN "high"
    ELSE IF 2 * SumActive(w) < Len(w) * max THEN "low"
    ELSE "middle"

\* Variants: no floor; no step unless the ceiling cuts it; a restore to the
\* size of the halted pool; a halt before any role is known.
SmallerWithoutFloor(size)        == size - Step
LargerOnlyToCeiling(size, ceil)  == IF size + Step > ceil THEN ceil ELSE size
RestoreHaltedSize                == st.size
HaltingUnknown(role)             == role # "primary"

Smaller(size) == IF size - Step < Floor THEN Floor ELSE size - Step
Larger(size, ceil) == IF size + Step > ceil THEN ceil ELSE size + Step
RestoreSize == IF st.lastSize <= 0 THEN DefaultPoolSize ELSE st.lastSize
Halting(role) == role # "primary" /\ role # ""

---------------------------------------------------------------------------
(* The drain goroutine of the agent, started before the engine: it may push
   between any two steps. *)
DrainPush ==
    /\ WindowNext
    /\ UNCHANGED <<pc, tick, st, counters, disk, pool, faults>>

(* New and Start: the state file if there is one, then the size PgBouncer
   reports, or the persisted one if it cannot be asked. *)
Boot ==
    /\ pc = "down" /\ file # Torn
    /\ LET loaded == IF file = NoFile THEN FreshState ELSE file
       IN  \/ st' = [loaded EXCEPT !.size = pool] /\ UNCHANGED faults
           \/ st' = loaded /\ Fault("query")
    /\ pc' = "idle"
    /\ UNCHANGED <<win, tick, counters, disk, pool>>

(* tick: three separate reads of the window. *)
ReadRole ==
    /\ pc = "idle"
    /\ tick' = [NoTick EXCEPT !.role = CurrentRole]
    /\ pc' = "latest"
    /\ UNCHANGED <<win, st, counters, disk, pool, faults>>

SkipTick ==
    /\ pc = "latest" /\ ~HasLatest
    /\ tick' = NoTick
    /\ pc' = "idle"
    /\ UNCHANGED <<win, st, counters, disk, pool, faults>>

ReadLatest ==
    /\ pc = "latest" /\ HasLatest
    /\ tick' = [tick EXCEPT !.max = Latest.max]
    /\ pc' = "average"
    /\ UNCHANGED <<win, st, counters, disk, pool, faults>>

\* Variant: a suppressed engine on a primary goes straight to the load.
ReadAverageSkippingRecovery ==
    /\ pc = "average"
    /\ tick' = [tick EXCEPT !.zone = ZoneOf(win, tick.max)]
    /\ pc' = IF Halting(tick.role) THEN "decide" ELSE "evaluate"
    /\ UNCHANGED <<win, st, counters, disk, pool, faults>>

ReadAverage ==
    /\ pc = "average"
    /\ tick' = [tick EXCEPT !.zone = ZoneOf(win, tick.max)]
    /\ pc' = IF Halting(tick.role) \/ st.suppressed THEN "decide" ELSE "evaluate"
    /\ UNCHANGED <<win, st, counters, disk, pool, faults>>

---------------------------------------------------------------------------
(* handleFailover.  Memory is changed before the SET and its failure is only
   logged: the engine is suppressed whatever PgBouncer answered. *)
Halt ==
    /\ pc = "decide" /\ Halting(tick.role) /\ ~st.suppressed
    /\ \E reply \in Replies : SetPoolSize(0, reply)
    /\ st' = [lastRole |-> tick.role, lastSize |-> st.size,
              suppressed |-> TRUE, size |-> 0]
    /\ above' = 0 /\ below' = 0
    /\ pc' = "save"
    /\ UNCHANGED <<win, tick, disk>>

(* Already suppressed: no SET, and the counters are left alone. *)
StayHalted ==
    /\ pc = "decide" /\ Halting(tick.role) /\ st.suppressed
    /\ pc' = "save"
    /\ UNCHANGED <<win, tick, st, counters, disk, pool, faults>>

(* handleFailoverRecovery, then save, then on to the load evaluation, also
   when the SET failed and the engine stays suppressed. *)
Restore ==
    /\ pc = "decide" /\ ~Halting(tick.role) /\ st.suppressed
    /\ \E reply \in Replies :
          /\ SetPoolSize(RestoreSize, reply)
          /\ IF reply = "applied"
               THEN /\ st' = [lastRole |-> "primary", lastSize |-> st.lastSize,
                              suppressed |-> FALSE, size |-> RestoreSize]
                    /\ above' = 0 /\ below' = 0
               ELSE UNCHANGED <<st, counters>>
    /\ tick' = [tick EXCEPT !.resume = "evaluate"]
    /\ pc' = "save"
    /\ UNCHANGED <<win, disk>>

---------------------------------------------------------------------------
(* evaluateLoad.  A counter is reset by a successful SET and by an attempt
   that the floor or the ceiling makes pointless, but not by a failed SET:
   the next tick in the same zone tries again. *)
Finish ==
    /\ tick' = [tick EXCEPT !.resume = "idle"]
    /\ pc' = "save"
    /\ UNCHANGED <<win, disk>>

\* Variant: memory records the size whatever PgBouncer answered.
ResizeUnchecked(size, reply) ==
    SetPoolSize(size, reply) /\ st' = [st EXCEPT !.size = size]

Resize(size, reply) ==
    /\ SetPoolSize(size, reply)
    /\ st' = IF reply = "applied" THEN [st EXCEPT !.size = size] ELSE st

Shrink ==
    /\ pc = "evaluate" /\ tick.zone = "high" /\ above + 1 >= DownTicks
    /\ Smaller(st.size) < st.size
    /\ \E reply \in Replies :
          /\ Resize(Smaller(st.size), reply)
          /\ above' = IF reply = "applied" THEN 0 ELSE DownTicks
    /\ below' = 0
    /\ Finish

Grow ==
    /\ pc = "evaluate" /\ tick.zone = "low" /\ below + 1 >= UpTicks
    /\ Larger(st.size, tick.max) > st.size
    /\ \E reply \in Replies :
          /\ Resize(Larger(st.size, tick.max), reply)
          /\ below' = IF reply = "applied" THEN 0 ELSE UpTicks
    /\ above' = 0
    /\ Finish

\* Variant: a tick that is not high does not end a run of high ones.
CountKeepingHigh ==
    /\ pc = "evaluate"
    /\ \/ /\ tick.zone = "high" /\ above + 1 < DownTicks
          /\ above' = above + 1 /\ below' = 0
       \/ /\ tick.zone = "low" /\ below + 1 < UpTicks
          /\ below' = below + 1 /\ UNCHANGED above
       \/ /\ tick.zone \in {"middle", "invalid"}
          /\ below' = 0 /\ UNCHANGED above
    /\ UNCHANGED <<st, pool, faults>>
    /\ Finish

(* The ticks that issue no command: still counting, at the floor or at the
   ceiling, between the thresholds, or without a usable max_connections. *)
Count ==
    /\ pc = "evaluate"
    /\ \/ /\ tick.zone = "high" /\ above + 1 < DownTicks
          /\ above' = above + 1 /\ below' = 0
       \/ /\ tick.zone = "high" /\ above + 1 >= DownTicks /\ Smaller(st.size) >= st.size
          /\ above' = 0 /\ below' = 0
       \/ /\ tick.zone = "low" /\ below + 1 < UpTicks
          /\ below' = below + 1 /\ above' = 0
       \/ /\ tick.zone = "low" /\ below + 1 >= UpTicks
          /\ Larger(st.size, tick.max) <= st.size
          /\ above' = 0 /\ below' = 0
       \/ /\ tick.zone \in {"middle", "invalid"}
          /\ above' = (IF tick.zone = "middle" THEN 0 ELSE above)
          /\ below' = (IF tick.zone = "middle" THEN 0 ELSE below)
    /\ UNCHANGED <<st, pool, faults>>
    /\ Finish

---------------------------------------------------------------------------
(* saveStateFile: write the temporary file, rename it over the state file.
   Best effort: whichever step fails, the tick goes on. *)
Resume == pc' = tick.resume /\ tick' = IF tick.resume = "idle" THEN NoTick ELSE tick

\* Variants: the state file itself is opened for writing; the suppression
\* is not written.
CreateInPlace ==
    /\ pc = "save"
    /\ file' = Torn /\ tmp' = Torn /\ pc' = "write"
    /\ UNCHANGED <<win, tick, st, counters, pool, faults>>

WriteWithoutSuppression ==
    /\ pc = "write"
    /\ tmp' = [st EXCEPT !.suppressed = FALSE] /\ pc' = "rename"
    /\ UNCHANGED <<win, tick, st, counters, file, pool, faults>>

CreateTemp ==
    /\ pc = "save"
    /\ tmp' = Torn /\ pc' = "write"
    /\ UNCHANGED <<win, tick, st, counters, file, pool, faults>>

WriteTemp ==
    /\ pc = "write"
    /\ tmp' = st /\ pc' = "rename"
    /\ UNCHANGED <<win, tick, st, counters, file, pool, faults>>

RenameTemp ==
    /\ pc = "rename"
    /\ file' = tmp /\ tmp' = NoFile
    /\ Resume
    /\ UNCHANGED <<win, st, counters, pool, faults>>

SaveFails ==
    /\ pc \in {"save", "write", "rename"} /\ Fault("save")
    /\ Resume
    /\ UNCHANGED <<win, st, counters, disk, pool>>

Save == CreateTemp \/ WriteTemp \/ RenameTemp \/ SaveFails

---------------------------------------------------------------------------
(* The agent dies or is stopped: memory is gone, PgBouncer and the disk stay.
   Shutdown lets a running tick finish, which is a crash at "idle". *)
Crash ==
    /\ Fault("crash")
    /\ pc' = "down" /\ tick' = NoTick /\ st' = FreshState
    /\ above' = 0 /\ below' = 0 /\ win' = <<>>
    /\ UNCHANGED <<disk, pool>>

(* A new PgBouncer process reads its size from the ini file. *)
PoolRestart ==
    /\ Fault("poolRestart")
    /\ pool' = IniSize
    /\ UNCHANGED <<win, pc, tick, st, counters, disk>>

EngineStep ==
    \/ Boot \/ ReadRole \/ SkipTick \/ ReadLatest \/ ReadAverage
    \/ Halt \/ StayHalted \/ Restore
    \/ Shrink \/ Grow \/ Count
    \/ Save

EngineNext == EngineStep \/ DrainPush \/ Crash \/ PoolRestart
EngineSpec == EngineInit /\ [][EngineNext]_engineVars

(* Every command and query of a tick has a 3 s timeout, the ticker fires
   every 2 s, and the agent is started again after it stopped: the engine
   never stays where it is.  Nothing is assumed of the collector. *)
EngineFairSpec == EngineSpec /\ WF_engineVars(EngineStep)
---------------------------------------------------------------------------
ControlTypeOK ==
    /\ pc \in {"down", "idle", "latest", "average", "decide", "evaluate",
               "save", "write", "rename"}
    /\ tick \in [role : Roles, max : Nat, zone : Zones, resume : {"idle", "evaluate"}]
    /\ st \in States
    /\ above \in 0 .. DownTicks /\ below \in 0 .. UpTicks
    /\ {file, tmp} \subseteq States \cup {NoFile, Torn}
    /\ pool \in Nat
    /\ faults \in FaultLog

EngineTypeOK == WindowTypeOK /\ ControlTypeOK

(* engine.go:33, "Floor ensures a minimum functional pool": whatever is
   refused, lost, forgotten or restarted, PgBouncer's pool is either halted
   or between the floor and what the server accepts.  In particular the pool
   is never left at the size a scale-up from a halted 0 would stop at. *)
Sized(size) == size = 0 \/ size \in Floor .. MaxConnections
PoolSizeSafe == Sized(pool)

(* state.go, saveStateFile: a crash between any two steps of saving leaves
   a file that the next start can read. *)
FileNeverTorn == file # Torn

(* Why PoolSizeSafe holds: every size the engine may still send is sized,
   whether it is remembered in memory or on disk, and the ceiling a tick
   works with is one that a snapshot reported.  Inductive. *)
StateSized(s) == Sized(s.size) /\ Sized(s.lastSize)
SavesItsState == FileNeverTorn /\ (pc = "rename" => tmp = st)
TickCeiling ==
    \/ pc \in {"average", "decide", "evaluate"}
    \/ pc \in {"save", "write", "rename"} /\ tick.resume = "evaluate"
    => tick.max \in Floor .. MaxConnections
SizesInv ==
    /\ Sized(pool) /\ StateSized(st)
    /\ file # NoFile => StateSized(file)
EngineInv == EngineTypeOK /\ SavesItsState /\ TickCeiling /\ SizesInv

(* state.go:6, the state "survives restarts": unless saving failed, from the
   end of a tick to the next command the disk holds the suppression and the
   size to restore that memory holds, so that a crash there forgets nothing. *)
Quiet == {"idle", "latest", "average", "decide", "evaluate"}
RemembersOnDisk ==
    "save" \notin faults.kinds /\ pc \in Quiet =>
        LET saved == IF file = NoFile THEN FreshState ELSE file
        IN  /\ saved.suppressed = st.suppressed
            /\ saved.lastSize = st.lastSize
            /\ saved.lastRole = st.lastRole

(* engine.go:65, "instant pool_size=0": the tick that finds the node not primary
   ends with the engine suppressed; and as long as PgBouncer executes every
   command and neither it nor the agent is restarted, a suppressed engine means
   an empty pool. *)
Obedient == faults.kinds \subseteq {"save", "query"}
Saving   == {"save", "write", "rename"}
HaltHolds ==
    /\ pc \in Saving /\ Halting(tick.role) => st.suppressed
    /\ Obedient /\ st.suppressed => pool = 0

(* Why: what is evaluated, or will be after a save, is not a tick to halt. *)
HaltingInv ==
    /\ pc \in {"latest", "average", "decide"} => tick.resume = "idle"
    /\ pc = "evaluate" => ~Halting(tick.role)
    /\ pc \in Saving /\ tick.resume = "evaluate" => ~Halting(tick.role)
    /\ pc \in Saving /\ Halting(tick.role) => st.suppressed

(* Why: load is evaluated only after a restore that succeeded, and the state
   file is read only by the first process.  Inductive with EngineInv. *)
ObedientInv ==
    Obedient =>
        /\ st.suppressed => pool = 0
        /\ pc = "down" => file = NoFile /\ ~st.suppressed
        /\ pc = "evaluate" => ~st.suppressed
        /\ pc \in {"latest", "average", "decide"} => tick.resume = "idle"
        /\ pc \in {"save", "write", "rename"} /\ tick.resume = "evaluate" => ~st.suppressed

(* state.go:35, CurrentPoolSize is the "authoritative tracking value": while
   load is evaluated, lost and refused answers, crashes and failed saves
   never put it more than one step away from PgBouncer's own value. *)
DriftBounded ==
    /\ faults.kinds \cap {"poolRestart", "query"} = {}
    /\ pc # "down" /\ ~st.suppressed
    => pool - st.size \in -Step .. Step

(* engine.go:59-65: the engine is a valve on PgBouncer's pool as long as commands
   are obeyed, PgBouncer answers on startup and nothing is restarted; a failed
   save does no harm to a valve.  After any other fault the sizes stay legal. *)
Faithful == faults.kinds \subseteq {"save"}
Valve == INSTANCE PoolValve
           WITH mode <- IF ~Faithful THEN "astray" ELSE IF st.suppressed THEN "halted" ELSE "open",
                size <- pool
ImplementsPoolValve == Valve!ValveSpec

(* Why: then what the engine tracks is what PgBouncer has. *)
Tracked == Faithful /\ pc # "down" /\ ~st.suppressed => pool = st.size

---------------------------------------------------------------------------
(* Liveness.  What the newest snapshot says of the node. *)
SeesPrimary == HasLatest /\ Latest.role = "primary"

(* engine.go:259, "retry next tick": once the node is and stays primary, the
   engine does not stay suppressed, however often the SET failed before, and
   clients get their connections back, unless a crash or a failed save made
   it forget what it had done. *)
PoolReopens ==
    <>[]SeesPrimary =>
        <>[](~st.suppressed /\ (faults.kinds \cap {"save", "crash"} = {} => pool > 0))

(* engine.go:26, recovery is "deliberate", but it does come: a primary that
   stays below half load gets every connection the server accepts, also when
   commands were refused and the agent crashed; a lost answer costs it at
   most one step (see DriftBounded: at the ceiling no further SET is sent). *)
QuietPrimary(max) ==
    HasLatest /\ \A i \in 1 .. Len(win) :
        win[i].role = "primary" /\ win[i].max = max /\ 2 * win[i].active < max
QuietGrowsToCeiling ==
    \A max \in Floor .. MaxConnections :
        <>[]QuietPrimary(max)
          => <>[](faults.kinds \cap {"query", "poolRestart"} = {} => pool + Step >= max)
=============================================================================
