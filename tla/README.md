# TLA+ models of the axiom-pg agent

The agent (`src/cmd/axiom-agent`) runs beside a PostgreSQL node. It supervises
PgBouncer and Patroni, samples the node's role and load, resizes PgBouncer's
pool from what it sampled, and carries out commands that AxiomPostgres Center
sends over a stream. Nearly everything in it is a goroutine of its own, talking
to processes and services that may die, refuse or answer late. These modules
model that concurrency and those failures; TLC checks them on small instances and
TLAPS proves the main results for every value of the constants.

Paths below are relative to `src/`.

## 1. The system

| component | state it keeps | operations | talks to | modelled in |
|---|---|---|---|---|
| decision engine (`internal/engine`) | `EngineState` in memory and in a JSON file, two hysteresis counters | one tick every 2 s: halt, restore, shrink, grow, save; startup | reads the window; `SET default_pool_size` to PgBouncer | `Engine`, `EngineHistory`, `PoolValve` |
| rolling window (`internal/signals/window.go`) | circular buffer | push, newest, average | written by the drain goroutine, read by the engine | `Window`, `RecentWindow` |
| collector (`internal/signals/collector.go`) | two bounded channels | poll (every second by default), shutdown | Patroni's REST API, PostgreSQL, the drain goroutines of `Agent.Run` | `Collector`, over `Window` |
| signal path (`Agent.Run`) | the above, in one process | start, stop, crash | Patroni at one end, PgBouncer at the other | `SignalPath`, `PathHistory` |
| PgBouncer supervisor (`internal/agent/pool.go`) | process handle, status, stats pipeline | Start, Stop, reaper, poller, shipper | the process; `performLocalChecks` | `PoolManager` |
| command plane (`agent.go`, `reconcile.go`, `main.go`) | results, desired state in memory and in bbolt | receive, handle, record, heartbeat, reconnect, load | Center | `CommandPlane` |
| migrations (`migration.go`, `reconcile.go`) | one task per migration | create, retarget, run the phases | two databases, pg_dump | `Migration` |
| Patroni manager (`patroni.go`, `ha.go`) | process handle | Bootstrap, Stop, reaper, status, promotion | the process, its REST API; handlers of commands, `performLocalChecks` | `Patroni` |
| backup configuration (`backup.go`, `reconcile.go`) | `BackupConfig`, `pgbackrest.conf` | diff with a manifest, update, write | reconcile commands | `Manifest` |
| agent lifecycle (`cmd/axiom-agent/main.go`, `Agent.Run`, `internal/grpc`) | what has been started, the context | start, serve, signal, stop | PgBouncer, clients of the gRPC server | `Lifecycle` |
| backup, restore and drill commands, ZFS, telemetry, AI guard, compliance, configuration | | | | see section 8 |

The path that matters most is the one from a failover to the pool: Patroni
changes the role, the collector's poll reads it, a drain goroutine pushes it into
the window, a tick of the engine reads the window and sends `SET
default_pool_size = 0`, and saves. `Collector` models the first half and runs on
the circular buffer of `Window`; that this buffer is the abstract `RecentWindow` is
checked there and proved; `Engine` extends `RecentWindow` and models the second
half; `SignalPath` is both in one process, as `Agent.Run` puts them together. `PoolManager` models the PgBouncer process that `Engine` sees as an
occasional `PoolRestart`, and `Lifecycle` who starts it and whom it outlives. A
reconcile command passes through `CommandPlane` (its desired state and its result),
then through `Patroni`, `Manifest` and `Migration`, one per section.

What is hard here, and what the properties are for (`PROJECT.json` lists each
hazard with its line):

- a tick of the engine is not atomic: three separate reads of the window, a
  command that may be refused or whose answer may be lost, a save in three steps,
  and a crash between any two of them;
- a role reaches the engine through a poll, a channel, a goroutine and a window, and
  in each of them there may be one that is out of date;
- PgBouncer is restarted by another component, from an ini file with another size;
- the pollers and shippers of several Starts share fields that the next Start
  overwrites, and Stop waits for them while it holds the mutex they need;
- every command runs in a goroutine of its own, and the lists and records
  they share are read in one lock region and written in another;
- a heartbeat reads, sends and clears in three steps;
- the reaper that Bootstrap leaves behind and Stop wait for one process, and only
  one of them can hear its end;
- a status request has no timeout, and one is made, beside other calls without a
  timeout, with the agent's mutex held; the query of the stats poller has none either;
- a configuration is copied without the mutex under which it is replaced, and its
  file is written in place, in a lock region of its own;
- PgBouncer outlives the agent, and its next agent does not know it.

## 2. Modules

**`RecentWindow`** is the specification of the window: the sequence of the last
`WindowSize` snapshots. **`Window`** is `window.go` as written: `buf`, `head`,
`count`, `full`, with `Retained` for the copy that `snapshots()` makes and
`RingLatest` for the slot that `CurrentRole` and `Latest` read. A method holds the
window's lock throughout and is one step. Snapshots keep the three fields the
engine reads.

**`Engine`** is `engine.go` and `state.go`. `pc` is the place in `tick`: `idle`,
`latest` and `average` are the three window reads, `decide` the failover branch,
`evaluate` is `evaluateLoad`, `save`, `write`, `rename` are `saveStateFile`, and
`down` is no process. `st` is `EngineState` (a zero `SuppressedSince` is
`suppressed = FALSE`), `file` and `tmp` the disk, `pool` what PgBouncer really
has. The average is never divided out: thresholds compare integers, as
`5 * sum > 4 * n * max` for `avg > 0.80 * max`. The actions and the code:

| action | code |
|---|---|
| `Boot` | `New`, `loadStateFile`, `Start` |
| `ReadRole`, `SkipTick`, `ReadLatest`, `ReadAverage` | `tick`, lines 181-192 |
| `Halt`, `StayHalted` | `handleFailover` |
| `Restore` | `handleFailoverRecovery` |
| `Shrink`, `Grow`, `Count` | `evaluateLoad` |
| `CreateTemp`, `WriteTemp`, `RenameTemp`, `SaveFails` | `save`, `saveStateFile` |
| `DrainPush` | the drain goroutine of `Agent.Run` |
| `Crash`, `PoolRestart` | the process dies; `performLocalChecks` starts PgBouncer again |

A command's answer is `applied`, `lost` (applied, but the 3 s timeout comes
first) or `refused`. `faults` records how many faults there were (a bound) and of
which kinds: a property whose promise some fault breaks is conditional on the kinds
in that record, so that it is checked in the same run, and for the same behaviours,
as the properties that hold under every fault. No step reads the kinds.

**`PoolValve`** is what the engine promises its clients: halt, reopen, resize by
a step, and, once a fault has made the engine break these rules, `GoAstray`, which
keeps only the legal sizes. **`EngineHistory`** adds a history variable that counts
the consecutive ticks in a zone, which the code's counters are meant to.

**`PoolManager`** numbers processes and pipelines by the Start that made them.
`statsCh` and `statsDone` are the fields; a poller remembers which done channel
its `select` waits on, and uses the *fields* when it sends and closes, as the code
does. `panicked` records a send on, or a close of, a closed channel. Its caller
is sequential, as `Run` and `cmd/pooltest` are: Start again when PgBouncer is
gone, Stop at the end. (`main` starts the pool before `Run` does; where that
succeeded `Run` registers no Stop. The model has every behaviour in which Stop is
called.) A query of the poller, to which the code gives no timeout (`pool.go:320`),
may never come back.

**`CommandPlane`** has one handler per command, one heartbeat goroutine per
stream, and the read, send and clear of a heartbeat as three steps. Storing a
desired state (in memory, under the mutex) and persisting it (without) are two
steps. What else a command does, and what its result says, is left out. `late`
and `excused` are history variables: results recorded while a heartbeat was under
way, and whether two reconciles were ever handled at once or a save failed.
`checking` is the agent's mutex in the hands of `performLocalChecks`, which keeps it
while it asks Patroni and looks at the rest of the node (`agent.go:694`); everyone
else has it for one step, and waits meanwhile. `Migration` has the same variable.

**`Collector`** has the poll loop (`poller`), both channels, both drain
goroutines, `Shutdown`, and the circular buffer of `Window` that one of the drain
goroutines fills (`PushToWindow` is `RingPush`). Snapshots carry a number, given
when the channel accepts them and counted modulo `Modulus`, which `MCCollector` sets
to more than can be in flight. `up` are the sources that answer: for Patroni, with
the status 200 that `fetchPatroni` asks for, whatever the role.

**`SignalPath`** extends `Collector` and takes `Engine` as an instance, with the
collector's buffer as its window (`win <- Retained`). Each action is an action of one
of the two with the other's variables unchanged, except that a process that dies
(`AgentDies`) loses both, while the node's role, PgBouncer and the disk stay. When
Run is told to stop, its deferred calls end the engine first, between two ticks
(`EngineStopsFirst`), then the collector. The end of a stopped process is `AgentDies`
too, and counts among the faults: what a graceful end adds is in `Collector`
(`ShutdownDrains`). The PgBouncer that Run also stops and the next agent starts
again is `PgBouncerRestarts`. **`PathHistory`** counts the changes of the role and the
times the engine halted or restored the pool, in the life of one process.

**`Migration`** is one migration id. Commands create at most one task and start
at most one run each, so both are named after the command. The lookup, comparison,
writing and waking of `reconcileMigrations` are four steps, since only two of them
hold the mutex. `Sends` is the order in which Center sends the commands, from which
their goroutines go on in any. A phase that fails ends in two steps: the phase CDC has
moved on to CUTOVER by the time its error is looked at (`migration.go:83`, `101`), and
the status shows that for a moment. `worked`, `highest`, `missed` and `backwards` are history variables.

**`Patroni`** is `patroni.go` with everybody who calls it: the handlers of
restart, reconcile and promote commands (`pc`, `seen`), the check that the run loop
makes every 30 seconds (`checker`), the reaper of each process and the waiter that a
Stop starts for it. Processes are numbered by the Bootstrap that made them. A process
that has ended is a zombie until one of the two waits reaps it; the other is then
told that there is no such child, and both go on to receive from the channel on which
the goroutine that watches the command's context reports once: `watch` has the
processes for which it still will. This is how Go's `exec.Cmd.Wait` behaves when it is called
twice. `pm.mu` is
held across steps by Stop alone, `a.mu` by the check. A status request is answered,
fails, or hangs as long as `hung` does. The commands:

| command | steps |
|---|---|
| restart | `Handle`, `StopBegins`, then `StopEnds` or `StopTimesOut`, `Boot` if Stop returned no error, `RecordResult` |
| reconcile | `Handle`, `StoreDesiredState`, `Ask` and `Cache` (current state), then `Boot`, or `Ask`, `Cache`, `Checks` (is a promotion safe), `Ask`, `Cache`, `Post` (promotion), or `UpdatePatroniConfig`, and `RecordResult` |
| promote | the safety check, `UpdatePatroniConfig` and the promotion of a reconcile, in that order |

**`Manifest`** is the backup section of a reconcile. A handler copies the
configuration field by field, because it does not hold the mutex under which
another handler assigns it; `UpdateConfig` stores the merged configuration in one lock
region, and truncates and writes the file in another (`Update`, `Truncate`, `Write`,
or `CannotOpen`, `CannotWrite`). At start, and at every restart of the agent, main
writes the file from the defaults before any command is received. `failed` records
whether the last attempt to write failed, and `stale` whose copy another update has
overtaken; no step reads either.

**`Lifecycle`** has main's steps up to `Serve`, the goroutine that handles
signals, `Agent.Run`, and one PgBouncer of this agent besides one that an earlier
agent may have left (`orphan`), which has the port. `Exit` is the end of the process
from wherever it is: PgBouncer is the only thing that stays. A Start comes off or
fails, in main, in Run and in the local checks, and `pipelines` counts the ones that
came off, up to two: with the first, Run's deferred Stop waits for the pipeline and then
signals (`StopSignals`), and with more it ends in the panic that `PoolManager` finds
(`StopPanics`). Run registers that Stop only when its own Start comes off, which takes
a Start in main that failed, or a PgBouncer of main's that is gone by then. The local
checks are four steps, of which asking Patroni comes before PgBouncer.
`InitPool`, which main runs first, is taken to succeed.

`MC*` modules hold the values of constants that a `.cfg` cannot write; `MCLoads`
holds the snapshots that both engine runs use.
Definitions under a comment that begins with `Variant` are mutated forms of the
definition after them; nothing but a mutation test uses them.

## 3. What the runs check

Passing runs, one per component, two for the engine, and one for the signal path:

| run | distinct states | question |
|---|---|---|
| `MCHistory` | 3.7 M | Safety of the engine under any two faults of all six kinds. Is PgBouncer's pool 0 or between floor and limit (`PoolSizeSafe`), is the state file always readable (`FileNeverTorn`)? Does the disk remember suppression and restore size between saves (`RemembersOnDisk`), does a tick that finds the node not primary end suppressed, and does suppressed mean empty (`HaltHolds`), does the tracked size stay within one step of the real one (`DriftBounded`), is the engine a valve (`ImplementsPoolValve`), and does every resize end a full run of consecutive ticks (`ResizesAfterRun`)? |
| `MCEngine` | 889 k | Liveness of the engine under the same faults. Does a node that stays primary leave suppression and get its pool back (`PoolReopens`), and does a quiet one grow to within a step of the limit (`QuietGrowsToCeiling`)? (What a lasting replica comes to is asked in `MCSignalPath`.) |
| `MCPool` | 148 k | Is there only one PgBouncer (`SinglePgBouncer`), is every sample accounted for (`Accounted`), does a Stop that gets past the pipeline leave nothing behind (`Drained`), does nothing panic (`NoPanic`), and does Stop return (`StopReturns`)? |
| `MCPlane` | 342 k | Do memory and disk agree on the newest desired state (`OnlyRacesDiverge`), are results only forgotten between a heartbeat's read and its clear (`OnlyLateResultsForgotten`), and sent in the end otherwise (`ResultsReachCenter`)? |
| `MCCollector` | 194 k | Does the window get what the channel took, in order, without gaps and to the last one (`InOrder`), do the two ways to read the newest snapshot agree (`NewestAgrees`), is the circular buffer a `RecentWindow` (`ImplementsRecentWindow`), and does a shutdown end every goroutine (`ShutdownDrains`)? |
| `MCSignalPath` | 603 k | From the node's role to PgBouncer, with sources that fail, and one crash, stop or restart of PgBouncer. Is what the collector does to the engine what `Engine` assumes (`ImplementsEngine`)? Is the pool halted or restored at most once for each role there was, however stale the snapshots are (`NoFlapping`)? Does a lasting failover halt the pool (`FailoverHalts`), and a lasting return open it (`ReturnReopens`)? |
| `MCMigration` | 194 k | Does one run at a time work on a task (`OneRunPerTask`), is no phase reached before those it follows are done (`EarlierPhasesDone`), is none worked on past the target (`PausesAtTarget`), does a task short of its target always have somebody who will go on with it (`NoLostWakeUp`), and does it get to its target or fail (`ReachesTarget`)? |
| `MCPatroni` | 33 k | Is a Patroni that is alive always the one the manager holds (`Supervised`), is one that ended noticed (`GoneIsNoticed`), and does every command come to its end (`CommandsEnd`), with crashes, slow stops, failed starts, an API that hangs and failovers at any moment? |
| `MCManifest` | 365 k | Does the file hold the configuration whenever nobody is writing it (`FileFollowsConfig`), does an update change the named fields only (`UpdatesMerge`), and is "in sync" true of the file (`InSyncIsTrue`), with two handlers, failing writes and restarts? |
| `MCLifecycle` | 1.4 k | Do the parts start and end in order, so that no client is cut off (`LifecycleTypeOK`), is no PgBouncer left that Run has promised to stop (`StopsWhatItRegistered`), does a signal end the agent (`SignalEndsAgent`), and does somebody serve the port as long as the agent runs (`PoolIsServed`)? Its state is finite; the only bound is that `pipelines` stops at 2. |

Several of these properties have a condition, and each condition marks a place where
the code does not keep the promise its documentation makes without one:

| property | condition | because otherwise |
|---|---|---|
| `HaltHolds` (its second half), `FailoverHalts` | no command refused or lost, no restart of the agent or of PgBouncer | a refused `SET 0` is never sent again (`engine.go:237`, `224`); a crash between the `SET` of a restore and its save makes the next process believe an open pool is halted (`257`, `204`); PgBouncer is started again with the size of its ini file under a suppressed engine (`agent.go:717`) |
| `PoolReopens` (the pool; suppression ends in any case) | no crash, no failed save | a crash between `SET 0` and its save loses the suppression and the size: under load the pool of a primary stays at 0 |
| `DriftBounded`, `QuietGrowsToCeiling` | PgBouncer not restarted, and it answers at startup | the size is asked for once, in `Start`: after a restart of PgBouncer "SCALING UP" may send a size below the one in force |
| `ImplementsPoolValve` | nothing but failed saves; otherwise the valve is astray | the above |
| `FailoverHalts`, `ReturnReopens` | the sources answer again and the role stays; PgBouncer obeyed and nothing was restarted | the above; that the engine leaves suppression on a primary needs only the first two |
| `NoFlapping` | once more in a process that is not the first | its first snapshot may arrive between the two reads of its first tick (`engine.go:181`, `182`): halted by the state file, it restores the pool before it knows any role |
| `RemembersOnDisk` | no failed save | saving is best effort |
| `ResizesAfterRun` | no command refused or lost | a refused restore goes on to the load evaluation with counters from before the failover |
| `NoPanic` | one Start so far | the pipeline of a PgBouncer that died is not stopped; its poller ends up on the channels of the next one and closes them a second time |
| `StopReturns` | no drop is counted while Stop waits; the sink takes what it is given, and PgBouncer answers every query | Stop holds the mutex the goroutines need to count it (`pool.go:243`, `270`, `287`); the poller's query has no timeout (`320`), and Stop waits for the poller |
| `OnlyRacesDiverge` | no two reconciles at once, no failed save | each is persisted after the mutex is released, in any order (`reconcile.go:24`) |
| `OnlyLateResultsForgotten`, `ResultsReachCenter` | not recorded while a heartbeat is sent | the list is set to nil after the send (`agent.go:366`) |
| `ResultsReachCenter`, `ReachesTarget` | the local checks let go of the agent's mutex again and again | they hold it over calls without a timeout, as for `CommandsEnd` below; a heartbeat, a handler and a run wait for it (`agent.go:334`, `365`; `migration.go:41`, `51`) |
| `ResultsReachCenter`; `ReachesTarget` | Send returns; the work of a phase ends | neither has a deadline |
| `FileFollowsConfig`, `InSyncIsTrue` | the last write succeeded, and none is under way | the file is written in place, its errors are only logged, and the next reconcile compares with memory (`backup.go:97`, `reconcile.go:226`) |
| `UpdatesMerge`, `InSyncIsTrue` | no other update between the copy and the update | the whole struct is copied and stored (`reconcile.go:226`, `backup.go:53`): what the other update changed is lost |
| `CommandsEnd` | the API of Patroni does not hang for ever; the database, pgbackrest and zfs answer | the HTTP client has no timeout (`patroni.go:216`), and `performLocalChecks` asks with the agent's mutex held, which every command needs to record its result; the queries of a promotion and the rest of those checks have no timeout either |
| `SignalEndsAgent` | no stream is kept open | `GracefulStop` waits for every client, and the context is cancelled only after it (`server.go:60`) |
| `PoolIsServed` | `Run` goes on; what the local checks ask answers, and the binary can be run in the end; no orphan has the port | nothing restarts a PgBouncer after Run; the checks come to it only after Patroni's answer (`agent.go:700`, `712`); a PgBouncer of the agent has no port while an orphan lives |
| `StopsWhatItRegistered` | `Run` registered the Stop, and returned from it | main starts the pool first; Run's own Start is then refused and registers none (`agent.go:646`); if a Start besides Run's own came off, Stop panics before it signals (`pool.go:255`, `191`) and leaves PgBouncer behind |
| `EarlierPhasesDone` | the run is not about to end in a failure | a CDC that failed shows the phase CUTOVER until its error is looked at (`migration.go:83`, `101`) |
| `PausesAtTarget` | no older command moved a target back | each command has its own goroutine and writes the target it carries |
| `ReachesTarget`, `NoLostWakeUp` | no new target came while the run was ending | `IsRunning` is still true then, and nobody starts another run (`reconcile.go:141`) |

Where a single sentence of the documentation states the promise, a `violation` run
checks that sentence and TLC refutes it:

| run | what happens | promise |
|---|---|---|
| `StopDeadlock` (`StopAlwaysReturns`) | Stop waits, with the mutex, for goroutines that need it to count a drop | Stop drains and returns |
| `RestartLost` (`RestartBringsBack`) | the reaper hears that the process ended, Stop does not, times out with an error, and the restart command does not start Patroni again | "Patroni will be restarted by the run loop if it was bootstrapped" |

`PROJECT.json` quotes the lines. Other disagreements between comments and code that
need no exploration, or that a condition above already shows, and so have no run: a
refused `SET 0` is never sent again, against "instant pool_size=0"; a tick that reads
no role and then a first snapshot restores the pool on a replica, against "Role is
"primary"" (`engine.go:201`), which is why `NoFlapping` allows one switch more after
a restart; a result that is recorded while a heartbeat is sent is cleared unsent
(`agent.go:366`), against "to be sent in the next heartbeat" (`514`);
the collector passes on the role Patroni answers, one of "master, replica,
standby_leader" by its comment (`signals.go:28`), and the promotions of the same agent
know "master" (`ha.go:53`), but the engine halts for every role other than
"primary" (`engine.go:195`), so that with a Patroni that answers "master" the pool
of the master stays at 0; a new target that arrives while a run is pausing starts nothing; signal 0 succeeds on a process that has
exited and nobody waited for (`pool.go:156-159`); the result of a promotion says
success whatever happened (`agent.go:484`), and so does that of a reconcile with a
failed section (`reconcile.go:188`); a poll that fails writes no snapshot
(`collector.go:45-46`); a migration command with the documented spelling of
a phase does nothing (`agent.proto:81`, `migration.go:95`).

## 4. Bounds, and why they are enough

- **Engine.** The server takes 5 connections (4 after one change in `MCHistory`),
  floor and step are 2, the ini file says 5, the default is 3: there are sizes at
  the floor, between, at the limit, and an uneven remainder on both ends.
  `DownTicks = 2` and `UpTicks = 3` keep the two apart. `WindowSize` is 1: a single
  push then changes role, zone and ceiling, so every sequence of zones a larger
  window could produce occurs. Counters saturate where the code stops comparing
  them. `MaxFaults` is 2, of all six kinds: every broken promise above needs one
  fault, or a fault and a crash. The proofs have none of these bounds.
- **PoolManager.** Two Starts make two pipelines, which is what the fields can mix
  up; a buffer of 1 with 3 samples fills and drops.
- **CommandPlane.** Two reconciles; up to two broken streams, which give two
  heartbeat goroutines at once; one crash. The last stream opened stays up, so
  that liveness is not a matter of the bound.
- **Collector.** A channel of 1 (every second poll meets a full one) and a window
  of 2 (order, wrapping, and what falls out of it). The proofs have no bound.
- **SignalPath.** A channel and a window of 1: with the poll loop and the drain
  goroutine a role can then be in four places on its way, and a full channel drops
  one. One load, between the thresholds, so that the pool is only halted and
  restored; refused and lost commands are in `Engine`'s runs. Snapshots are not numbered
  (`Modulus = 1`). `MaxFaults` and `MaxChanges` are 1: a role that arrives late after
  one change already switches the pool back and once more. The proofs have no bound.
- **Patroni.** One restart and one reconcile: two Bootstraps and a Stop can meet, with
  the reapers of three processes. `MaxStarts` is 3, more than the commands can start
  (`MCPatroni` asserts it), so it never disables a Bootstrap. `Promotes` is empty to
  keep the liveness check short: a reconcile takes every step that a promote
  command does. `RestartLost` needs one restart and no fault.
- **Manifest.** Two handlers (one overtakes the other), two fields (a copy can
  mix), two settings (changed or not). The handlers take commands for ever.
- **Migration.** Three commands: one creates, two retarget, or start another task.
  Center moves targets forward only; goroutines may overtake each other. A migration
  command may name any phase to start with, and phases before it were then never worked
  on; `MCMigration` lets it start with the first one, which is what
  `EarlierPhasesDone` is about. One of them may be such a command (`MaxDirect`): two
  already start two runs of one migration, and reconciles start more. The targets are
  the first phase and CDC, so that there are pauses at both ends, and the phase that
  may fail is CDC, the one that a failure takes two steps. Commands are sent in a fixed
  order, which for names that are alike loses nothing; no symmetry, since the run
  checks liveness.
- **Lifecycle.** No constants; `pipelines` stops at 2, since no step tells two from
  more.

`CHECK_DEADLOCK FALSE` is set where the system may stop: the pool after Stop, the
collector after Shutdown, a migration with no command left, a bounded number
of commands and streams. The engine, the signal path (a process that is told to stop
is followed by the next), Patroni's check loop, the
handlers of `Manifest` and the life cycle never stop, and their runs check deadlock.

## 5. Fairness

- **Engine**: weak fairness of its own steps together. Commands have a 3 s
  timeout, the ticker fires, the service manager starts the agent again. Nothing
  is assumed of the collector; liveness is conditional on what the newest
  snapshot says.
- **PoolManager**: Start and Stop run to their end and goroutines get to run.
  `SF` on the branch of a poller that sees the closed done channel: Go's `select`
  chooses at random among the ready cases, so it does not choose the ticker for ever.
  The specification leaves the shippers without fairness, which is what a slow
  disk is, and the answers to the poller's queries, which have no timeout;
  `StopReturns` has both (`ShippersRun`, `QueriesReturn`) as hypotheses.
- **CommandPlane**: goroutines, the heartbeat ticker and main's endless reconnect
  loop; `SF` for the steps that wait for the agent's mutex, which changes hands for ever.
  Nothing makes Center send, a Send return (`SendsReturn`), or the local checks let go
  of the mutex (`[]<>~checking`): the last two are hypotheses of `ResultsReachCenter`.
- **Collector**: goroutines, the ticker, the timeouts of both fetches; `SF` on
  the loop's exit for the same `select` reason.
- **SignalPath**: each of poll loop, ticker, drain goroutine and engine gets to run;
  they are separate goroutines. Nothing makes sources answer or roles settle: both are
  hypotheses of the properties.
- **Migration**: goroutines get to run, with `SF` as in `CommandPlane`. Nothing makes
  Center ask. That the work of a phase ends (`PhasesEnd`), and that the local checks let
  go of the mutex again and again, are hypotheses of `ReachesTarget`.
- **Patroni**: goroutines get to run and the 30 s timer of Stop fires; `SF` where a
  mutex changes hands for ever (`a.mu`, between the check and the others) or an
  API that hangs again and again answers in between. A process that was told
  to stop stops. That a hung API recovers (`[]<>~hung`), and that the database and the
  rest of the node answer (`NodeAnswers`), are hypotheses of `CommandsEnd`, not
  assumptions.
- **Lifecycle**: the goroutines of main and of the signals get to run, the ticker
  ticks, the reaper notices. Nothing is assumed of clients, signals, crashes, a service
  manager that would launch the agent again, or of a Stop. That what the local checks
  ask answers (`ChecksReturn`), and that a PgBouncer started again and again comes up
  in the end (`BinaryRuns`), are hypotheses of `PoolIsServed`.
- **Manifest** has safety properties only.

## 6. What is proved

| module | theorem | statement |
|---|---|---|
| `CollectorProofs` | `RingCorrect` | `RingTypeOK`, `IndexInv`, `NewestAgrees` for every size |
| | `RingRefinesRecentWindow` | the circular buffer implements `RecentWindow`, for every size |
| | `CollectorTypeCorrect`, `NeverSendsOnClosed` | types, channels within their capacity; nothing is sent on a closed channel |
| | `CollectorKeepsNewest`, `CollectorKeepsWindow` | `NewestAgrees`, and the refinement of `RecentWindow`, with the drain goroutine doing the pushing |
| | `SnapshotsInOrder` | `InOrder`, for every channel and window: consecutive, and handed over to the last one |
| `EngineProofs` | `EngineTypeCorrect` | types |
| | `FileAlwaysReadable`, `StateSurvivesRestarts` | `FileNeverTorn`; `RemembersOnDisk` |
| | `PoolSizeAlwaysSafe` | `PoolSizeSafe`, for every floor, step, limit, window and any number of any faults |
| | `DriftAlwaysBounded` | `DriftBounded` |
| | `HaltAlwaysHolds` | `HaltHolds`, at every moment of a tick and whichever saves fail |
| | `ResizesAreConfirmed` | `ResizesAfterRun`, for any number of ticks required |
| | `EngineImplementsPoolValve` | every behaviour of the engine is one of `PoolValve`, which goes astray only at a fault other than a failed save |
| `PathProofs` | `AgentImplementsEngine` | `ImplementsEngine`: for every channel, window, sizing and set of faults the collector, as the engine meets it, is the environment `Engine` assumes |
| | `PoolNeverFlaps` | `NoFlapping`, for any number of changes of the role |
| | `AgentKeepsPromises` | `PoolSizeSafe`, `FileNeverTorn`, `RemembersOnDisk`, `HaltHolds`, `DriftBounded` of the engine that the collector feeds |
| | `AgentImplementsPoolValve` | every behaviour of that agent is one of `PoolValve` |
| `PoolProofs` | `PoolTypeCorrect`, `OnePgBouncer` | types; `SinglePgBouncer`, for any number of Starts, crashes and late reapers |
| | `PanicTakesTwoStarts` | `NoPanic` |
| | `StopReachesEveryone` | whom a waiting Stop waits for has been told, or will find a closed channel: the safety half of `StopReturns` |
| | `StopDrains`, `SamplesAccounted` | `Drained`; `Accounted`, for any number of Starts, samples and places in the channel |
| `PlaneProofs` | `PlaneTypeCorrect`, `ResultsKept`, `OnlyRacesMatter` | types; `OnlyLateResultsForgotten`; `OnlyRacesDiverge`: for any number of commands, streams and crashes |
| | `ResultsWaitForCenter` | a result leaves the list only by being sent, late or lost with the agent, and an open stream has a heartbeat: the safety half of `ResultsReachCenter` |
| `MigrationProofs` | `MigrationTyped`, `OneRunHolds` | types; `OneRunPerTask`, for any number of commands, targets and failing phases |
| | `PhasesInOrder` | `EarlierPhasesDone`, assuming that no migration command names a later phase than the first |
| | `PausesHold` | `PausesAtTarget` |
| | `NoWakeUpLost` | `NoLostWakeUp`, the safety half of `ReachesTarget` |
| `PatroniProofs` | `PatroniTypeCorrect`, `NeverTwoPatronis` | types; `Supervised`, for any number of commands of each kind, processes and faults |
| | `EndIsNoticed` | every end of a process held has somebody to notice it, and no Stop waits for what another has heard: the safety half of `GoneIsNoticed` and `CommandsEnd` |
| `AgentProofs` | `ManifestTypeCorrect`, `FileNeverStale` | types; `FileFollowsConfig` |
| | `UpdatesOnlyMerge`, `InSyncTold` | `UpdatesMerge`, `InSyncIsTrue`: for any number of handlers, fields and settings |
| | `LifecycleInOrder`, `RunLeavesNoPgBouncer` | `LifecycleTypeOK`; `StopsWhatItRegistered` |

The arguments:

- *Window.* A slot is computed by `(head + i) mod size`. `IndexInv` ties `head`
  to `count` until the buffer is full. For the refinement, the slot of the i-th
  oldest snapshot before a push is that of the (i-1)-th after it, and the slot
  just written is the last (`PushAppends`).
- *Pool size.* `PoolSizeSafe` alone is not inductive: the next size is computed
  from memory, memory comes from the disk, and the ceiling from a snapshot read
  some steps before. `EngineInv` says all of them are sized, that the temporary
  file about to be renamed is the state in memory, and that the ceiling of a tick
  in `evaluate`, or on its way there through a save, came from a snapshot.
- *Drift.* A lost answer leaves memory one step behind; the following commands
  are computed from memory, so the distance does not add up; floor and limit only
  shorten it. The halves of each command that reach memory and PgBouncer are
  treated separately.
- *Halt and valve.* The record of faults only grows (`FaultsOnlyGrow`), so a
  condition on it that holds after a step held before it, and the step was not one
  of the faults it excludes (`NotRecordedNotCaused`). `ObedientInv`: load is evaluated only after a restore that
  succeeded, and a state file is read only by a first process. Then memory tracks
  PgBouncer exactly (`Tracked`), and each command is a step of the valve
  (`FaithfulStepMaps`); any other step leads astray, to a size `EngineInv` bounds.
  That a tick to halt ends suppressed needs `HaltingInv`: the load is evaluated only,
  also after the save of a restore, for a role that is not one to halt for.
- *Disk.* `RemembersOnDisk` is inductive beside `EngineInv`, which says that what is
  renamed is the state in memory: every change of the suppression or of the size to
  restore goes on to a save, so that the pc leaves `Quiet`, and comes back only
  when the save is done or recorded as failed.
- *Confirmed resizes.* `CountsBacked`: the counters never exceed the runs of
  evaluations they stand for, except in the one state in which a halt has ended the
  runs and is about to reset the counters. It needs that a suppressed engine
  has no counts and does not evaluate, and `ServerAssumption`: a snapshot
  that gave no limit would end the run and keep the counters.
- *Collector.* `ClosedInv`: a channel that is closed means the poll loop is gone,
  because Shutdown waits for it. The window's part is `RingInv`, the invariant of the
  buffer, which only `PushToWindow` disturbs, and it is one `RingPush`.
- *Order.* `OrderInv` reads window, hands and channel as one numbered sequence. A
  send appends the next number (`AppendNumbered`), receiving and pushing move the
  borders, and a full window loses the head (`TailNumbered`); a snapshot
  that finds the channel full never gets a number. `DrainedInv`: the drain
  goroutine ends on a closed, empty channel with empty hands, and `ClosedInv` says
  that the poll loop is gone by then.
- *Collector and engine.* A step of the process is a step of the collector or leaves it
  as it is (`CollectorPart`), so that `CollectorInv` holds in the agent too; then
  pushing what the drainer holds is a push of a snapshot on the window (`PushMaps`,
  `DrainFeedsEngine`), and every other step is one of the engine, or one that the
  engine does not see (`StepMaps`). By `AgentImplementsEngine` each theorem of
  `EngineProofs` is one about the agent: `PathProofs` instantiates that module with the
  collector's window for the engine's (`EP`), shows its assumptions from
  `PathAssumption` (`EngineAssumptions`) and that the definitions of both instances
  agree, and carries the theorems over (`SameEngine`, `SamePromises`).
- *No flapping.* `SwitchInv` gives each role on its way an age: the number of changes
  there had been when Patroni answered it. There are ages (for the roles in the
  channel, in the poll loop, in the drainer's hands, in the window and in the tick, and
  for the last one acted on) that never decrease from the engine back to the node, and
  roles of one age are alike. The engine switches only if its tick's role is unlike
  the one it acted on, so that its age grows with every switch; and no age exceeds
  the changes there were. The one exception is `Unacted`: a process that has seen no
  role may restore the pool once, if it is not the first. `RecordsInv` adds that a
  first process finds no state file.
- *Draining and accounts.* `PipelineInv` says which goroutines a Start leaves,
  `ClosingInv` that nothing is closed before Stop and that a shipper exits only from a
  closed, empty channel; Stop waits for both goroutines. `Accounted` counts sets of
  places (offered, waiting, in hands) instead of adding up a sum over the Starts, so
  that each step adds a place or takes one away and no induction is needed.
  `StopIsHeard` follows: with no panic at most one poller exited, every Start had one,
  so that there was one Start, and its channel is the one that was closed.
- *One PgBouncer.* `SinglePgBouncer` needs that the process alive is the one held, or
  the one just spawned (`HeldInv`), that a reaper that has come to clear the handle
  has reaped that process, and that processes are started in order (`SpawnInv`).
- *Results.* `SendersInv`: between read and clear, everything on the list is in the
  batch, sent, or late; after the send, it is sent or late. Clearing then forgets
  nothing else, whichever of several heartbeat goroutines does it. `ReportsInv`: streams
  are numbered, so that only the heartbeat of an earlier one can find its own gone.
- *Desired state.* `OneByOneInv`: as long as reconciles do not overlap, the one in
  flight is newer than all others, the disk has the newest of those, and memory is
  ahead of the disk exactly while the disk is written. It needs that commands are
  received in order (`InOrderInv`).
- *One Patroni.* `Supervised` needs that a reaper past its wait, and a waiter past
  its own, know of a process that was reaped (`ReapedInv`), so that the handle they
  forget is that of no living process; that later processes do not exist yet
  (`FreshInv`); and that one Stop at a time has a process in its hands (`StopInv`).
- *Ends of Patroni.* The context watcher reports once, and two goroutines want to hear
  it. `NoticeInv`: for the process that is held, the report is there unless the reaper
  has it, or a Stop is under way, which drops the handle itself; and a Stop
  under way has its goroutine, which goes on, has answered, or is what the
  timer is for. It also says that a Stop never comes back to a process it has given up.
- *Backup file.* `FileFollowsConfig` is inductive with the types: whoever changes the
  configuration or truncates the file is then about to write it, and nobody else can
  write in between. For the two action
  properties, `CopyInv` says that the copy of a handler that nobody has overtaken is
  the configuration in the fields it has.
- *One run.* `MigrationInv` adds to `OneRunPerTask` that tasks that are
  registered, found or run were created by a command that has done so, so that a
  new task has no run yet, and that a run at work has a phase that is not final.
- *Phases and pauses.* `EarlierPhasesDone` is inductive beside `MigrationInv`: only
  a new task, at its first phase, `Succeed`, which does the phase it leaves, and the
  two steps of a failure can disturb it; between those two the task is exempt, and one
  run at a time works on it, so that it comes out as failed. `PausesAtTarget` needs `UpToTarget`: as long as no target was moved
  back, a task's target is the furthest one it was given, and its phase has not
  passed that. `Check` then lets only earlier phases through, and nobody else moves
  the phase before the work ends (`OneRunPerTask`).
- *No wake-up lost.* `NoLostWakeUp`: whoever pursues a task keeps doing so until its own
  step hands it on. The command that sets a target goes on to wake the task; it finds a
  run, starts one, or finds the window in which a run has looked at the target for the
  last time and is still registered, which is what `missed` records. A run leaves only
  at its target or with a final phase; one that is failing goes on to the latter.
- *Life cycle.* `LifecycleTypeOK` is inductive: it already says who may be where when.
  With the Stop registered, Run comes to its end only through a Stop that had one
  pipeline to wait for and told PgBouncer to end, and no step starts a PgBouncer, or
  counts a pipeline, once Run is over. A Stop that panics takes the process with it:
  in that state nothing is claimed of what is left.

Assumptions about the constants are named where they are declared:
`SizingAssumption` (the floor is positive, a step is at least the floor, the
default and ini sizes lie between floor and limit), `ServerAssumption` (a snapshot reports a
`max_connections` of at least the floor), `TicksAssumption`,
`WindowSizeAssumption`, `FilesAssumption`, `MigrationAssumption`,
`CommandsAssumption`, `PoolAssumption`, `CollectorAssumption`, `PatroniAssumption`,
`ManifestAssumption`, `PathAssumption` (those of `Engine`, for the agent),
`ChangesAssumption`. TLC evaluates each.

## 7. What is only model-checked

The liveness properties: fairness and `ENABLED` are out of the provers' reach. Every
invariant and every action property of a passing run is a theorem, and so is the
refinement each run checks. Of the liveness properties five have their safety half
proved for every value of the constants: `ReachesTarget` (`NoWakeUpLost`),
`GoneIsNoticed` and `CommandsEnd` (`EndIsNoticed`), `StopReturns`
(`StopReachesEveryone`) and `ResultsReachCenter` (`ResultsWaitForCenter`) say that there
is, at every moment, somebody with a step left that leads on; that this step is taken
is fairness, and TLC's. For `CommandsEnd` this is the part about Stop only: the
order in which the two mutexes and the requests without a timeout are waited for stays
with TLC, as do all of `ShutdownDrains`, `PoolReopens`, `QuietGrowsToCeiling`,
`FailoverHalts`, `ReturnReopens`, `SignalEndsAgent` and `PoolIsServed`.

## 8. Not modelled, and why

- **Backup, restore, DR drill, branching and index validation commands**: refused for
  every command, because `NewAgent` sets the license tier to Free and nothing changes
  it (`agent.go:91`). Listing ZFS datasets only reads.
- **Telemetry, the status map of the local checks**: fire-and-forget sends, and a map
  only the heartbeat reads. What the checks do to the rest is in `Patroni` (their
  request under the mutex), `CommandPlane` and `Migration` (the mutex), `Lifecycle`,
  `Engine` and `PoolManager` (the restart of PgBouncer).
- **AI load guard, compliance**: stateless queries; the guard's verdict is a
  nondeterministic choice in `CommandPlane`, `Patroni` and `Manifest`.
- **The checks of a promotion**: lag and recovery are one nondeterministic answer, so
  that a promotion on an outdated answer is in the model, but no property is about it.
- **Configuration, generated ini files and API code**: read once, or generated. The
  gRPC server appears in `Lifecycle` with its streams and its graceful stop.
- **`P95ActiveConns`, `AvgCPULoad`, `Len` of the window, `Reload` of the pool**: no
  caller in the agent.
- **Loss of power** (the state file is renamed without a sync), **a Patroni that
  outlives a killed agent** (a second one would be started on the same data
  directory, and what it does then is Patroni's), **how long** a mutex is held, and
  **delivery by gRPC** after a successful Send.

## 9. Plan

Done: `RecentWindow`, `Window`; `Engine` with `PoolValve`; `PoolManager`;
`CommandPlane`; `Collector` on `Window`; `SignalPath`, which composes collector and
engine; `Migration`; `Patroni`; `Manifest`; `Lifecycle`, each with its runs and its
proofs.

Next, in order of importance:

1. A property of promotions: what the check-then-act of `CheckPromotionSafety` and
   `Promote` still guarantees against a role that changes in between.
2. `PoolManager` in the signal path: the process behind `PgBouncerRestarts`.
