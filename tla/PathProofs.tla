----------------------------- MODULE PathProofs -----------------------------
(***************************************************************************)
(* Proofs about the signal path, for any channel, window, sizes and number *)
(* of faults: the collector, as the engine meets it through the circular   *)
(* buffer, is the environment Engine.tla assumes; and the engine switches  *)
(* the pool at most once per change of the node's role.                    *)
(***************************************************************************)
EXTENDS PathHistory, CollectorProofs

(* A new process finds its part of the collector as CollectorInit has it. *)
LEMMA StartKeepsCollector ==
    ASSUME CollectorInv, ProcessStarts, UNCHANGED <<up, role>>
    PROVE  CollectorInv' /\ Retained' = <<>>
<1>1. RingInit' /\ RingInv'
  <2>1. RingInit'
    BY DEF ProcessStarts, RingInit
  <2>2. (RingInit => RingInv)'
    BY RingInvInit, PTL
  <2> QED BY <2>1, <2>2
<1>2. LoopTypeOK' /\ ClosedInv'
  <2>1. up \subseteq Sources /\ role \in NodeRoles
    BY DEF CollectorInv, CollectorTypeOK
  <2>2. poller' \in [pc : {"wait", "push", "gone"} \cup Sources, role : NodeRoles]
    BY <2>1 DEF ProcessStarts, Sources
  <2>3. accepted' \in 0 .. Modulus - 1 /\ Errors' \in 0 .. ChannelSize
    BY CollectorAssumption DEF ProcessStarts
  <2> QED BY <2>1, <2>2, <2>3 DEF ProcessStarts, LoopTypeOK, ClosedInv
<1>3. ChannelTypeOK'
  BY CollectorAssumption DEF ProcessStarts, ChannelTypeOK
<1>4. CollectorTypeOK'
  BY <1>1, <1>2, <1>3 DEF CollectorTypeOK, LoopTypeOK, ChannelTypeOK, RingInv
<1>5. Retained' = <<>>
  BY <1>1 DEF RingInit, Retained, RingLen
<1> QED BY <1>1, <1>2, <1>4, <1>5 DEF CollectorInv

(* To the collector a running agent looks like CollectorNext. *)
LEMMA CollectorPart == AgentRuns => [CollectorNext]_collectorVars
BY DEF AgentRuns, Poll, Ticks, Drain, CollectorRuns, StopIsTold, EngineStopsFirst, EngineRuns,
       PgBouncerRestarts, CollectorNext

LEMMA PathInvInit == PathInit => CollectorInv
BY CollectorInvInit DEF PathInit

LEMMA PathInvStep == CollectorInv /\ [PathNext]_pathVars => CollectorInv'
<1> SUFFICES ASSUME CollectorInv, [PathNext]_pathVars PROVE CollectorInv'
  OBVIOUS
<1>1. CASE AgentRuns \/ UNCHANGED pathVars
  <2>1. [CollectorNext]_collectorVars
    BY <1>1, CollectorPart DEF pathVars
  <2> QED BY <2>1, CollectorInvStep
<1>2. CASE AgentDies
  BY <1>2, StartKeepsCollector DEF AgentDies
<1> QED BY <1>1, <1>2 DEF PathNext

LEMMA PathInvHolds == PathSpec => []CollectorInv
BY PathInvInit, PathInvStep, PTL DEF PathSpec

---------------------------------------------------------------------------
(* The engine's environment. *)

(* A push into the ring is a push into the window the engine reads. *)
LEMMA DrainFeedsEngine ==
    ASSUME CollectorInv, PushToWindow, UNCHANGED engineState
    PROVE  E!DrainPush
<1>1. Head(drainer.held) \in Snapshots /\ RingPush(Head(drainer.held)) /\ RingInv
  <2>1. drainer.held \in Seq(Snapshots) /\ Len(drainer.held) = 1
    BY InFlightSequence DEF PushToWindow, CollectorInv, CollectorTypeOK
  <2> QED BY <2>1 DEF PushToWindow, CollectorInv
<1>2. E!Push(Head(drainer.held))
  BY <1>1, PushMaps DEF RW!Push, E!Push
<1> QED BY <1>1, <1>2 DEF E!DrainPush, E!WindowNext, engineState, E!counters, E!disk

LEMMA StepMaps ==
    ASSUME CollectorInv, [PathNext]_pathVars
    PROVE  [E!EngineNext]_(E!engineVars)
<1>1. ASSUME UNCHANGED <<ringVars, engineState>> PROVE UNCHANGED E!engineVars
  BY <1>1 DEF ringVars, engineState, E!engineVars, Retained, RingLen, SlotOf
<1>2. CASE Drain
  <2>1. CASE Receive /\ UNCHANGED engineState
    BY <1>1, <2>1 DEF Receive
  <2>2. CASE PushToWindow /\ UNCHANGED engineState
    BY <2>2, DrainFeedsEngine DEF E!EngineNext
  <2> QED BY <1>2, <2>1, <2>2 DEF Drain
<1>3. CASE Poll \/ Ticks \/ CollectorRuns \/ StopIsTold \/ EngineStopsFirst \/ UNCHANGED pathVars
  <2>1. UNCHANGED ringVars
    BY <1>3 DEF Poll, Ticks, CollectorRuns, StopIsTold, EngineStopsFirst, pathVars, collectorVars, drainVars,
       PollStep, FetchPatroni, FetchPgStats, FetchFails, PushSnapshot, DropSnapshot, Tick, SourceChanges,
       RoleChanges, LoopEnds, DrainerEnds, LogError, ErrDrainerEnds, CloseChannels, Cancel, BeginShutdown
  <2>2. UNCHANGED engineState
    BY <1>3 DEF Poll, Ticks, CollectorRuns, StopIsTold, EngineStopsFirst, pathVars
  <2> QED BY <1>1, <2>1, <2>2
<1>4. CASE EngineRuns \/ PgBouncerRestarts
  BY <1>4 DEF EngineRuns, PgBouncerRestarts, E!EngineNext
<1>5. CASE AgentDies
  BY <1>5 DEF AgentDies, E!EngineNext
<1> QED BY <1>2, <1>3, <1>4, <1>5 DEF PathNext, AgentRuns

(* Every behaviour of the agent is one of Engine.tla's: what the collector
   delivers, through a ring that wraps, a channel that may be full and processes
   that die, is the window the engine is modelled, and proved, on. *)
THEOREM AgentImplementsEngine == PathSpec => ImplementsEngine
<1>1. PathInit => E!EngineInit
  BY DEF PathInit
<1>2. CollectorInv /\ [PathNext]_pathVars => [E!EngineNext]_(E!engineVars)
  BY StepMaps
<1> QED BY <1>1, <1>2, PathInvHolds, PTL DEF PathSpec, ImplementsEngine, E!EngineSpec

---------------------------------------------------------------------------
(* Why the pool does not flap.  Each role that is on its way, or has arrived,
   can be given an age: the number of changes there had been in the life of
   the process when Patroni answered it.  From the engine's state back to the
   node, over the tick, the window, the drainer, the channel and the poll loop,
   ages never decrease, and roles of one age are the same.  The engine
   switches only when its tick brings the other class of roles, so one of a
   greater age. *)
Class(r) == IF E!Halting(r) THEN "halting" ELSE "serving"
State    == IF st.suppressed THEN "halting" ELSE "serving"

(* Class d of age b comes after class c of age a. *)
Later(c, a, d, b) == a <= b /\ (a = b => c = d)

Entry(i) == Class(snapshotsCh[i].role)
Polled   == Class(poller.role)
Held     == Class(Head(drainer.held).role)
Newest   == Class(E!Latest.role)

ChannelAged(age, aP) ==
    /\ age \in [1 .. Len(snapshotsCh) -> Nat] /\ aP \in Nat
    /\ \A i, j \in 1 .. Len(snapshotsCh) : i <= j => Later(Entry(i), age[i], Entry(j), age[j])
    /\ \A i \in 1 .. Len(snapshotsCh) : Later(Entry(i), age[i], Polled, aP)
    /\ Later(Polled, aP, Class(role), changes)

BeforeChannel(c, a, age, aP) ==
    /\ a \in Nat
    /\ \A i \in 1 .. Len(snapshotsCh) : Later(c, a, Entry(i), age[i])
    /\ Later(c, a, Polled, aP)

HeldAged(aH, age, aP) ==
    drainer.pc = "push" => BeforeChannel(Held, aH, age, aP)

NewestAged(aW, aH, age, aP) ==
    E!HasLatest => /\ BeforeChannel(Newest, aW, age, aP)
                   /\ drainer.pc = "push" => Later(Newest, aW, Held, aH)

(* The engine has not acted on a role; it may have restored the pool in the
   tick that found no role and then a snapshot. *)
Restarted == "crash" \in faults.kinds
Unacted ==
    \/ switches = 0 /\ (~Restarted => State = "serving")
    \/ switches = 1 /\ Restarted /\ State = "serving"

(* It has: the last role it acted on had age aS. *)
Deciding == {"latest", "average", "decide"}
Acted(aS, aT, aW) ==
    /\ E!HasLatest /\ switches \in Nat
    /\ switches <= aS + (IF Restarted THEN 2 ELSE 1)
    /\ Later(State, aS, Newest, aW)
    /\ pc \in Deciding => Later(State, aS, Class(tick.role), aT)

EngineAged(aS, aT, aW) ==
    /\ aS \in Nat /\ aT \in Nat
    /\ pc \in Deciding => \/ E!HasLatest /\ Later(Class(tick.role), aT, Newest, aW)
                          \/ Class(tick.role) = "serving" /\ Unacted
    /\ Unacted \/ Acted(aS, aT, aW)

Aged(age, aP, aH, aW, aT, aS) ==
    /\ ChannelAged(age, aP) /\ HeldAged(aH, age, aP) /\ NewestAged(aW, aH, age, aP)
    /\ EngineAged(aS, aT, aW)

SwitchInv ==
    /\ changes \in Nat
    /\ \E age \in [1 .. Len(snapshotsCh) -> Nat], aP, aH, aW, aT, aS \in Nat :
          Aged(age, aP, aH, aW, aT, aS)

(* The engine's records, and what it is before it boots. *)
StateShaped(s) ==
    /\ s = [lastRole |-> s.lastRole, lastSize |-> s.lastSize, suppressed |-> s.suppressed, size |-> s.size]
    /\ s.suppressed \in BOOLEAN
TickShaped(t) ==
    /\ t = [role |-> t.role, max |-> t.max, zone |-> t.zone, resume |-> t.resume]
    /\ t.resume \in {"idle", "evaluate"}
RecordsInv ==
    /\ StateShaped(st) /\ (file # NoFile => StateShaped(file)) /\ (pc = "rename" => tmp = st)
    /\ TickShaped(tick)
    /\ pc = "down" => switches = 0 /\ State = "serving" /\ (~Restarted => file = NoFile)

LEMMA LaterTransitive ==
    ASSUME NEW a \in Nat, NEW b \in Nat, NEW c \in Nat, NEW x, NEW y, NEW z,
           Later(x, a, y, b), Later(y, b, z, c)
    PROVE  Later(x, a, z, c)
BY DEF Later

LEMMA LaterReflexive == ASSUME NEW a \in Nat, NEW x PROVE Later(x, a, x, a)
BY DEF Later

---------------------------------------------------------------------------
(* What the engine's steps do to its state and to the role in its tick. *)

LEMMA FaultsKept == E!EngineStep \/ E!PoolRestart => (Restarted' <=> Restarted)
<1>1. ASSUME NEW kind, kind # "crash", E!Fault(kind) PROVE Restarted' <=> Restarted
  BY <1>1 DEF E!Fault, Restarted
<1>2. ASSUME NEW size, NEW reply, E!SetPoolSize(size, reply) PROVE Restarted' <=> Restarted
  BY <1>1, <1>2 DEF E!SetPoolSize, Restarted
<1>3. CASE E!PoolRestart
  BY <1>1, <1>3 DEF E!PoolRestart
<1>4. CASE E!Halt \/ E!Restore \/ E!Shrink \/ E!Grow
  BY <1>2, <1>4 DEF E!Halt, E!Restore, E!Shrink, E!Grow, E!Resize
<1>5. CASE E!Boot \/ E!SaveFails
  BY <1>1, <1>5 DEF E!Boot, E!SaveFails, Restarted
<1>6. CASE \/ E!ReadRole \/ E!SkipTick \/ E!ReadLatest \/ E!ReadAverage \/ E!StayHalted \/ E!Count
           \/ E!CreateTemp \/ E!WriteTemp \/ E!RenameTemp
  BY <1>6 DEF E!ReadRole, E!SkipTick, E!ReadLatest, E!ReadAverage, E!StayHalted, E!Count,
     E!CreateTemp, E!WriteTemp, E!RenameTemp, Restarted
<1> QED BY <1>3, <1>4, <1>5, <1>6 DEF E!EngineStep, E!Save

(* A resize leaves the suppression alone. *)
LEMMA ResizeKeepsState ==
    ASSUME NEW size, NEW reply, E!Resize(size, reply), StateShaped(st)
    PROVE  StateShaped(st') /\ st'.suppressed = st.suppressed
BY DEF E!Resize, StateShaped

(* The steps that neither read the role nor switch. *)
Kept ==
    /\ StateShaped(st') /\ st'.suppressed = st.suppressed
    /\ pc # "down" /\ pc' # "down"
    /\ pc' \in Deciding => pc \in Deciding /\ tick'.role = tick.role
Read ==
    /\ UNCHANGED st /\ pc = "idle" /\ pc' = "latest" /\ tick'.role = E!CurrentRole
Switched ==
    /\ pc = "decide" /\ pc' = "save" /\ StateShaped(st') /\ st'.suppressed # st.suppressed
    /\ State' = Class(tick.role)

LEMMA EngineEffect ==
    ASSUME RecordsInv, E!EngineStep
    PROVE  E!Boot \/ Read \/ Kept \/ Switched
<1> USE DEF RecordsInv
<1>1. CASE E!Boot
  BY <1>1
<1>2. CASE E!ReadRole
  BY <1>2 DEF E!ReadRole, E!NoTick, Read
<1>3. CASE E!SkipTick \/ E!ReadLatest \/ E!ReadAverage \/ E!StayHalted
  <2>1. UNCHANGED st /\ pc # "down" /\ pc' # "down"
        /\ (pc' \in Deciding => pc \in Deciding /\ tick'.role = tick.role)
    BY <1>3 DEF E!SkipTick, E!ReadLatest, E!ReadAverage, E!StayHalted, Deciding, TickShaped
  <2> QED BY <2>1 DEF Kept
<1>4. CASE E!Halt
  <2>1. pc = "decide" /\ pc' = "save" /\ Class(tick.role) = "halting" /\ ~st.suppressed
        /\ st' = [lastRole |-> tick.role, lastSize |-> st.size, suppressed |-> TRUE, size |-> 0]
    BY <1>4 DEF E!Halt, Class
  <2>2. StateShaped(st') /\ st'.suppressed = TRUE
    BY <2>1 DEF StateShaped
  <2>3. State' = "halting"
    BY <2>2 DEF State
  <2>4. st'.suppressed # st.suppressed
    BY <2>1, <2>2 DEF StateShaped
  <2> QED BY <2>1, <2>2, <2>3, <2>4 DEF Switched
<1>5. CASE E!Restore
  <2>1. pc = "decide" /\ pc' = "save" /\ Class(tick.role) = "serving" /\ st.suppressed
    BY <1>5 DEF E!Restore, Class
  <2>2. CASE UNCHANGED st
    BY <2>1, <2>2 DEF Kept, Deciding
  <2>3. CASE st' = [lastRole |-> "primary", lastSize |-> st.lastSize,
                    suppressed |-> FALSE, size |-> E!RestoreSize]
    <3>1. StateShaped(st') /\ st'.suppressed = FALSE
      BY <2>3 DEF StateShaped
    <3>2. State' = "serving"
      BY <3>1 DEF State
    <3>3. st'.suppressed # st.suppressed
      BY <2>1, <3>1 DEF StateShaped
    <3> QED BY <2>1, <3>1, <3>2, <3>3 DEF Switched
  <2> QED BY <1>5, <2>2, <2>3 DEF E!Restore
<1>6. CASE E!Shrink \/ E!Grow \/ E!Count
  <2>1. pc = "evaluate" /\ pc' = "save"
    BY <1>6 DEF E!Shrink, E!Grow, E!Count, E!Finish
  <2>2. StateShaped(st') /\ st'.suppressed = st.suppressed
    BY <1>6, ResizeKeepsState DEF E!Shrink, E!Grow, E!Count
  <2> QED BY <2>1, <2>2 DEF Kept, Deciding
<1>7. CASE E!Save
  <2>1. UNCHANGED st /\ pc \in {"save", "write", "rename"}
        /\ pc' \in {"write", "rename", "idle", "evaluate"}
    BY <1>7 DEF E!Save, E!CreateTemp, E!WriteTemp, E!RenameTemp, E!SaveFails, E!Resume, TickShaped
  <2> QED BY <2>1 DEF Kept, Deciding
<1> QED BY <1>1, <1>2, <1>3, <1>4, <1>5, <1>6, <1>7 DEF E!EngineStep

LEMMA NoTickShaped == TickShaped(E!NoTick)
BY DEF E!NoTick, TickShaped

(* What the records are made of, and what memory and disk hold. *)
LEMMA RecordsEngineStep ==
    ASSUME RecordsInv, E!EngineStep
    PROVE  /\ file' # NoFile => StateShaped(file')
           /\ pc' = "rename" => tmp' = st'
           /\ TickShaped(tick')
           /\ pc' # "down"
<1> USE DEF RecordsInv, TickShaped
<1>1. CASE E!Boot
  BY <1>1 DEF E!Boot, E!disk
<1>2. CASE E!ReadRole \/ E!SkipTick
  <2>1. tick' = E!NoTick \/ tick' = [E!NoTick EXCEPT !.role = E!CurrentRole]
    BY <1>2 DEF E!ReadRole, E!SkipTick
  <2>2. TickShaped(tick')
    BY <2>1, NoTickShaped
  <2> QED BY <1>2, <2>2 DEF E!ReadRole, E!SkipTick, E!disk
<1>3. CASE E!ReadLatest \/ E!ReadAverage
  BY <1>3 DEF E!ReadLatest, E!ReadAverage, E!disk
<1>4. CASE E!Halt \/ E!StayHalted
  BY <1>4 DEF E!Halt, E!StayHalted, E!disk
<1>5. CASE E!Restore
  BY <1>5 DEF E!Restore, E!disk
<1>6. CASE E!Shrink \/ E!Grow \/ E!Count
  BY <1>6 DEF E!Shrink, E!Grow, E!Count, E!Finish, E!disk
<1>7. CASE E!CreateTemp \/ E!WriteTemp
  BY <1>7 DEF E!CreateTemp, E!WriteTemp
<1>8. CASE E!RenameTemp \/ E!SaveFails
  <2>1. TickShaped(tick') /\ pc' \in {"idle", "evaluate"}
    <3>1. E!Resume
      BY <1>8 DEF E!RenameTemp, E!SaveFails
    <3> QED BY <3>1, NoTickShaped DEF E!Resume, TickShaped
  <2>2. file' # NoFile => StateShaped(file')
    BY <1>8 DEF E!RenameTemp, E!SaveFails, E!disk
  <2> QED BY <2>1, <2>2
<1> QED BY <1>1, <1>2, <1>3, <1>4, <1>5, <1>6, <1>7, <1>8 DEF E!EngineStep, E!Save

(* A process reads a state file only if an earlier one wrote it. *)
LEMMA BootState ==
    ASSUME RecordsInv, E!Boot
    PROVE  StateShaped(st') /\ pc = "down" /\ pc' = "idle" /\ (~Restarted => State' = "serving")
<1> DEFINE loaded == IF file = NoFile THEN E!FreshState ELSE file
<1>1. StateShaped(loaded) /\ (file = NoFile => loaded.suppressed = FALSE)
  BY DEF RecordsInv, StateShaped, E!FreshState
<1>2. st' = [loaded EXCEPT !.size = pool] \/ st' = loaded
  BY DEF E!Boot
<1> HIDE DEF loaded
<1>3. StateShaped(st') /\ st'.suppressed = loaded.suppressed
  BY <1>1, <1>2 DEF StateShaped
<1>4. ~Restarted => file = NoFile
  BY DEF RecordsInv, E!Boot
<1>5. ~Restarted => State' = "serving"
  BY <1>1, <1>3, <1>4 DEF State
<1> QED BY <1>3, <1>5 DEF E!Boot

LEMMA RecordsInit == CountedInit => RecordsInv
<1> SUFFICES ASSUME CountedInit PROVE RecordsInv
  OBVIOUS
<1>1. pc = "down" /\ tick = E!NoTick /\ st = E!FreshState /\ file = NoFile /\ switches = 0
  BY DEF CountedInit, PathInit, E!EngineInit
<1>2. StateShaped(st) /\ State = "serving"
  BY <1>1 DEF E!FreshState, StateShaped, State
<1> QED BY <1>1, <1>2, NoTickShaped DEF RecordsInv

LEMMA RecordsStep ==
    ASSUME RecordsInv, [CountedNext]_countedVars
    PROVE  RecordsInv'
<1>1. CASE UNCHANGED <<engineState, switches>>
  BY <1>1 DEF engineState, RecordsInv, StateShaped, State, Restarted
<1>2. ASSUME CountedRun, EngineRuns PROVE RecordsInv'
  <2>1. E!EngineStep
    BY <1>2 DEF EngineRuns
  <2>2. StateShaped(st')
    <3>1. CASE E!Boot
      BY <3>1, BootState
    <3>2. CASE Read \/ Kept \/ Switched
      BY <3>2 DEF Read, Kept, Switched, RecordsInv
    <3> QED BY <2>1, <3>1, <3>2, EngineEffect
  <2> QED BY <2>1, <2>2, RecordsEngineStep DEF RecordsInv
<1>3. ASSUME CountedRun, PgBouncerRestarts PROVE RecordsInv'
  <2>1. UNCHANGED <<pc, tick, st, file, tmp, switches>>
    BY <1>3 DEF CountedRun, PgBouncerRestarts, E!PoolRestart, E!disk, RecordsInv
  <2>2. Restarted' <=> Restarted
    BY <1>3, FaultsKept DEF PgBouncerRestarts
  <2> QED BY <2>1, <2>2 DEF RecordsInv, StateShaped, State
<1>4. CASE CountedDeath
  <2>1. /\ pc' = "down" /\ tick' = E!NoTick /\ st' = E!FreshState /\ UNCHANGED <<file, tmp>> /\ switches' = 0
        /\ E!Fault("crash")
    BY <1>4 DEF CountedDeath, AgentDies, E!Crash, E!disk
  <2>2. Restarted'
    BY <2>1 DEF E!Fault, Restarted
  <2>3. StateShaped(st') /\ State' = "serving"
    BY <2>1 DEF E!FreshState, StateShaped, State
  <2>4. TickShaped(tick')
    BY <2>1, NoTickShaped
  <2> QED BY <2>1, <2>2, <2>3, <2>4 DEF RecordsInv
<1>5. ASSUME CountedRun, Poll \/ Ticks \/ Drain \/ CollectorRuns \/ StopIsTold \/ EngineStopsFirst
      PROVE  UNCHANGED <<engineState, switches>>
  <2>1. UNCHANGED engineState
    BY <1>5 DEF Poll, Ticks, Drain, CollectorRuns, StopIsTold, EngineStopsFirst
  <2> QED BY <1>5, <2>1 DEF CountedRun, engineState
<1>6. CASE UNCHANGED countedVars
  BY <1>1, <1>6 DEF countedVars, pathVars
<1> QED BY <1>1, <1>2, <1>3, <1>4, <1>5, <1>6 DEF CountedNext, CountedRun, AgentRuns

---------------------------------------------------------------------------
(* The ages, step by step.  First the engine's: its own step, against a window
   and a pipeline that stay as they are. *)
LEMMA EngineStepAges ==
    ASSUME RecordsInv, EngineRuns, CountedRun,
           NEW aS, NEW aT, NEW aW \in Nat, EngineAged(aS, aT, aW)
    PROVE  \E bS, bT \in Nat : EngineAged(bS, bT, aW)'
<1>1. UNCHANGED <<Retained, E!HasLatest, Newest>> /\ E!EngineStep
  <2>1. UNCHANGED <<buf, head, count, full>> /\ E!EngineStep
    BY DEF EngineRuns, collectorVars, drainVars, ringVars
  <2> QED BY <2>1 DEF Retained, RingLen, SlotOf, E!HasLatest, Newest, E!Latest
<1>2. Restarted' <=> Restarted
  BY <1>1, FaultsKept
<1>3. aS \in Nat /\ aT \in Nat
  BY DEF EngineAged
<1>4. CASE E!Boot
  <2>1. pc = "down" /\ pc' = "idle" /\ (~Restarted => State' = "serving") /\ switches = 0 /\ UNCHANGED switches
    BY <1>4, BootState DEF RecordsInv, CountedRun
  <2>2. Unacted'
    BY <1>2, <2>1 DEF Unacted
  <2> QED BY <1>3, <2>1, <2>2 DEF EngineAged, Deciding
<1>5. CASE Read
  <2>1. UNCHANGED <<switches, State>> /\ pc' = "latest" /\ tick'.role = E!CurrentRole
    BY <1>5 DEF Read, CountedRun, State
  <2>2. CASE E!HasLatest
    <3>1. Class(tick'.role) = Newest
      BY <2>1, <2>2 DEF E!CurrentRole, Newest
    <3>2. EngineAged(aS, aW, aW)'
      BY <1>1, <1>2, <1>3, <2>1, <2>2, <3>1 DEF EngineAged, Unacted, Acted, Deciding, Later
    <3> QED BY <1>3, <3>2
  <2>3. CASE ~E!HasLatest
    <3>1. Class(tick'.role) = "serving"
      BY <2>1, <2>3 DEF E!CurrentRole, Class, E!Halting
    <3>2. Unacted'
      BY <1>2, <2>1, <2>3 DEF EngineAged, Acted, Unacted
    <3>3. EngineAged(aS, aT, aW)'
      BY <1>3, <3>1, <3>2 DEF EngineAged
    <3> QED BY <1>3, <3>3
  <2> QED BY <2>2, <2>3
<1>6. CASE Kept
  <2>1. UNCHANGED <<switches, State>> /\ (pc' \in Deciding => pc \in Deciding /\ tick'.role = tick.role)
    BY <1>6 DEF Kept, CountedRun, State
  <2>2. EngineAged(aS, aT, aW)'
    BY <1>1, <1>2, <1>3, <2>1 DEF EngineAged, Unacted, Acted
  <2> QED BY <1>3, <2>2
<1>7. CASE Switched
  <2>1. pc \in Deciding /\ pc' = "save" /\ State' = Class(tick.role) /\ State # State'
        /\ switches' = switches + 1
    <3>1. State # State'
      BY <1>7 DEF Switched, State, RecordsInv, StateShaped
    <3> QED BY <1>7, <3>1 DEF Switched, CountedRun, Deciding
  <2>2. CASE E!HasLatest /\ Later(Class(tick.role), aT, Newest, aW)
    <3>1. CASE Unacted
      <4>1. switches' \in Nat /\ switches' <= aT + (IF Restarted THEN 2 ELSE 1)
        BY <1>3, <2>1, <3>1 DEF Unacted
      <4>2. Acted(aT, aT, aW)'
        BY <1>1, <1>2, <2>1, <2>2, <4>1 DEF Acted, Deciding
      <4> QED BY <1>3, <2>1, <4>2 DEF EngineAged, Deciding
    <3>2. CASE Acted(aS, aT, aW)
      <4>1. aS < aT
        BY <1>3, <2>1, <3>2 DEF Acted, Later
      <4>2. switches' \in Nat /\ switches' <= aT + (IF Restarted THEN 2 ELSE 1)
        BY <1>3, <2>1, <3>2, <4>1 DEF Acted
      <4>3. Acted(aT, aT, aW)'
        BY <1>1, <1>2, <2>1, <2>2, <4>2 DEF Acted, Deciding
      <4> QED BY <1>3, <2>1, <4>3 DEF EngineAged, Deciding
    <3> QED BY <3>1, <3>2 DEF EngineAged
  <2>3. CASE Class(tick.role) = "serving" /\ Unacted
    <3>1. Unacted'
      BY <1>2, <2>1, <2>3 DEF Unacted
    <3> QED BY <1>3, <2>1, <3>1 DEF EngineAged, Deciding
  <2> QED BY <2>1, <2>2, <2>3 DEF EngineAged
<1> QED BY <1>1, <1>4, <1>5, <1>6, <1>7, EngineEffect

(* The window, when nothing is pushed into it and when something is. *)
LEMMA WindowKept ==
    ASSUME UNCHANGED ringVars
    PROVE  UNCHANGED <<Retained, E!HasLatest, E!Latest, Newest>>
BY DEF ringVars, Retained, RingLen, SlotOf, E!HasLatest, Newest, E!Latest

LEMMA PushLatest ==
    ASSUME CollectorInv, PushToWindow
    PROVE  E!HasLatest' /\ E!Latest' = Head(drainer.held)
<1> DEFINE e == Head(drainer.held)
<1>1. e \in Snapshots /\ RingPush(e) /\ Retained \in Seq(Snapshots)
  <2>1. drainer.held \in Seq(Snapshots) /\ Len(drainer.held) = 1 /\ Retained \in Seq(Snapshots)
    BY InFlightSequence DEF PushToWindow, CollectorInv, CollectorTypeOK
  <2> QED BY <2>1 DEF PushToWindow
<1> HIDE DEF e
<1>2. Retained' = IF Len(Retained) < WindowSize THEN Append(Retained, e) ELSE Append(Tail(Retained), e)
  BY <1>1, PushMaps DEF CollectorInv, RW!Push
<1>3. PICK s \in Seq(Snapshots) : Retained' = Append(s, e)
  <2>1. ~(Len(Retained) < WindowSize) => Retained # <<>>
    BY <1>1, SizeAssumption
  <2>2. Retained # <<>> => Tail(Retained) \in Seq(Snapshots)
    BY <1>1
  <2> QED BY <1>1, <1>2, <2>1, <2>2
<1>4. Len(Retained') = Len(s) + 1 /\ Retained'[Len(s) + 1] = e
  BY <1>1, <1>3
<1>5. Retained' # <<>>
  BY <1>4
<1> QED BY <1>4, <1>5 DEF E!HasLatest, E!Latest, e

(* What the pipeline does beside the engine leaves the engine's ages alone. *)
LEMMA EngineAgesKept ==
    ASSUME UNCHANGED <<ringVars, engineState, switches>>,
           NEW aS, NEW aT, NEW aW, EngineAged(aS, aT, aW)
    PROVE  EngineAged(aS, aT, aW)'
BY WindowKept DEF engineState, EngineAged, Unacted, Acted, Deciding, State, Restarted

(* The steps at which no role moves: the node's own role may change. *)
LEMMA NoRoleMoves ==
    ASSUME NEW age, NEW aP \in Nat, NEW aH \in Nat, NEW aW \in Nat, NEW aT, NEW aS,
           Aged(age, aP, aH, aW, aT, aS), changes \in Nat,
           UNCHANGED <<snapshotsCh, ringVars, engineState, switches>>,
           poller'.role = poller.role,
           drainer'.pc = "push" => UNCHANGED drainer,
           changes' = (IF role' # role THEN changes + 1 ELSE changes)
    PROVE  Aged(age, aP, aH, aW, aT, aS)'
<1>1. EngineAged(aS, aT, aW)'
  BY EngineAgesKept DEF Aged
<1>2. ChannelAged(age, aP)'
  BY DEF Aged, ChannelAged, Entry, Polled, Later
<1>3. \A c, a : BeforeChannel(c, a, age, aP) => BeforeChannel(c, a, age, aP)'
  BY DEF BeforeChannel, Entry, Polled, Later
<1>4. HeldAged(aH, age, aP)'
  BY <1>3 DEF Aged, HeldAged, Held
<1>5. NewestAged(aW, aH, age, aP)'
  BY <1>3, WindowKept DEF Aged, NewestAged, Held
<1> QED BY <1>1, <1>2, <1>4, <1>5 DEF Aged

(* Patroni answers: the age of what was polled is the number of changes. *)
LEMMA RolePolled ==
    ASSUME NEW age, NEW aP \in Nat, NEW aH \in Nat, NEW aW \in Nat, NEW aT, NEW aS,
           Aged(age, aP, aH, aW, aT, aS), changes \in Nat,
           FetchPatroni, UNCHANGED <<engineState, switches, changes>>
    PROVE  Aged(age, changes, aH, aW, aT, aS)'
<1>1. /\ UNCHANGED <<snapshotsCh, drainer, ringVars, role>> /\ Polled' = Class(role)
      /\ UNCHANGED <<E!HasLatest, Newest>>
  BY WindowKept DEF FetchPatroni, envVars, channelVars, drainVars, Polled
<1>2. EngineAged(aS, aT, aW)'
  BY <1>1, EngineAgesKept DEF Aged
<1>3. age \in [1 .. Len(snapshotsCh) -> Nat] /\ Later(Polled, aP, Class(role), changes)
  BY DEF Aged, ChannelAged
<1>4. ChannelAged(age, changes)'
  <2>1. ASSUME NEW i \in 1 .. Len(snapshotsCh) PROVE Later(Entry(i), age[i], Class(role), changes)
    <3>1. Later(Entry(i), age[i], Polled, aP) /\ age[i] \in Nat
      BY <1>3 DEF Aged, ChannelAged
    <3> QED BY <1>3, <3>1, LaterTransitive
  <2>2. Later(Class(role), changes, Class(role), changes)
    BY LaterReflexive
  <2> QED BY <1>1, <2>1, <2>2 DEF Aged, ChannelAged, Entry
<1>5. ASSUME NEW c, NEW a, BeforeChannel(c, a, age, aP) PROVE BeforeChannel(c, a, age, changes)'
  <2>1. Later(c, a, Class(role), changes)
    BY <1>3, <1>5, LaterTransitive DEF BeforeChannel
  <2> QED BY <1>1, <1>5, <2>1 DEF BeforeChannel, Entry
<1>6. HeldAged(aH, age, changes)'
  BY <1>1, <1>5 DEF Aged, HeldAged, Held
<1>7. NewestAged(aW, aH, age, changes)'
  BY <1>1, <1>5 DEF Aged, NewestAged, Held
<1> QED BY <1>2, <1>4, <1>6, <1>7 DEF Aged

(* The poll loop's role joins the channel, with its age. *)
LEMMA RoleQueued ==
    ASSUME CollectorInv,
           NEW age, NEW aP \in Nat, NEW aH \in Nat, NEW aW \in Nat, NEW aT, NEW aS,
           Aged(age, aP, aH, aW, aT, aS),
           PushSnapshot, UNCHANGED <<engineState, switches, changes>>
    PROVE  \E longer \in [1 .. Len(snapshotsCh') -> Nat] : Aged(longer, aP, aH, aW, aT, aS)'
<1>1. PICK load \in Loads : Queue(Reading(poller.role, load, accepted))
  BY DEF PushSnapshot, CollectorInv, ClosedInv
<1>2. /\ snapshotsCh \in Seq(Snapshots) /\ Reading(poller.role, load, accepted) \in Snapshots
      /\ poller'.role = poller.role /\ UNCHANGED <<drainer, ringVars, role>>
  <2>1. Reading(poller.role, load, accepted) \in Readings /\ poller'.role = poller.role
    BY DEF CollectorInv, CollectorTypeOK, Readings, PushSnapshot
  <2> QED BY <2>1, InFlightSequence, ReadingsAreSnapshots DEF PushSnapshot, envVars, drainVars
<1>0. PICK n \in Nat : n = Len(snapshotsCh)
  BY <1>2
<1>3. Len(snapshotsCh') = n + 1 /\ Polled' = Polled /\ Entry(n + 1)' = Polled
      /\ \A i \in 1 .. n : Entry(i)' = Entry(i)
  <2>1. Reading(poller.role, load, accepted).role = poller.role
    BY DEF Reading
  <2> HIDE DEF Reading
  <2>2. /\ Len(snapshotsCh') = n + 1 /\ snapshotsCh'[n + 1] = Reading(poller.role, load, accepted)
        /\ \A i \in 1 .. n : snapshotsCh'[i] = snapshotsCh[i]
    BY <1>0, <1>1, <1>2 DEF Queue
  <2> QED BY <1>2, <2>1, <2>2 DEF Entry, Polled
<1>4. UNCHANGED <<E!HasLatest, Newest, Held, role>>
  BY <1>2, WindowKept DEF Held
<1>5. age \in [1 .. n -> Nat] /\ Later(Polled, aP, Class(role), changes)
  BY <1>0 DEF Aged, ChannelAged
<1>6. PICK longer \in [1 .. n + 1 -> Nat] : longer[n + 1] = aP /\ \A i \in 1 .. n : longer[i] = age[i]
  <2> DEFINE f == [i \in 1 .. n + 1 |-> IF i <= n THEN age[i] ELSE aP]
  <2>1. f \in [1 .. n + 1 -> Nat] /\ f[n + 1] = aP /\ \A i \in 1 .. n : f[i] = age[i]
    BY <1>5
  <2> HIDE DEF f
  <2> QED BY <2>1
<1>7. \A i \in 1 .. n + 1 : i \in 1 .. n \/ i = n + 1
  BY <1>3
<1>8. Later(Polled, aP, Polled, aP)
  BY LaterReflexive
<1>9. ChannelAged(longer, aP)'
  <2>1. ASSUME NEW i \in 1 .. n PROVE Later(Entry(i), age[i], Polled, aP)
    BY <1>0 DEF Aged, ChannelAged
  <2>2. ASSUME NEW i \in 1 .. n + 1 PROVE Later(Entry(i)', longer[i], Polled, aP)
    BY <1>3, <1>6, <1>7, <1>8, <2>1
  <2>3. ASSUME NEW i \in 1 .. n + 1, NEW j \in 1 .. n + 1, i <= j
        PROVE  Later(Entry(i)', longer[i], Entry(j)', longer[j])
    <3>1. CASE j = n + 1
      BY <1>3, <1>6, <2>2, <3>1
    <3>2. CASE j # n + 1
      <4>1. i \in 1 .. n /\ j \in 1 .. n
        BY <1>3, <2>3, <3>2
      <4>2. Later(Entry(i), age[i], Entry(j), age[j])
        BY <1>0, <2>3, <4>1 DEF Aged, ChannelAged
      <4> QED BY <1>3, <1>6, <4>1, <4>2
    <3> QED BY <3>1, <3>2
  <2> QED BY <1>3, <1>4, <1>5, <1>6, <2>2, <2>3 DEF ChannelAged
<1>10. ASSUME NEW c, NEW a, BeforeChannel(c, a, age, aP) PROVE BeforeChannel(c, a, longer, aP)'
  <2>1. ASSUME NEW i \in 1 .. n + 1 PROVE Later(c, a, Entry(i)', longer[i])
    BY <1>0, <1>3, <1>6, <1>7, <1>10 DEF BeforeChannel
  <2> QED BY <1>3, <1>10, <2>1 DEF BeforeChannel
<1>11. HeldAged(aH, longer, aP)'
  BY <1>2, <1>4, <1>10 DEF Aged, HeldAged
<1>12. NewestAged(aW, aH, longer, aP)'
  BY <1>2, <1>4, <1>10 DEF Aged, NewestAged
<1>13. EngineAged(aS, aT, aW)'
  BY <1>2, EngineAgesKept DEF Aged
<1> QED BY <1>3, <1>6, <1>9, <1>11, <1>12, <1>13 DEF Aged

(* The drainer takes the oldest role of the channel, and its age. *)
LEMMA RoleReceived ==
    ASSUME CollectorInv,
           NEW age, NEW aP \in Nat, NEW aH \in Nat, NEW aW \in Nat, NEW aT, NEW aS,
           Aged(age, aP, aH, aW, aT, aS),
           Receive, UNCHANGED <<engineState, switches, changes>>
    PROVE  \E rest \in [1 .. Len(snapshotsCh') -> Nat], bH \in Nat : Aged(rest, aP, bH, aW, aT, aS)'
<1>1. /\ snapshotsCh \in Seq(Snapshots) /\ snapshotsCh # <<>>
      /\ snapshotsCh' = Tail(snapshotsCh) /\ drainer.pc # "push"
      /\ drainer' = [pc |-> "push", held |-> <<Head(snapshotsCh)>>]
      /\ UNCHANGED <<poller, ringVars, role>>
  BY InFlightSequence DEF Receive, envVars
<1>2. PICK n \in Nat : n + 1 = Len(snapshotsCh)
  <2>1. Len(snapshotsCh) \in Nat \ {0}
    BY <1>1
  <2>2. Len(snapshotsCh) - 1 \in Nat /\ (Len(snapshotsCh) - 1) + 1 = Len(snapshotsCh)
    BY <2>1
  <2> QED BY <2>2
<1>3. Len(snapshotsCh') = n /\ Polled' = Polled /\ Held' = Entry(1)
      /\ \A i \in 1 .. n : Entry(i)' = Entry(i + 1)
  <2>1. /\ Len(snapshotsCh') = n /\ Head(snapshotsCh) = snapshotsCh[1]
        /\ \A i \in 1 .. n : snapshotsCh'[i] = snapshotsCh[i + 1]
    BY <1>1, <1>2
  <2> QED BY <1>1, <2>1 DEF Entry, Polled, Held
<1>4. UNCHANGED <<E!HasLatest, Newest, role>>
  BY <1>1, WindowKept
<1>5. /\ age \in [1 .. n + 1 -> Nat] /\ Later(Polled, aP, Class(role), changes)
      /\ \A i, j \in 1 .. n + 1 : i <= j => Later(Entry(i), age[i], Entry(j), age[j])
      /\ \A i \in 1 .. n + 1 : Later(Entry(i), age[i], Polled, aP)
  BY <1>2 DEF Aged, ChannelAged
<1>6. PICK rest \in [1 .. n -> Nat] : \A i \in 1 .. n : rest[i] = age[i + 1]
  <2> DEFINE f == [i \in 1 .. n |-> age[i + 1]]
  <2>1. f \in [1 .. n -> Nat] /\ \A i \in 1 .. n : f[i] = age[i + 1]
    BY <1>5
  <2> HIDE DEF f
  <2> QED BY <2>1
<1>7. PICK bH \in Nat : bH = age[1]
  BY <1>5
<1>8. ASSUME NEW i \in 1 .. n PROVE i + 1 \in 1 .. n + 1 /\ 1 \in 1 .. n + 1 /\ 1 <= i + 1
  OBVIOUS
<1>9. ChannelAged(rest, aP)'
  <2>1. ASSUME NEW i \in 1 .. n PROVE Later(Entry(i)', rest[i], Polled, aP)
    BY <1>3, <1>5, <1>6, <1>8
  <2>2. ASSUME NEW i \in 1 .. n, NEW j \in 1 .. n, i <= j
        PROVE  Later(Entry(i)', rest[i], Entry(j)', rest[j])
    <3>1. i + 1 \in 1 .. n + 1 /\ j + 1 \in 1 .. n + 1 /\ i + 1 <= j + 1
      BY <2>2
    <3> QED BY <1>3, <1>5, <1>6, <3>1
  <2> QED BY <1>3, <1>4, <1>5, <1>6, <2>1, <2>2 DEF ChannelAged
<1>10. ASSUME NEW c, NEW a, BeforeChannel(c, a, age, aP)
       PROVE  BeforeChannel(c, a, rest, aP)' /\ Later(c, a, Entry(1), bH)
  <2>1. ASSUME NEW i \in 1 .. n + 1 PROVE Later(c, a, Entry(i), age[i])
    BY <1>2, <1>10 DEF BeforeChannel
  <2>2. ASSUME NEW i \in 1 .. n PROVE Later(c, a, Entry(i)', rest[i])
    BY <1>3, <1>6, <1>8, <2>1
  <2>3. 1 \in 1 .. n + 1
    OBVIOUS
  <2> QED BY <1>3, <1>7, <1>10, <2>1, <2>2, <2>3 DEF BeforeChannel
<1>11. HeldAged(bH, rest, aP)'
  <2>1. ASSUME NEW i \in 1 .. n PROVE Later(Entry(1), bH, Entry(i)', rest[i])
    BY <1>3, <1>5, <1>6, <1>7, <1>8
  <2>2. 1 \in 1 .. n + 1
    OBVIOUS
  <2>3. Later(Entry(1), bH, Polled, aP)
    BY <1>5, <1>7, <2>2
  <2> QED BY <1>3, <2>1, <2>3 DEF HeldAged, BeforeChannel
<1>12. NewestAged(aW, bH, rest, aP)'
  BY <1>3, <1>4, <1>10 DEF Aged, NewestAged
<1>13. EngineAged(aS, aT, aW)'
  BY <1>1, EngineAgesKept DEF Aged
<1> QED BY <1>3, <1>6, <1>7, <1>9, <1>11, <1>12, <1>13 DEF Aged

(* What the drainer holds becomes the newest role of the window. *)
LEMMA RolePushed ==
    ASSUME CollectorInv,
           NEW age, NEW aP \in Nat, NEW aH \in Nat, NEW aW \in Nat, NEW aT, NEW aS,
           Aged(age, aP, aH, aW, aT, aS),
           PushToWindow, UNCHANGED <<engineState, switches, changes>>
    PROVE  Aged(age, aP, aH, aH, aT, aS)'
<1>1. /\ UNCHANGED <<poller, snapshotsCh, role>> /\ drainer.pc = "push" /\ drainer'.pc = "receive"
      /\ E!HasLatest' /\ Newest' = Held
  BY PushLatest DEF PushToWindow, envVars, channelVars, Newest, Held
<1>2. E!HasLatest => Later(Newest, aW, Held, aH)
  BY <1>1 DEF Aged, NewestAged
<1>3. ChannelAged(age, aP)'
  BY <1>1 DEF Aged, ChannelAged, Entry, Polled
<1>4. HeldAged(aH, age, aP)' /\ NewestAged(aH, aH, age, aP)'
  <2>1. BeforeChannel(Newest, aH, age, aP)'
    BY <1>1 DEF Aged, HeldAged, BeforeChannel, Entry, Polled
  <2> QED BY <1>1, <2>1 DEF HeldAged, NewestAged
<1>5. EngineAged(aS, aT, aH)'
  <2>1. UNCHANGED <<pc, tick, State, switches, Restarted>> /\ aS \in Nat /\ aT \in Nat
    BY DEF engineState, State, Restarted, Aged, EngineAged
  <2>2. ASSUME E!HasLatest, Later(Class(tick.role), aT, Newest, aW)
        PROVE  Later(Class(tick.role), aT, Held, aH)
    BY <1>2, <2>1, <2>2, LaterTransitive
  <2>3. ASSUME E!HasLatest, Later(State, aS, Newest, aW)
        PROVE  Later(State, aS, Held, aH)
    BY <1>2, <2>1, <2>3, LaterTransitive
  <2>4. Unacted => Unacted'
    BY <2>1 DEF Unacted
  <2>5. Acted(aS, aT, aW) => Acted(aS, aT, aH)'
    BY <1>1, <2>1, <2>3 DEF Acted, Deciding
  <2> QED BY <1>1, <2>1, <2>2, <2>4, <2>5 DEF Aged, EngineAged, Deciding
<1> QED BY <1>3, <1>4, <1>5 DEF Aged

(* The engine runs; the pipeline, up to the window, stays as it is. *)
LEMMA EngineMoves ==
    ASSUME RecordsInv, CountedRun,
           NEW age, NEW aP, NEW aH, NEW aW \in Nat, NEW aT, NEW aS,
           Aged(age, aP, aH, aW, aT, aS), changes \in Nat,
           EngineRuns \/ PgBouncerRestarts
    PROVE  /\ UNCHANGED <<snapshotsCh, changes>>
           /\ \E bS, bT \in Nat : Aged(age, aP, aH, aW, bT, bS)'
<1>1. UNCHANGED <<snapshotsCh, drainer, poller, role, changes, ringVars>>
  BY DEF EngineRuns, PgBouncerRestarts, collectorVars, envVars, channelVars, drainVars, CountedRun
<1>2. UNCHANGED <<E!HasLatest, Newest>>
  BY <1>1, WindowKept
<1>3. ChannelAged(age, aP)' /\ HeldAged(aH, age, aP)' /\ NewestAged(aW, aH, age, aP)'
  BY <1>1, <1>2 DEF Aged, ChannelAged, HeldAged, NewestAged, BeforeChannel, Entry, Polled, Held
<1>4. CASE EngineRuns
  <2>1. PICK bS, bT \in Nat : EngineAged(bS, bT, aW)'
    BY <1>4, EngineStepAges DEF Aged
  <2> QED BY <1>1, <1>3, <2>1 DEF Aged
<1>5. CASE PgBouncerRestarts
  <2>1. UNCHANGED <<pc, tick, st>> /\ (Restarted' <=> Restarted)
    BY <1>5, FaultsKept DEF PgBouncerRestarts, E!PoolRestart
  <2>2. UNCHANGED switches
    BY <2>1 DEF CountedRun
  <2>3. EngineAged(aS, aT, aW)' /\ aS \in Nat /\ aT \in Nat
    BY <1>2, <2>1, <2>2 DEF Aged, EngineAged, Unacted, Acted, Deciding, State
  <2> QED BY <1>1, <1>3, <2>3 DEF Aged
<1> QED BY <1>4, <1>5

(* A process begins with all ages 0 and with nothing on its way. *)
NothingPolled ==
    /\ snapshotsCh = <<>> /\ drainer.pc # "push" /\ Retained = <<>> /\ poller.role = role
    /\ changes = 0 /\ switches = 0 /\ pc = "down" /\ State = "serving"

LEMMA EmptyAges == NothingPolled => SwitchInv
<1> SUFFICES ASSUME NothingPolled PROVE SwitchInv
  OBVIOUS
<1> USE DEF NothingPolled
<1> DEFINE none == [i \in 1 .. 0 |-> 0]
<1>1. none \in [1 .. Len(snapshotsCh) -> Nat] /\ 1 .. Len(snapshotsCh) = {}
  OBVIOUS
<1> HIDE DEF none
<1>2. ~E!HasLatest
  BY DEF E!HasLatest
<1>3. ChannelAged(none, 0)
  BY <1>1, LaterReflexive DEF ChannelAged, Polled
<1>4. HeldAged(0, none, 0) /\ NewestAged(0, 0, none, 0)
  BY <1>2 DEF HeldAged, NewestAged
<1>5. EngineAged(0, 0, 0)
  BY DEF EngineAged, Unacted, Deciding
<1> QED BY <1>1, <1>3, <1>4, <1>5 DEF SwitchInv, Aged

LEMMA SwitchInit == CountedInit => SwitchInv
<1> SUFFICES ASSUME CountedInit PROVE SwitchInv
  OBVIOUS
<1>1. /\ snapshotsCh = <<>> /\ drainer.pc # "push" /\ poller.role = role
      /\ changes = 0 /\ switches = 0 /\ pc = "down" /\ RingInit
  BY DEF CountedInit, PathInit, CollectorInit, E!EngineInit
<1>2. Retained = <<>>
  BY <1>1 DEF RingInit, Retained, RingLen
<1>3. State = "serving"
  BY DEF CountedInit, PathInit, E!EngineInit, E!FreshState, State
<1> QED BY <1>1, <1>2, <1>3, EmptyAges DEF NothingPolled

LEMMA SwitchStep ==
    ASSUME CollectorInv, RecordsInv, SwitchInv, [CountedNext]_countedVars
    PROVE  SwitchInv'
<1>1. PICK age \in [1 .. Len(snapshotsCh) -> Nat], aP \in Nat, aH \in Nat, aW \in Nat, aT \in Nat, aS \in Nat :
         Aged(age, aP, aH, aW, aT, aS)
  BY DEF SwitchInv
<1>2. changes \in Nat
  BY DEF SwitchInv
<1>3. CASE CountedDeath
  <2>1. /\ snapshotsCh' = <<>> /\ drainer'.pc # "push" /\ poller'.role = role'
        /\ changes' = 0 /\ switches' = 0 /\ pc' = "down" /\ st' = E!FreshState
    BY <1>3 DEF CountedDeath, AgentDies, ProcessStarts, E!Crash
  <2>2. Retained' = <<>>
    BY <1>3, StartKeepsCollector DEF CountedDeath, AgentDies
  <2>3. State' = "serving"
    BY <2>1 DEF E!FreshState, State
  <2>4. (NothingPolled => SwitchInv)'
    BY EmptyAges, PTL
  <2> QED BY <2>1, <2>2, <2>3, <2>4 DEF NothingPolled
<1>4. ASSUME CountedRun, EngineRuns \/ PgBouncerRestarts PROVE SwitchInv'
  <2>1. UNCHANGED <<snapshotsCh, changes>> /\ \E bS, bT \in Nat : Aged(age, aP, aH, aW, bT, bS)'
    BY <1>1, <1>2, <1>4, EngineMoves
  <2> QED BY <1>1, <1>2, <2>1 DEF SwitchInv
<1>5. ASSUME CountedRun \/ UNCHANGED countedVars,
             Poll \/ Ticks \/ Drain \/ CollectorRuns \/ StopIsTold \/ EngineStopsFirst \/ UNCHANGED countedVars
      PROVE  /\ UNCHANGED <<engineState, switches>>
             /\ changes' = (IF role' # role THEN changes + 1 ELSE changes) /\ changes' \in Nat
  <2>1. UNCHANGED engineState
    BY <1>5 DEF Poll, Ticks, Drain, CollectorRuns, StopIsTold, EngineStopsFirst, countedVars, pathVars
  <2> QED BY <1>2, <1>5, <2>1 DEF CountedRun, engineState, countedVars, pathVars, collectorVars, envVars
<1>6. ASSUME CountedRun, FetchPatroni, UNCHANGED engineState PROVE SwitchInv'
  <2>1. UNCHANGED <<engineState, switches, changes, snapshotsCh>>
    BY <1>6 DEF CountedRun, engineState, FetchPatroni, envVars, channelVars
  <2>2. Aged(age, changes, aH, aW, aT, aS)'
    BY <1>1, <1>2, <1>6, <2>1, RolePolled
  <2> QED BY <1>1, <1>2, <2>1, <2>2 DEF SwitchInv
<1>7. ASSUME CountedRun, PushSnapshot, UNCHANGED engineState PROVE SwitchInv'
  <2>1. UNCHANGED <<engineState, switches, changes>>
    BY <1>7 DEF CountedRun, engineState, PushSnapshot, envVars
  <2>2. PICK longer \in [1 .. Len(snapshotsCh') -> Nat] : Aged(longer, aP, aH, aW, aT, aS)'
    BY <1>1, <1>7, <2>1, RoleQueued
  <2> QED BY <1>1, <1>2, <2>1, <2>2 DEF SwitchInv
<1>8. ASSUME CountedRun, Receive, UNCHANGED engineState PROVE SwitchInv'
  <2>1. UNCHANGED <<engineState, switches, changes>>
    BY <1>8 DEF CountedRun, engineState, Receive, envVars
  <2>2. PICK rest \in [1 .. Len(snapshotsCh') -> Nat], bH \in Nat : Aged(rest, aP, bH, aW, aT, aS)'
    BY <1>1, <1>8, <2>1, RoleReceived
  <2> QED BY <1>1, <1>2, <2>1, <2>2 DEF SwitchInv
<1>9. ASSUME CountedRun, PushToWindow, UNCHANGED engineState PROVE SwitchInv'
  <2>1. UNCHANGED <<engineState, switches, changes, snapshotsCh>>
    BY <1>9 DEF CountedRun, engineState, PushToWindow, envVars, channelVars
  <2>2. Aged(age, aP, aH, aH, aT, aS)'
    BY <1>1, <1>9, <2>1, RolePushed
  <2> QED BY <1>1, <1>2, <2>1, <2>2 DEF SwitchInv
<1>10. ASSUME CountedRun \/ UNCHANGED countedVars,
              UNCHANGED <<snapshotsCh, ringVars>>, poller'.role = poller.role,
              drainer'.pc = "push" => UNCHANGED drainer,
              Poll \/ Ticks \/ Drain \/ CollectorRuns \/ StopIsTold \/ EngineStopsFirst \/ UNCHANGED countedVars
       PROVE  SwitchInv'
  <2>1. Aged(age, aP, aH, aW, aT, aS)' /\ changes' \in Nat
    BY <1>1, <1>2, <1>5, <1>10, NoRoleMoves
  <2> QED BY <1>1, <1>10, <2>1 DEF SwitchInv
<1>11. ASSUME \/ FetchPgStats \/ FetchFails \/ DropSnapshot \/ Tick
              \/ SourceChanges \/ RoleChanges \/ LoopEnds \/ DrainerEnds \/ LogError \/ ErrDrainerEnds
              \/ CloseChannels \/ Cancel \/ BeginShutdown \/ UNCHANGED countedVars
       PROVE  /\ UNCHANGED <<snapshotsCh, ringVars>> /\ poller'.role = poller.role
              /\ drainer'.pc = "push" => UNCHANGED drainer
  <2>1. CASE FetchPgStats \/ FetchFails \/ DropSnapshot \/ Tick \/ LoopEnds
    BY <2>1 DEF CollectorInv, CollectorTypeOK, FetchPgStats, FetchFails, DropSnapshot, Tick, LoopEnds,
       channelVars, drainVars
  <2>2. CASE \/ SourceChanges \/ RoleChanges \/ LogError \/ ErrDrainerEnds \/ CloseChannels
             \/ Cancel \/ BeginShutdown \/ UNCHANGED countedVars
    BY <2>2 DEF SourceChanges, RoleChanges, LogError, ErrDrainerEnds, CloseChannels, Cancel, BeginShutdown,
       channelVars, drainVars, countedVars, pathVars, collectorVars
  <2>3. CASE DrainerEnds
    BY <2>3 DEF CollectorInv, CollectorTypeOK, DrainerEnds, channelVars
  <2> QED BY <1>11, <2>1, <2>2, <2>3
<1> QED
  <2>1. CASE UNCHANGED countedVars
    BY <1>10, <1>11, <2>1
  <2>2. CASE CountedRun /\ Poll
    BY <1>6, <1>7, <1>10, <1>11, <2>2 DEF Poll, PollStep
  <2>3. CASE CountedRun /\ Drain
    BY <1>8, <1>9, <2>3 DEF Drain
  <2>4. CASE CountedRun /\ (Ticks \/ CollectorRuns \/ StopIsTold \/ EngineStopsFirst)
    BY <1>10, <1>11, <2>4 DEF Ticks, CollectorRuns, StopIsTold, EngineStopsFirst
  <2> QED BY <1>3, <1>4, <2>1, <2>2, <2>3, <2>4 DEF CountedNext, CountedRun, AgentRuns

(* The ages bound the switches: no role on its way is older than one the
   engine has acted on, and none is younger than the changes there were. *)
LEMMA AgesBoundSwitches == SwitchInv => NoFlapping
<1> SUFFICES ASSUME SwitchInv PROVE NoFlapping
  OBVIOUS
<1>1. PICK age \in [1 .. Len(snapshotsCh) -> Nat], aP \in Nat, aH \in Nat, aW \in Nat, aT \in Nat, aS \in Nat :
         Aged(age, aP, aH, aW, aT, aS)
  BY DEF SwitchInv
<1>2. changes \in Nat /\ aP <= changes
  BY <1>1 DEF SwitchInv, Aged, ChannelAged, Later
<1>3. CASE Unacted
  BY <1>2, <1>3 DEF Unacted, Restarted, NoFlapping
<1>4. CASE Acted(aS, aT, aW)
  <2>1. aS <= aW
    BY <1>4 DEF Acted, Later
  <2>2. aW <= aP
    BY <1>1, <1>4 DEF Acted, Aged, NewestAged, BeforeChannel, Later
  <2> QED BY <1>1, <1>2, <1>4, <2>1, <2>2 DEF Acted, Restarted, NoFlapping
<1> QED BY <1>1, <1>3, <1>4 DEF Aged, EngineAged

(* Whatever the size of the channel and of the window, whatever is dropped,
   late, refused or lost, and however often the process was restarted: the
   engine halts and restores the pool at most once for the role a process
   finds, once for each change of the role, and once more after a restart. *)
THEOREM PoolNeverFlaps == CountedSpec => []NoFlapping
<1>1. CountedInit => CollectorInv
  BY PathInvInit DEF CountedInit
<1>2. CollectorInv /\ [CountedNext]_countedVars => CollectorInv'
  <2>1. [CountedNext]_countedVars => [PathNext]_pathVars
    BY DEF CountedNext, CountedRun, CountedDeath, PathNext, countedVars
  <2> QED BY <2>1, PathInvStep
<1>3. RecordsInv /\ [CountedNext]_countedVars => RecordsInv'
  BY RecordsStep
<1>4. CollectorInv /\ RecordsInv /\ SwitchInv /\ [CountedNext]_countedVars => SwitchInv'
  BY SwitchStep
<1> QED BY <1>1, <1>2, <1>3, <1>4, RecordsInit, SwitchInit, AgesBoundSwitches, PTL DEF CountedSpec

---------------------------------------------------------------------------
(* What EngineProofs.tla proves of the engine, for the agent.  Its definitions,
   read over the window that the collector fills, are those of E. *)
EP == INSTANCE EngineProofs WITH win <- Retained, run <- 0

LEMMA EngineAssumptions ==
    /\ Floor \in Nat \ {0} /\ Step \in Nat /\ Step >= Floor /\ MaxConnections \in Nat
    /\ DefaultPoolSize \in Floor .. MaxConnections /\ IniSize \in Floor .. MaxConnections
    /\ DownTicks \in Nat \ {0} /\ UpTicks \in Nat \ {0}
    /\ \A snap \in Snapshots : snap.max \in Floor .. MaxConnections
    /\ FaultKinds \subseteq EP!Faults /\ MaxFaults \in Nat
    /\ NoFile \notin EP!States /\ Torn \notin EP!States /\ NoFile # Torn
<1>1. E!Faults = EP!Faults
  BY DEF E!Faults, EP!Faults
<1>2. E!States = EP!States
  BY DEF E!States, EP!States, E!Roles, EP!Roles
<1> QED BY PathAssumption, <1>1, <1>2

LEMMA SameValues ==
    /\ E!HasLatest = EP!HasLatest
    /\ E!Latest = EP!Latest
    /\ E!CurrentRole = EP!CurrentRole
    /\ E!FreshState = EP!FreshState
    /\ E!NoTick = EP!NoTick
    /\ E!Replies = EP!Replies
BY DEF E!HasLatest, EP!HasLatest, E!Latest, EP!Latest, E!CurrentRole, EP!CurrentRole,
       E!FreshState, EP!FreshState, E!NoTick, EP!NoTick, E!Replies, EP!Replies

LEMMA SameZone == ASSUME NEW w, NEW max PROVE E!ZoneOf(w, max) = EP!ZoneOf(w, max)
<1>1. E!SumActive(w) = EP!SumActive(w)
  BY DEF E!SumActive, EP!SumActive, E!FoldSeq, EP!FoldSeq, E!FoldFunction, EP!FoldFunction,
         E!FoldFunctionOnSet, EP!FoldFunctionOnSet, E!MapThenFoldSet, EP!MapThenFoldSet
<1> QED BY <1>1, Zenon DEF E!ZoneOf, EP!ZoneOf

LEMMA SameFault == ASSUME NEW kind PROVE E!Fault(kind) <=> EP!Fault(kind)
BY DEF E!Fault, EP!Fault

LEMMA SameCommand ==
    ASSUME NEW size, NEW reply
    PROVE  E!SetPoolSize(size, reply) <=> EP!SetPoolSize(size, reply)
BY SameFault DEF E!SetPoolSize, EP!SetPoolSize

LEMMA SameInit == E!EngineInit <=> EP!EngineInit
BY SameValues DEF E!EngineInit, EP!EngineInit, E!WindowInit, EP!WindowInit, E!NoFaults, EP!NoFaults

LEMMA SameNext == E!EngineNext <=> EP!EngineNext
<1> USE DEF E!counters, EP!counters, E!disk, EP!disk, E!Finish, EP!Finish, E!Halting, EP!Halting
<1>1. E!Boot <=> EP!Boot
  BY SameValues, SameFault, Zenon DEF E!Boot, EP!Boot
<1>2. E!ReadRole <=> EP!ReadRole
  BY SameValues, Zenon DEF E!ReadRole, EP!ReadRole
<1>3. E!SkipTick <=> EP!SkipTick
  BY SameValues, Zenon DEF E!SkipTick, EP!SkipTick
<1>4. E!ReadLatest <=> EP!ReadLatest
  BY SameValues, Zenon DEF E!ReadLatest, EP!ReadLatest
<1>5. E!ReadAverage <=> EP!ReadAverage
  BY SameZone, Zenon DEF E!ReadAverage, EP!ReadAverage
<1>6. E!Halt <=> EP!Halt
  BY SameValues, SameCommand, Zenon DEF E!Halt, EP!Halt
<1>7. E!StayHalted <=> EP!StayHalted
  BY Zenon DEF E!StayHalted, EP!StayHalted
<1>8. E!Restore <=> EP!Restore
  BY SameValues, SameCommand, Zenon DEF E!Restore, EP!Restore, E!RestoreSize, EP!RestoreSize
<1>9. E!Shrink <=> EP!Shrink
  BY SameValues, SameCommand, Zenon DEF E!Shrink, EP!Shrink, E!Resize, EP!Resize, E!Smaller, EP!Smaller
<1>10. E!Grow <=> EP!Grow
  BY SameValues, SameCommand, Zenon DEF E!Grow, EP!Grow, E!Resize, EP!Resize, E!Larger, EP!Larger
<1>11. E!Count <=> EP!Count
  BY Zenon DEF E!Count, EP!Count, E!Larger, EP!Larger, E!Smaller, EP!Smaller
<1>12. E!Save <=> EP!Save
  BY SameValues, SameFault, Zenon DEF E!Save, EP!Save, E!CreateTemp, EP!CreateTemp, E!WriteTemp, EP!WriteTemp,
     E!RenameTemp, EP!RenameTemp, E!SaveFails, EP!SaveFails, E!Resume, EP!Resume
<1>13. E!DrainPush <=> EP!DrainPush
  BY Zenon DEF E!DrainPush, EP!DrainPush, E!WindowNext, EP!WindowNext, E!Push, EP!Push
<1>14. E!Crash <=> EP!Crash
  BY SameValues, SameFault, Zenon DEF E!Crash, EP!Crash
<1>15. E!PoolRestart <=> EP!PoolRestart
  BY SameFault, Zenon DEF E!PoolRestart, EP!PoolRestart
<1>16. E!EngineStep <=> EP!EngineStep
  BY <1>1, <1>2, <1>3, <1>4, <1>5, <1>6, <1>7, <1>8, <1>9, <1>10, <1>11, <1>12
     DEF E!EngineStep, EP!EngineStep
<1> QED BY <1>13, <1>14, <1>15, <1>16 DEF E!EngineNext, EP!EngineNext

LEMMA SameEngine == ImplementsEngine => EP!EngineSpec
<1>1. [E!EngineNext]_(E!engineVars) => [EP!EngineNext]_(EP!engineVars)
  BY SameNext DEF E!engineVars, EP!engineVars
<1> QED BY SameInit, <1>1, PTL DEF ImplementsEngine, E!EngineSpec, EP!EngineSpec

LEMMA SamePromises ==
    /\ EP!PoolSizeSafe => E!PoolSizeSafe
    /\ EP!FileNeverTorn => E!FileNeverTorn
    /\ EP!RemembersOnDisk => E!RemembersOnDisk
    /\ EP!HaltHolds => E!HaltHolds
    /\ EP!DriftBounded => E!DriftBounded
<1>1. EP!PoolSizeSafe => E!PoolSizeSafe
  BY DEF E!PoolSizeSafe, EP!PoolSizeSafe, E!Sized, EP!Sized
<1>2. EP!RemembersOnDisk => E!RemembersOnDisk
  BY SameValues, Zenon DEF E!RemembersOnDisk, EP!RemembersOnDisk, E!Quiet, EP!Quiet
<1>3. EP!HaltHolds => E!HaltHolds
  BY Zenon DEF E!HaltHolds, EP!HaltHolds, E!Obedient, EP!Obedient, E!Saving, EP!Saving, E!Halting, EP!Halting
<1> QED BY <1>1, <1>2, <1>3, Zenon DEF E!FileNeverTorn, EP!FileNeverTorn, E!DriftBounded, EP!DriftBounded

(* Agent.Run: what engine.go and state.go promise holds in the agent, whose
   collector, channels, ring and processes fill, stop and lose the window as
   they do, not only on a window that is pushed to. *)
THEOREM AgentKeepsPromises ==
    PathSpec => [](/\ E!PoolSizeSafe /\ E!FileNeverTorn /\ E!RemembersOnDisk
                   /\ E!HaltHolds /\ E!DriftBounded)
<1> USE EngineAssumptions, SizeAssumption, RingSnapshotsAssumption
<1>1. EP!EngineSpec => []EP!PoolSizeSafe
  BY EP!PoolSizeAlwaysSafe
<1>2. EP!EngineSpec => []EP!FileNeverTorn
  BY EP!FileAlwaysReadable
<1>3. EP!EngineSpec => []EP!RemembersOnDisk
  BY EP!StateSurvivesRestarts
<1>4. EP!EngineSpec => []EP!HaltHolds
  BY EP!HaltAlwaysHolds
<1>5. EP!EngineSpec => []EP!DriftBounded
  BY EP!DriftAlwaysBounded
<1> QED BY <1>1, <1>2, <1>3, <1>4, <1>5, SamePromises, AgentImplementsEngine, SameEngine, PTL

(* The valve of engine.go:59-65, for the agent: clients of its PgBouncer meet a
   pool that halts, reopens and moves step by step, until a fault other than a
   failed save. *)
THEOREM AgentImplementsPoolValve == PathSpec => E!ImplementsPoolValve
<1>1. EP!EngineSpec => EP!ImplementsPoolValve
  BY EngineAssumptions, SizeAssumption, RingSnapshotsAssumption, EP!EngineImplementsPoolValve
<1> USE DEF E!Valve!Sizes, EP!Valve!Sizes, E!Faithful, EP!Faithful
<1>2. EP!Valve!ValveInit => E!Valve!ValveInit
  BY DEF E!Valve!ValveInit, EP!Valve!ValveInit
<1>3. [EP!Valve!ValveNext]_(EP!Valve!valve) => [E!Valve!ValveNext]_(E!Valve!valve)
  BY Zenon DEF E!Valve!ValveNext, EP!Valve!ValveNext, E!Valve!HaltPool, EP!Valve!HaltPool,
     E!Valve!ReopenPool, EP!Valve!ReopenPool, E!Valve!ResizePool, EP!Valve!ResizePool,
     E!Valve!GoAstray, EP!Valve!GoAstray, E!Valve!valve, EP!Valve!valve
<1>4. EP!ImplementsPoolValve => E!ImplementsPoolValve
  BY <1>2, <1>3, PTL DEF E!ImplementsPoolValve, EP!ImplementsPoolValve, E!Valve!ValveSpec, EP!Valve!ValveSpec
<1> QED BY <1>1, <1>4, AgentImplementsEngine, SameEngine, PTL
=============================================================================
