--------------------------- MODULE EngineProofs ---------------------------
(***************************************************************************)
(* Proofs about the decision engine, for every size, threshold, window and *)
(* combination of faults the assumptions of Engine.tla allow.              *)
(***************************************************************************)
EXTENDS EngineHistory, TLAPS

USE DEF counters, disk

(* A step of the engine keeps every variable in its type. *)
LEMMA TypeInit == EngineInit => EngineTypeOK
  <1> SUFFICES ASSUME EngineInit PROVE EngineTypeOK
    OBVIOUS
  <1>1. WindowTypeOK
    BY WindowSizeAssumption DEF EngineInit, WindowInit, WindowTypeOK
  <1>2. st \in States
    <2>1. DefaultPoolSize \in Nat
      BY SizingAssumption
    <2> QED BY <2>1 DEF EngineInit, States, FreshState, Roles
  <1>3. tick \in [role : Roles, max : Nat, zone : Zones, resume : {"idle", "evaluate"}]
    BY DEF EngineInit, NoTick, Zones, Roles
  <1>4. above \in 0 .. DownTicks /\ below \in 0 .. UpTicks
    BY TicksAssumption DEF EngineInit
  <1>5. pool \in Nat /\ faults \in FaultLog
    BY SizingAssumption, FaultsAssumption DEF EngineInit, NoFaults, FaultLog
  <1> QED BY <1>1, <1>2, <1>3, <1>4, <1>5 DEF EngineTypeOK, ControlTypeOK, EngineInit
---------------------------------------------------------------------------
(* What the engine computes with: snapshots, sizes, commands. *)

(* The fields of a snapshot. *)
LEMMA SnapshotFields ==
    ASSUME NEW snap \in Snapshots
    PROVE  /\ snap.role \in Roles
           /\ snap.max \in Nat /\ snap.max \in Floor .. MaxConnections
  BY SnapshotsAssumption, ServerAssumption, SizingAssumption DEF Roles

(* What Latest and CurrentRole return is a snapshot's (window.go:155-179). *)
LEMMA LatestIsSnapshot ==
    ASSUME WindowTypeOK
    PROVE  /\ HasLatest => Latest \in Snapshots
           /\ CurrentRole \in Roles
  <1>1. ASSUME HasLatest PROVE Latest \in Snapshots
    BY <1>1 DEF WindowTypeOK, HasLatest, Latest
  <1>2. CurrentRole \in Roles
    BY <1>1, SnapshotFields DEF CurrentRole, Roles
  <1> QED BY <1>1, <1>2

(* A push keeps the window a bounded sequence of snapshots. *)
LEMMA PushKeepsWindow ==
    ASSUME WindowTypeOK, WindowNext
    PROVE  WindowTypeOK'
  <1>1. PICK snap \in Snapshots : Push(snap)
    BY DEF WindowNext
  <1>2. CASE Len(win) < WindowSize
    BY <1>1, <1>2, WindowSizeAssumption DEF WindowTypeOK, Push
  <1>3. CASE ~(Len(win) < WindowSize)
    <2>1. win # <<>> /\ win \in Seq(Snapshots) /\ Len(win) = WindowSize
      BY <1>3, WindowSizeAssumption DEF WindowTypeOK
    <2>2. Tail(win) \in Seq(Snapshots) /\ Len(Tail(win)) = WindowSize - 1
      BY <2>1
    <2>3. win' = Append(Tail(win), snap)
      BY <1>1, <1>3 DEF Push
    <2> QED BY <2>2, <2>3, WindowSizeAssumption DEF WindowTypeOK
  <1> QED BY <1>2, <1>3

(* A fault is remembered, and forgets none of those before it. *)
LEMMA FaultLogged ==
    ASSUME NEW kind, faults \in FaultLog, Fault(kind)
    PROVE  /\ faults' \in FaultLog
           /\ kind \in faults'.kinds /\ faults.kinds \subseteq faults'.kinds
  <1>1. faults.count + 1 \in 0 .. MaxFaults
    BY FaultsAssumption DEF Fault, FaultLog
  <1>2. faults.kinds \cup {kind} \subseteq FaultKinds
    BY DEF Fault, FaultLog
  <1> QED BY <1>1, <1>2 DEF Fault, FaultLog

(* A command either leaves PgBouncer's size or sets the one asked for, and a
   command that was confirmed was executed (engine.go, setPoolSize). *)
LEMMA SetPoolSizeEffect ==
    ASSUME NEW size, NEW reply, SetPoolSize(size, reply), faults \in FaultLog
    PROVE  /\ pool' \in {pool, size}
           /\ reply = "applied" => pool' = size
           /\ faults' \in FaultLog
  BY FaultLogged DEF SetPoolSize

(* A shrink stays at or above the floor, within one step (engine.go:289). *)
LEMMA SmallerSized ==
    ASSUME NEW size \in Nat, Sized(size), Smaller(size) < size
    PROVE  /\ Smaller(size) \in Nat /\ Smaller(size) \in Floor .. MaxConnections
           /\ size # 0
           /\ size - Smaller(size) \in 0 .. Step
  BY SizingAssumption DEF Sized, Smaller

(* A growth reaches the floor, even from a halted 0, and stays at or below
   the ceiling, within one step (engine.go:319). *)
LEMMA LargerSized ==
    ASSUME NEW size \in Nat, Sized(size),
           NEW max \in Floor .. MaxConnections, Larger(size, max) > size
    PROVE  /\ Larger(size, max) \in Nat /\ Larger(size, max) \in Floor .. MaxConnections
           /\ Larger(size, max) - size \in 0 .. Step
  BY SizingAssumption DEF Sized, Larger

(* A pool is restored to a size at or above the floor (engine.go:249-252). *)
LEMMA RestoreSized ==
    ASSUME st \in States, Sized(st.lastSize)
    PROVE  RestoreSize \in Nat /\ RestoreSize \in Floor .. MaxConnections
  BY SizingAssumption DEF Sized, RestoreSize, States
---------------------------------------------------------------------------
(* The inductive invariant. *)

LEMMA EngineInvInit == EngineInit => EngineInv
  <1> SUFFICES ASSUME EngineInit PROVE EngineInv
    OBVIOUS
  <1>1. SavesItsState /\ TickCeiling
    BY FilesAssumption DEF EngineInit, SavesItsState, FileNeverTorn, TickCeiling
  <1>2. SizesInv
    BY SizingAssumption DEF EngineInit, SizesInv, StateSized, Sized, FreshState
  <1> QED BY TypeInit, <1>1, <1>2 DEF EngineInv

(* The actions that read the window change only the control state. *)
LEMMA ReadsKeepInv ==
    ASSUME EngineInv, ReadRole \/ SkipTick \/ ReadLatest \/ ReadAverage
    PROVE  EngineInv'
  <1> USE DEF EngineInv
  <1>1. EngineTypeOK /\ WindowTypeOK /\ ControlTypeOK
    BY DEF EngineTypeOK
  <1>2. UNCHANGED <<win, st, above, below, file, tmp, pool, faults>>
    BY DEF ReadRole, SkipTick, ReadLatest, ReadAverage
  <1>3. WindowTypeOK'
    BY <1>1, <1>2 DEF WindowTypeOK
  <1>4. SizesInv'
    BY <1>2 DEF SizesInv, StateSized, Sized
  <1>5. SavesItsState' /\ TickCeiling' /\ ControlTypeOK'
    <2>1. CASE ReadRole
      BY <2>1, <1>1, <1>2, LatestIsSnapshot
      DEF ReadRole, SavesItsState, FileNeverTorn, TickCeiling, ControlTypeOK, NoTick, Zones
    <2>2. CASE SkipTick
      BY <2>2, <1>1, <1>2
      DEF SkipTick, SavesItsState, FileNeverTorn, TickCeiling, ControlTypeOK, NoTick, Zones, Roles
    <2>3. CASE ReadLatest
      <3>1. Latest.max \in Nat /\ Latest.max \in Floor .. MaxConnections
        BY <2>3, <1>1, LatestIsSnapshot, SnapshotFields DEF ReadLatest
      <3> QED BY <3>1, <2>3, <1>1, <1>2
          DEF ReadLatest, SavesItsState, FileNeverTorn, TickCeiling, ControlTypeOK
    <2>4. CASE ReadAverage
      <3>1. ZoneOf(win, tick.max) \in Zones
        BY DEF ZoneOf, Zones
      <3>2. pc' \in {"decide", "evaluate"}
        BY <2>4 DEF ReadAverage
      <3> QED BY <3>1, <3>2, <2>4, <1>1, <1>2
          DEF ReadAverage, SavesItsState, FileNeverTorn, TickCeiling, ControlTypeOK
    <2> QED BY <2>1, <2>2, <2>3, <2>4
  <1> QED BY <1>3, <1>4, <1>5 DEF EngineTypeOK

(* Halting, staying halted and restoring. *)
LEMMA FailoverKeepsInv ==
    ASSUME EngineInv, Halt \/ StayHalted \/ Restore
    PROVE  EngineInv'
  <1> USE DEF EngineInv
  <1>1. EngineTypeOK /\ WindowTypeOK /\ ControlTypeOK /\ SizesInv
    BY DEF EngineTypeOK
  <1>2. st \in States /\ Sized(st.size) /\ Sized(st.lastSize) /\ Sized(pool)
        /\ pool \in Nat /\ faults \in FaultLog
    BY <1>1 DEF ControlTypeOK, SizesInv, StateSized
  <1>3. UNCHANGED <<win, file, tmp>> /\ pc = "decide" /\ pc' = "save"
    BY DEF Halt, StayHalted, Restore
  <1>4. WindowTypeOK'
    BY <1>1, <1>3 DEF WindowTypeOK
  <1>5. SavesItsState'
    BY <1>3 DEF SavesItsState, FileNeverTorn
  <1>6. tick' \in [role : Roles, max : Nat, zone : Zones, resume : {"idle", "evaluate"}]
        /\ tick'.max = tick.max
    BY <1>1 DEF Halt, StayHalted, Restore, ControlTypeOK
  <1>7. TickCeiling'
    BY <1>3, <1>6 DEF TickCeiling
  <1>8. /\ st' \in States /\ Sized(st'.size) /\ Sized(st'.lastSize)
        /\ Sized(pool') /\ pool' \in Nat /\ faults' \in FaultLog
        /\ above' \in 0 .. DownTicks /\ below' \in 0 .. UpTicks
    <2>1. CASE Halt
      <3>1. PICK reply \in Replies : SetPoolSize(0, reply)
        BY <2>1 DEF Halt
      <3>2. pool' \in {pool, 0} /\ faults' \in FaultLog
        BY <3>1, <1>2, SetPoolSizeEffect
      <3>3. st' = [lastRole |-> tick.role, lastSize |-> st.size,
                   suppressed |-> TRUE, size |-> 0]
        BY <2>1 DEF Halt
      <3>4. st' \in States /\ Sized(st'.size) /\ Sized(st'.lastSize)
        BY <3>3, <1>1, <1>2 DEF ControlTypeOK, States, Sized
      <3>5. above' \in 0 .. DownTicks /\ below' \in 0 .. UpTicks
        BY <2>1, TicksAssumption DEF Halt
      <3> QED BY <3>2, <3>4, <3>5, <1>2 DEF Sized
    <2>2. CASE StayHalted
      BY <2>2, <1>1, <1>2 DEF StayHalted, ControlTypeOK
    <2>3. CASE Restore
      <3>1. PICK reply \in Replies :
              /\ SetPoolSize(RestoreSize, reply)
              /\ IF reply = "applied"
                   THEN /\ st' = [lastRole |-> "primary", lastSize |-> st.lastSize,
                                  suppressed |-> FALSE, size |-> RestoreSize]
                        /\ above' = 0 /\ below' = 0
                   ELSE UNCHANGED <<st, counters>>
        BY <2>3 DEF Restore
      <3>2. RestoreSize \in Nat /\ RestoreSize \in Floor .. MaxConnections
        BY <1>2, RestoreSized
      <3>3. pool' \in {pool, RestoreSize} /\ faults' \in FaultLog
        BY <3>1, <1>2, SetPoolSizeEffect
      <3>4. CASE reply = "applied"
        <4>1. st' \in States /\ Sized(st'.size) /\ Sized(st'.lastSize)
          <5>1. st' = [lastRole |-> "primary", lastSize |-> st.lastSize,
                       suppressed |-> FALSE, size |-> RestoreSize]
            BY <3>1, <3>4
          <5>2. st.lastSize \in Nat /\ "primary" \in Roles
            BY <1>2 DEF States, Roles
          <5>3. st' \in States
            BY <5>1, <5>2, <3>2 DEF States
          <5> QED BY <5>1, <5>3, <3>2, <1>2 DEF Sized
        <4> QED BY <4>1, <3>1, <3>2, <3>3, <3>4, <1>2, TicksAssumption DEF Sized
      <3>5. CASE reply # "applied"
        BY <3>1, <3>2, <3>3, <3>5, <1>1, <1>2 DEF Sized, ControlTypeOK
      <3> QED BY <3>4, <3>5
    <2> QED BY <2>1, <2>2, <2>3
  <1>9. ControlTypeOK'
    BY <1>1, <1>3, <1>6, <1>8 DEF ControlTypeOK
  <1>10. SizesInv'
    BY <1>1, <1>3, <1>8 DEF SizesInv, StateSized, Sized
  <1> QED BY <1>4, <1>5, <1>7, <1>9, <1>10 DEF EngineTypeOK
(* Evaluating the load. *)
LEMMA LoadKeepsInv ==
    ASSUME EngineInv, Shrink \/ Grow \/ Count
    PROVE  EngineInv'
  <1> USE DEF EngineInv
  <1>1. EngineTypeOK /\ WindowTypeOK /\ ControlTypeOK /\ SizesInv
    BY DEF EngineTypeOK
  <1>2. st \in States /\ Sized(st.size) /\ Sized(st.lastSize) /\ Sized(pool)
        /\ pool \in Nat /\ faults \in FaultLog /\ st.size \in Nat
    BY <1>1 DEF ControlTypeOK, SizesInv, StateSized, States
  <1>3. UNCHANGED <<win, file, tmp>> /\ pc = "evaluate" /\ pc' = "save"
    BY DEF Shrink, Grow, Count, Finish
  <1>4. WindowTypeOK'
    BY <1>1, <1>3 DEF WindowTypeOK
  <1>5. tick' = [tick EXCEPT !.resume = "idle"]
    BY DEF Shrink, Grow, Count, Finish
  <1>6. tick' \in [role : Roles, max : Nat, zone : Zones, resume : {"idle", "evaluate"}]
        /\ tick'.resume = "idle"
    BY <1>1, <1>5 DEF ControlTypeOK
  <1>7. SavesItsState' /\ TickCeiling'
    BY <1>3, <1>6 DEF SavesItsState, FileNeverTorn, TickCeiling
  <1>8. /\ st' \in States /\ Sized(st'.size) /\ Sized(st'.lastSize)
        /\ Sized(pool') /\ pool' \in Nat /\ faults' \in FaultLog
    <2>1. ASSUME NEW size \in Nat, size \in Floor .. MaxConnections,
                 NEW reply \in Replies, Resize(size, reply)
          PROVE  /\ st' \in States /\ Sized(st'.size) /\ Sized(st'.lastSize)
                 /\ Sized(pool') /\ pool' \in Nat /\ faults' \in FaultLog
      <3>1. pool' \in {pool, size} /\ faults' \in FaultLog
        BY <2>1, <1>2, SetPoolSizeEffect DEF Resize
      <3>2. st' = IF reply = "applied" THEN [st EXCEPT !.size = size] ELSE st
        BY <2>1 DEF Resize
      <3>3. st' \in States /\ st'.size \in {size, st.size} /\ st'.lastSize = st.lastSize
        BY <3>2, <1>2 DEF States
      <3> QED BY <3>1, <3>3, <2>1, <1>2 DEF Sized
    <2>2. CASE Shrink
      BY <2>1, <2>2, <1>2, SmallerSized DEF Shrink
    <2>3. CASE Grow
      <3>1. tick.max \in Floor .. MaxConnections
        BY <1>3 DEF TickCeiling
      <3> QED BY <3>1, <2>1, <2>3, <1>2, LargerSized DEF Grow
    <2>4. CASE Count
      BY <2>4, <1>2 DEF Count
    <2> QED BY <2>2, <2>3, <2>4
  <1>9. above' \in 0 .. DownTicks /\ below' \in 0 .. UpTicks
    <2>1. above \in 0 .. DownTicks /\ below \in 0 .. UpTicks
      BY <1>1 DEF ControlTypeOK
    <2>2. CASE Shrink
      BY <2>1, <2>2, TicksAssumption DEF Shrink
    <2>3. CASE Grow
      BY <2>1, <2>3, TicksAssumption DEF Grow
    <2>4. CASE Count
      BY <2>1, <2>4, TicksAssumption DEF Count
    <2> QED BY <2>2, <2>3, <2>4
  <1>10. ControlTypeOK'
    BY <1>1, <1>3, <1>6, <1>8, <1>9 DEF ControlTypeOK
  <1>11. SizesInv'
    BY <1>1, <1>3, <1>8 DEF SizesInv, StateSized, Sized
  <1> QED BY <1>4, <1>7, <1>10, <1>11 DEF EngineTypeOK

(* Saving: what the rename puts in place is the state in memory. *)
LEMMA SaveKeepsInv ==
    ASSUME EngineInv, Save
    PROVE  EngineInv'
  <1> USE DEF EngineInv
  <1>1. EngineTypeOK /\ WindowTypeOK /\ ControlTypeOK /\ SizesInv /\ TickCeiling
    BY DEF EngineTypeOK
  <1>2. UNCHANGED <<win, st, above, below, pool>> /\ pc \in {"save", "write", "rename"}
    BY DEF Save, CreateTemp, WriteTemp, RenameTemp, SaveFails
  <1>3. WindowTypeOK'
    BY <1>1, <1>2 DEF WindowTypeOK
  <1>4. st \in States /\ StateSized(st)
    BY <1>1 DEF ControlTypeOK, SizesInv
  <1>5. ASSUME Resume
        PROVE  /\ pc' \in {"idle", "evaluate"} /\ TickCeiling'
               /\ tick' \in [role : Roles, max : Nat, zone : Zones, resume : {"idle", "evaluate"}]
    <2>1. tick.resume \in {"idle", "evaluate"} /\ pc' = tick.resume
      BY <1>1, <1>5 DEF ControlTypeOK, Resume
    <2>2. CASE tick.resume = "idle"
      BY <2>1, <2>2, <1>5 DEF Resume, NoTick, Zones, Roles, TickCeiling
    <2>3. CASE tick.resume = "evaluate"
      BY <2>1, <2>3, <1>1, <1>2, <1>5 DEF Resume, TickCeiling, ControlTypeOK
    <2> QED BY <2>1, <2>2, <2>3
  <1>6. CASE CreateTemp
    <2>1. SavesItsState' /\ TickCeiling' /\ SizesInv'
      BY <1>6, <1>1, <1>2 DEF CreateTemp, SavesItsState, FileNeverTorn, TickCeiling, SizesInv, StateSized, Sized
    <2>2. ControlTypeOK'
      BY <1>6, <1>1, <1>2 DEF CreateTemp, ControlTypeOK
    <2> QED BY <2>1, <2>2, <1>3 DEF EngineTypeOK
  <1>7. CASE WriteTemp
    <2>1. SavesItsState' /\ TickCeiling' /\ SizesInv'
      BY <1>7, <1>1, <1>2 DEF WriteTemp, SavesItsState, FileNeverTorn, TickCeiling, SizesInv, StateSized, Sized
    <2>2. ControlTypeOK'
      BY <1>7, <1>1, <1>2 DEF WriteTemp, ControlTypeOK
    <2> QED BY <2>1, <2>2, <1>3 DEF EngineTypeOK
  <1>8. CASE RenameTemp
    <2>1. file' = st /\ tmp' = NoFile /\ Resume /\ UNCHANGED faults
      BY <1>8 DEF RenameTemp, SavesItsState, FileNeverTorn
    <2>2. SavesItsState' /\ SizesInv'
      BY <2>1, <1>1, <1>2, <1>4, <1>5, FilesAssumption
      DEF SavesItsState, FileNeverTorn, SizesInv, StateSized, Sized
    <2>3. ControlTypeOK'
      BY <2>1, <1>1, <1>2, <1>4, <1>5 DEF ControlTypeOK
    <2> QED BY <2>1, <2>2, <2>3, <1>3, <1>5 DEF EngineTypeOK
  <1>9. CASE SaveFails
    <2>1. UNCHANGED <<file, tmp>> /\ Resume /\ faults' \in FaultLog
      BY <1>9, <1>1, FaultLogged DEF SaveFails, ControlTypeOK
    <2>2. SavesItsState' /\ SizesInv'
      BY <2>1, <1>1, <1>2, <1>5 DEF SavesItsState, FileNeverTorn, SizesInv, StateSized, Sized
    <2>3. ControlTypeOK'
      BY <2>1, <1>1, <1>2, <1>5 DEF ControlTypeOK
    <2> QED BY <2>1, <2>2, <2>3, <1>3, <1>5 DEF EngineTypeOK
  <1> QED BY <1>6, <1>7, <1>8, <1>9 DEF Save
(* Starting, dying, and what goes on around the engine. *)
LEMMA EnvironmentKeepsInv ==
    ASSUME EngineInv, Boot \/ DrainPush \/ Crash \/ PoolRestart
    PROVE  EngineInv'
  <1> USE DEF EngineInv
  <1>1. EngineTypeOK /\ WindowTypeOK /\ ControlTypeOK /\ SizesInv /\ TickCeiling
    BY DEF EngineTypeOK
  <1>2. DefaultPoolSize \in Nat /\ IniSize \in Nat
    BY SizingAssumption
  <1>3. FreshState \in States /\ StateSized(FreshState)
    <2>1. FreshState \in States
      BY <1>2 DEF FreshState, States, Roles
    <2>2. Sized(FreshState.size) /\ Sized(FreshState.lastSize)
      BY SizingAssumption DEF FreshState, Sized
    <2> QED BY <2>1, <2>2 DEF StateSized
  <1>4. CASE Boot
    <2>1. UNCHANGED <<win, tick, above, below, file, tmp, pool>> /\ pc = "down" /\ pc' = "idle"
      BY <1>4 DEF Boot
    <2> DEFINE loaded == IF file = NoFile THEN FreshState ELSE file
    <2>2. loaded \in States /\ StateSized(loaded)
      BY <1>1, <1>3, <1>4 DEF Boot, ControlTypeOK, SizesInv
    <2>3. \/ st' = [loaded EXCEPT !.size = pool] /\ UNCHANGED faults
          \/ st' = loaded /\ Fault("query")
      BY <1>4 DEF Boot
    <2> HIDE DEF loaded
    <2>4. pool \in Nat /\ Sized(pool) /\ faults \in FaultLog
      BY <1>1 DEF ControlTypeOK, SizesInv
    <2>5. st' \in States /\ Sized(st'.size) /\ Sized(st'.lastSize)
      BY <2>2, <2>3, <2>4 DEF States, StateSized, Sized
    <2>6. faults' \in FaultLog
      BY <2>3, <2>4, FaultLogged
    <2>7. ControlTypeOK'
      BY <1>1, <2>1, <2>5, <2>6 DEF ControlTypeOK
    <2>8. SavesItsState' /\ TickCeiling' /\ SizesInv'
      BY <1>1, <2>1, <2>5 DEF SavesItsState, FileNeverTorn, TickCeiling, SizesInv, StateSized, Sized
    <2>9. WindowTypeOK'
      BY <1>1, <2>1 DEF WindowTypeOK
    <2> QED BY <2>7, <2>8, <2>9 DEF EngineTypeOK
  <1>5. CASE DrainPush
    <2>1. UNCHANGED <<pc, tick, st, above, below, file, tmp, pool, faults>>
      BY <1>5 DEF DrainPush
    <2>2. WindowTypeOK'
      BY <1>1, <1>5, PushKeepsWindow DEF DrainPush
    <2>3. ControlTypeOK' /\ SavesItsState' /\ TickCeiling' /\ SizesInv'
      BY <1>1, <2>1 DEF ControlTypeOK, SavesItsState, FileNeverTorn, TickCeiling, SizesInv, StateSized, Sized
    <2> QED BY <2>2, <2>3 DEF EngineTypeOK
  <1>6. CASE Crash
    <2>1. /\ pc' = "down" /\ tick' = NoTick /\ st' = FreshState
          /\ above' = 0 /\ below' = 0 /\ win' = <<>>
          /\ UNCHANGED <<file, tmp, pool>>
      BY <1>6 DEF Crash
    <2>2. faults' \in FaultLog
      BY <1>1, <1>6, FaultLogged DEF Crash, ControlTypeOK
    <2>3. tick' \in [role : Roles, max : Nat, zone : Zones, resume : {"idle", "evaluate"}]
      BY <2>1 DEF NoTick, Zones, Roles
    <2>4. WindowTypeOK'
      BY <2>1, WindowSizeAssumption DEF WindowTypeOK
    <2>5. ControlTypeOK'
      BY <1>1, <1>3, <2>1, <2>2, <2>3, TicksAssumption DEF ControlTypeOK
    <2>6. SavesItsState' /\ TickCeiling'
      BY <2>1 DEF SavesItsState, FileNeverTorn, TickCeiling
    <2>7. SizesInv'
      BY <1>1, <1>3, <2>1 DEF SizesInv, StateSized, Sized
    <2> QED BY <2>4, <2>5, <2>6, <2>7 DEF EngineTypeOK
  <1>7. CASE PoolRestart
    <2>1. pool' = IniSize /\ UNCHANGED <<win, pc, tick, st, above, below, file, tmp>>
      BY <1>7 DEF PoolRestart
    <2>2. faults' \in FaultLog
      BY <1>1, <1>7, FaultLogged DEF PoolRestart, ControlTypeOK
    <2>3. WindowTypeOK' /\ SavesItsState' /\ TickCeiling'
      BY <1>1, <2>1 DEF WindowTypeOK, SavesItsState, FileNeverTorn, TickCeiling
    <2>4. ControlTypeOK'
      BY <1>1, <1>2, <2>1, <2>2 DEF ControlTypeOK
    <2>5. SizesInv'
      BY <1>1, <2>1, SizingAssumption DEF SizesInv, StateSized, Sized
    <2> QED BY <2>3, <2>4, <2>5 DEF EngineTypeOK
  <1> QED BY <1>4, <1>5, <1>6, <1>7

LEMMA EngineInvNext == EngineInv /\ [EngineNext]_engineVars => EngineInv'
  <1> SUFFICES ASSUME EngineInv, [EngineNext]_engineVars PROVE EngineInv'
    OBVIOUS
  <1>1. CASE EngineNext
    BY <1>1, ReadsKeepInv, FailoverKeepsInv, LoadKeepsInv, SaveKeepsInv, EnvironmentKeepsInv
    DEF EngineNext, EngineStep
  <1>2. CASE UNCHANGED engineVars
    <2>1. UNCHANGED <<win, pc, tick, st, above, below, file, tmp, pool, faults>>
      BY <1>2 DEF engineVars
    <2> QED BY <2>1 DEF EngineInv, EngineTypeOK, WindowTypeOK, ControlTypeOK, SavesItsState, FileNeverTorn,
                        TickCeiling, SizesInv, StateSized, Sized
  <1> QED BY <1>1, <1>2

LEMMA EngineInvariant == EngineSpec => []EngineInv
  BY EngineInvInit, EngineInvNext, PTL DEF EngineSpec

(* Every variable of the engine keeps its type. *)
THEOREM EngineTypeCorrect == EngineSpec => []EngineTypeOK
  <1>1. EngineInv => EngineTypeOK
    BY DEF EngineInv
  <1> QED BY <1>1, EngineInvariant, PTL

(* state.go, saveStateFile: the file a new process loads is absent or a
   complete state, wherever a save was cut off or failed. *)
THEOREM FileAlwaysReadable == EngineSpec => []FileNeverTorn
  <1>1. EngineInv => FileNeverTorn
    BY DEF EngineInv, SavesItsState
  <1> QED BY <1>1, EngineInvariant, PTL

(* engine.go:33: through any number of refused and unanswered commands, failed
   saves, crashes, restarts of PgBouncer and stale readings, the pool clients
   get is halted or between the floor and the server's limit. *)
THEOREM PoolSizeAlwaysSafe == EngineSpec => []PoolSizeSafe
  <1>1. EngineInv => PoolSizeSafe
    BY DEF EngineInv, SizesInv, PoolSizeSafe
  <1> QED BY <1>1, EngineInvariant, PTL

---------------------------------------------------------------------------
(* What the engine guarantees under restricted faults: how far its idea of
   the pool can drift from PgBouncer's, that a suppressed engine means an
   empty pool, and that it implements the abstract valve of PoolValve. *)

QuietStep ==
    ReadRole \/ SkipTick \/ ReadLatest \/ ReadAverage \/ StayHalted \/ Save \/ DrainPush

(* The steps that leave the state in memory and PgBouncer alone: all those
   that do not boot, command, evaluate, crash or restart. *)
LEMMA QuietStepsChangeNothing ==
    ASSUME EngineInv, QuietStep
    PROVE  UNCHANGED <<st, pool>> /\ (pc = "down" <=> pc' = "down")
  <1>1. CASE ReadRole \/ SkipTick \/ ReadLatest \/ ReadAverage \/ StayHalted \/ DrainPush
    BY <1>1 DEF ReadRole, SkipTick, ReadLatest, ReadAverage, StayHalted, DrainPush
  <1>2. CASE Save
    <2>1. tick.resume \in {"idle", "evaluate"}
      BY DEF EngineInv, EngineTypeOK, ControlTypeOK
    <2> QED BY <1>2, <2>1 DEF Save, CreateTemp, WriteTemp, RenameTemp, SaveFails, Resume
  <1> QED BY <1>1, <1>2 DEF QuietStep

(* What the invariant says of the sizes in memory. *)
LEMMA StateInMemory ==
    ASSUME EngineInv
    PROVE  /\ st \in States /\ Sized(st.size) /\ Sized(st.lastSize) /\ st.size \in Nat
           /\ pool \in Nat /\ faults \in FaultLog
           /\ pc = "evaluate" => tick.max \in Floor .. MaxConnections
  BY DEF EngineInv, EngineTypeOK, ControlTypeOK, SizesInv, StateSized, TickCeiling, States

(* What has happened stays known: a step that ends without a fault of some
   kind on record began without one, and was not one. *)
LEMMA FaultsOnlyGrow ==
    ASSUME EngineInv, [EngineNext]_engineVars
    PROVE  faults.kinds \subseteq faults'.kinds
  <1>1. ASSUME NEW kind, Fault(kind) PROVE faults.kinds \subseteq faults'.kinds
    BY <1>1, StateInMemory, FaultLogged
  <1>2. ASSUME NEW size, NEW reply, SetPoolSize(size, reply)
        PROVE  faults.kinds \subseteq faults'.kinds
    BY <1>1, <1>2 DEF SetPoolSize
  <1>3. CASE Halt \/ Restore \/ Shrink \/ Grow
    <2>1. PICK size, reply : SetPoolSize(size, reply)
      BY <1>3 DEF Halt, Restore, Shrink, Grow, Resize
    <2> QED BY <1>2, <2>1
  <1>4. CASE Boot
    <2>1. UNCHANGED faults \/ Fault("query")
      BY <1>4 DEF Boot
    <2> QED BY <1>1, <2>1
  <1>5. CASE SaveFails \/ Crash \/ PoolRestart
    BY <1>1, <1>5 DEF SaveFails, Crash, PoolRestart
  <1>6. CASE \/ ReadRole \/ SkipTick \/ ReadLatest \/ ReadAverage \/ StayHalted \/ Count
             \/ CreateTemp \/ WriteTemp \/ RenameTemp \/ DrainPush
    BY <1>6 DEF ReadRole, SkipTick, ReadLatest, ReadAverage, StayHalted, Count,
                CreateTemp, WriteTemp, RenameTemp, DrainPush
  <1>7. CASE UNCHANGED engineVars
    BY <1>7 DEF engineVars
  <1> QED BY <1>3, <1>4, <1>5, <1>6, <1>7 DEF EngineNext, EngineStep, Save

LEMMA NotRecordedNotCaused ==
    ASSUME EngineInv, NEW kind, kind \notin faults'.kinds
    PROVE  ~Fault(kind)
  BY StateInMemory, FaultLogged

---------------------------------------------------------------------------
(* What the disk remembers. *)

(* A first boot is not suppressed (engine.go:101). *)
LEMMA FreshIsOpen == FreshState \in States /\ ~FreshState.suppressed
  BY SizingAssumption DEF FreshState, States, Roles

(* The state a process that starts now would load. *)
Saved == IF file = NoFile THEN FreshState ELSE file
SavedAs(s) == /\ Saved.suppressed = s.suppressed
              /\ Saved.lastSize = s.lastSize
              /\ Saved.lastRole = s.lastRole

LEMMA RemembersInit == EngineInit => RemembersOnDisk
  BY DEF EngineInit, RemembersOnDisk, Quiet

(* The steps between two saves change neither the disk nor the memory, and
   those that change memory are followed by a save. *)
LEMMA RemembersNext == EngineInv /\ RemembersOnDisk /\ [EngineNext]_engineVars => RemembersOnDisk'
  <1> SUFFICES ASSUME EngineInv, RemembersOnDisk, [EngineNext]_engineVars,
                      "save" \notin faults'.kinds, pc' \in Quiet
               PROVE  SavedAs(st)'
    BY DEF RemembersOnDisk, SavedAs, Saved
  <1>1. pc \in Quiet => SavedAs(st)
    BY FaultsOnlyGrow DEF RemembersOnDisk, SavedAs, Saved
  <1>2. st \in States /\ file \in States \cup {NoFile, Torn} /\ file # Torn
    BY DEF EngineInv, EngineTypeOK, ControlTypeOK, SavesItsState, FileNeverTorn
  <1>3. ASSUME pc \in Quiet, UNCHANGED <<st, file>> PROVE SavedAs(st)'
    BY <1>1, <1>3 DEF SavedAs, Saved
  <1>4. CASE Boot
    <2>1. Saved \in States
      BY <1>2, FreshIsOpen DEF Saved
    <2>2. \E size : st' = [Saved EXCEPT !.size = size]
      <3>1. st' = [Saved EXCEPT !.size = pool] \/ st' = Saved
        BY <1>4 DEF Boot, Saved
      <3>2. [Saved EXCEPT !.size = Saved.size] = Saved
        BY <2>1 DEF States
      <3> QED BY <3>1, <3>2
    <2>3. SavedAs(st')
      BY <2>1, <2>2 DEF SavedAs, States
    <2>4. UNCHANGED file
      BY <1>4 DEF Boot
    <2> QED BY <2>3, <2>4 DEF SavedAs, Saved
  <1>5. CASE ReadRole \/ SkipTick \/ ReadLatest \/ ReadAverage
    BY <1>3, <1>5 DEF ReadRole, SkipTick, ReadLatest, ReadAverage, Quiet
  <1>6. CASE Halt \/ StayHalted \/ Restore \/ Shrink \/ Grow \/ Count
    BY <1>6 DEF Halt, StayHalted, Restore, Shrink, Grow, Count, Finish, Quiet
  <1>7. CASE CreateTemp \/ WriteTemp
    BY <1>7 DEF CreateTemp, WriteTemp, Quiet
  <1>8. CASE RenameTemp
    <2>1. file' = st /\ UNCHANGED st /\ file' # NoFile
      BY <1>2, <1>8, FilesAssumption DEF RenameTemp, EngineInv, SavesItsState
    <2> QED BY <2>1 DEF SavedAs, Saved
  <1>9. CASE SaveFails
    BY <1>9, NotRecordedNotCaused DEF SaveFails
  <1>10. CASE DrainPush
    BY <1>3, <1>10 DEF DrainPush
  <1>11. CASE Crash
    BY <1>11 DEF Crash, Quiet
  <1>12. CASE PoolRestart
    BY <1>3, <1>12 DEF PoolRestart
  <1>13. CASE UNCHANGED engineVars
    BY <1>3, <1>13 DEF engineVars
  <1> QED BY <1>4, <1>5, <1>6, <1>7, <1>8, <1>9, <1>10, <1>11, <1>12, <1>13
          DEF EngineNext, EngineStep, Save

(* state.go:6: unless a save failed, whatever else went wrong, a crash between
   the end of a tick and the next command loses neither the suppression nor
   the size to restore, and the process after it loads them both. *)
THEOREM StateSurvivesRestarts == EngineSpec => []RemembersOnDisk
  BY EngineInvariant, RemembersInit, RemembersNext, PTL DEF EngineSpec

---------------------------------------------------------------------------
(* The drift between memory and PgBouncer. *)

LEMMA DriftInit == EngineInit => DriftBounded
  BY DEF EngineInit, DriftBounded

LEMMA DriftNext == EngineInv /\ DriftBounded /\ [EngineNext]_engineVars => DriftBounded'
  <1> SUFFICES ASSUME EngineInv, DriftBounded, [EngineNext]_engineVars,
                      faults'.kinds \cap {"poolRestart", "query"} = {},
                      pc' # "down", ~st'.suppressed
               PROVE  pool' - st'.size \in -Step .. Step
    BY DEF DriftBounded
  <1>1. Step \in Nat /\ 0 \in -Step .. Step
    BY SizingAssumption
  <1>2. /\ st \in States /\ Sized(st.size) /\ Sized(st.lastSize) /\ st.size \in Nat
        /\ pool \in Nat /\ faults \in FaultLog
        /\ pc = "evaluate" => tick.max \in Floor .. MaxConnections
    BY StateInMemory
  <1>3. pc # "down" /\ ~st.suppressed => pool - st.size \in -Step .. Step
    BY FaultsOnlyGrow DEF DriftBounded
  <1>4. CASE QuietStep
    BY <1>3, <1>4, QuietStepsChangeNothing
  <1>5. CASE Boot
    <2>1. ~Fault("query")
      BY NotRecordedNotCaused
    <2>2. pool' = pool /\ st'.size = pool
      <3> DEFINE loaded == IF file = NoFile THEN FreshState ELSE file
      <3>1. st' = [loaded EXCEPT !.size = pool] /\ UNCHANGED pool
        BY <1>5, <2>1 DEF Boot
      <3>2. loaded \in States
        <4>1. FreshState \in States
          BY SizingAssumption DEF FreshState, States, Roles
        <4> QED BY <4>1, <1>5 DEF Boot, EngineInv, EngineTypeOK, ControlTypeOK
      <3> HIDE DEF loaded
      <3> QED BY <3>1, <3>2 DEF States
    <2> QED BY <1>1, <1>2, <2>2
  <1>6. CASE Halt
    BY <1>6 DEF Halt
  <1>7. CASE Restore
    <2>1. PICK reply \in Replies :
            /\ SetPoolSize(RestoreSize, reply)
            /\ IF reply = "applied"
                 THEN /\ st' = [lastRole |-> "primary", lastSize |-> st.lastSize,
                                suppressed |-> FALSE, size |-> RestoreSize]
                      /\ above' = 0 /\ below' = 0
                 ELSE UNCHANGED <<st, counters>>
      BY <1>7 DEF Restore
    <2>2. reply = "applied"
      BY <2>1, <1>7 DEF Restore
    <2>3. pool' = RestoreSize /\ st'.size = RestoreSize
      BY <2>1, <2>2, <1>2, SetPoolSizeEffect
    <2>4. RestoreSize \in Nat
      BY <1>2, RestoreSized
    <2> QED BY <1>1, <2>3, <2>4
  <1>8. ASSUME NEW size \in Nat, NEW reply \in Replies, Resize(size, reply),
               size - st.size \in -Step .. Step, pc = "evaluate"
        PROVE  pool' - st'.size \in -Step .. Step
    <2>1. pool' \in {pool, size} /\ (reply = "applied" => pool' = size)
      BY <1>8, <1>2, SetPoolSizeEffect DEF Resize
    <2>2. st' = IF reply = "applied" THEN [st EXCEPT !.size = size] ELSE st
      BY <1>8 DEF Resize
    <2>3. CASE reply = "applied"
      <3>1. st'.size = size
        BY <2>2, <2>3, <1>2 DEF States
      <3> QED BY <3>1, <2>1, <2>3, <1>1, <1>8
    <2>4. CASE reply # "applied"
      <3>1. st' = st
        BY <2>2, <2>4
      <3> QED BY <3>1, <2>1, <1>3, <1>8
    <2> QED BY <2>3, <2>4
  <1>9. CASE Shrink
    <2>1. PICK reply \in Replies : Resize(Smaller(st.size), reply)
      BY <1>9 DEF Shrink
    <2>2. Smaller(st.size) \in Nat /\ st.size - Smaller(st.size) \in 0 .. Step
      BY <1>9, <1>2, SmallerSized DEF Shrink
    <2>3. Smaller(st.size) - st.size \in -Step .. Step
      BY <2>2, <1>1, <1>2
    <2> QED BY <1>8, <1>9, <2>1, <2>2, <2>3 DEF Shrink
  <1>10. CASE Grow
    <2>1. PICK reply \in Replies : Resize(Larger(st.size, tick.max), reply)
      BY <1>10 DEF Grow
    <2>2. Larger(st.size, tick.max) \in Nat /\ Larger(st.size, tick.max) - st.size \in 0 .. Step
      BY <1>10, <1>2, LargerSized DEF Grow
    <2>3. Larger(st.size, tick.max) - st.size \in -Step .. Step
      BY <2>2, <1>1
    <2> QED BY <1>8, <1>10, <2>1, <2>2, <2>3 DEF Grow
  <1>11. CASE Count
    BY <1>3, <1>11 DEF Count
  <1>12. CASE Crash
    BY <1>12 DEF Crash
  <1>13. CASE PoolRestart
    BY <1>13, NotRecordedNotCaused DEF PoolRestart
  <1>14. CASE UNCHANGED engineVars
    BY <1>3, <1>14 DEF engineVars
  <1> QED BY <1>4, <1>5, <1>6, <1>7, <1>9, <1>10, <1>11, <1>12, <1>13, <1>14
          DEF EngineNext, EngineStep, QuietStep

(* state.go:35: as long as PgBouncer is not restarted behind the engine and
   answers when the agent starts, refused and unanswered commands, failed
   saves and crashes put the tracked size at most one step off. *)
THEOREM DriftAlwaysBounded == EngineSpec => []DriftBounded
  BY EngineInvariant, DriftInit, DriftNext, PTL DEF EngineSpec
---------------------------------------------------------------------------
(* The hard halt, when commands are obeyed. *)

LEMMA ObedientInit == EngineInit => ObedientInv
  <1> SUFFICES ASSUME EngineInit PROVE ObedientInv
    OBVIOUS
  <1>1. pc = "down" /\ file = NoFile /\ ~st.suppressed
    BY FreshIsOpen DEF EngineInit
  <1> QED BY <1>1 DEF ObedientInv

(* As long as no command was lost or refused, every answer was "applied". *)
LEMMA ObeyedCommand ==
    ASSUME EngineInv, Obedient', NEW size, NEW reply, SetPoolSize(size, reply)
    PROVE  reply = "applied" /\ pool' = size
  BY NotRecordedNotCaused DEF Obedient, SetPoolSize

LEMMA ObedientNext == EngineInv /\ ObedientInv /\ [EngineNext]_engineVars => ObedientInv'
  <1> SUFFICES ASSUME EngineInv, ObedientInv, [EngineNext]_engineVars
               PROVE  ObedientInv'
    OBVIOUS
  <1> SUFFICES ASSUME Obedient'
               PROVE  /\ st'.suppressed => pool' = 0
                      /\ pc' = "down" => file' = NoFile /\ ~st'.suppressed
                      /\ pc' = "evaluate" => ~st'.suppressed
                      /\ pc' \in {"latest", "average", "decide"} => tick'.resume = "idle"
                      /\ pc' \in {"save", "write", "rename"} /\ tick'.resume = "evaluate"
                            => ~st'.suppressed
    BY Zenon DEF ObedientInv
  <1>1. /\ st.suppressed => pool = 0
        /\ pc = "down" => file = NoFile /\ ~st.suppressed
        /\ pc = "evaluate" => ~st.suppressed
        /\ pc \in {"latest", "average", "decide"} => tick.resume = "idle"
        /\ pc \in {"save", "write", "rename"} /\ tick.resume = "evaluate" => ~st.suppressed
    BY FaultsOnlyGrow DEF ObedientInv, Obedient
  <1>2. st \in States /\ tick \in [role : Roles, max : Nat, zone : Zones, resume : {"idle", "evaluate"}]
    BY DEF EngineInv, EngineTypeOK, ControlTypeOK
  <1>3. ~Fault("crash") /\ ~Fault("poolRestart")
    BY NotRecordedNotCaused DEF Obedient
  <1>4. CASE Boot
    <2>1. UNCHANGED pool /\ pc' = "idle" /\ file = NoFile
      BY <1>1, <1>4 DEF Boot
    <2>2. st' = [FreshState EXCEPT !.size = pool] \/ st' = FreshState
      BY <1>4, <2>1 DEF Boot
    <2>3. ~st'.suppressed
      BY <2>2, FreshIsOpen DEF States
    <2> QED BY <2>1, <2>3
  <1>5. CASE DrainPush
    BY <1>1, <1>5 DEF DrainPush
  <1>6. CASE ReadRole \/ SkipTick \/ ReadLatest
    BY <1>1, <1>2, <1>6 DEF ReadRole, SkipTick, ReadLatest, NoTick
  <1>7. CASE ReadAverage
    BY <1>1, <1>2, <1>7 DEF ReadAverage
  <1>8. CASE Halt
    <2>1. PICK reply \in Replies : SetPoolSize(0, reply)
      BY <1>8 DEF Halt
    <2>2. pool' = 0
      BY <2>1, ObeyedCommand
    <2>3. tick.resume = "idle"
      BY <1>1, <1>8 DEF Halt
    <2> QED BY <1>8, <2>2, <2>3 DEF Halt
  <1>9. CASE StayHalted
    BY <1>1, <1>9 DEF StayHalted
  <1>10. CASE Restore
    <2>1. PICK reply \in Replies :
            /\ SetPoolSize(RestoreSize, reply)
            /\ IF reply = "applied"
                 THEN /\ st' = [lastRole |-> "primary", lastSize |-> st.lastSize,
                                suppressed |-> FALSE, size |-> RestoreSize]
                      /\ above' = 0 /\ below' = 0
                 ELSE UNCHANGED <<st, counters>>
      BY <1>10 DEF Restore
    <2>2. ~st'.suppressed
      BY <2>1, ObeyedCommand
    <2> QED BY <1>10, <2>2 DEF Restore
  <1>11. CASE Shrink \/ Grow \/ Count
    <2>1. pc = "evaluate" /\ pc' = "save" /\ ~st.suppressed
      BY <1>1, <1>11 DEF Shrink, Grow, Count, Finish
    <2>2. st' = st \/ \E size : st' = [st EXCEPT !.size = size]
      BY <1>11 DEF Shrink, Grow, Count, Resize
    <2>3. ~st'.suppressed
      BY <2>1, <2>2, <1>2 DEF States
    <2> QED BY <2>1, <2>3
  <1>12. CASE Save
    BY <1>1, <1>2, <1>12 DEF Save, CreateTemp, WriteTemp, RenameTemp, SaveFails, Resume, NoTick
  <1>13. CASE Crash
    BY <1>3, <1>13 DEF Crash
  <1>14. CASE PoolRestart
    BY <1>3, <1>14 DEF PoolRestart
  <1>15. CASE UNCHANGED engineVars
    BY <1>1, <1>15 DEF engineVars
  <1> QED BY <1>4, <1>5, <1>6, <1>7, <1>8, <1>9, <1>10, <1>11, <1>12, <1>13, <1>14, <1>15
          DEF EngineNext, EngineStep
LEMMA ObedientInvariant == EngineSpec => []ObedientInv
  BY EngineInvariant, ObedientInit, ObedientNext, PTL DEF EngineSpec


(* Every tick, obeyed or not: the load is evaluated only if the role is not one
   to halt for, and a tick that found such a role is suppressed when it saves. *)
LEMMA HaltingNext == EngineInv /\ HaltingInv /\ [EngineNext]_engineVars => HaltingInv'
  <1> SUFFICES ASSUME EngineInv, HaltingInv, [EngineNext]_engineVars
               PROVE  HaltingInv'
    OBVIOUS
  <1> USE DEF HaltingInv, Saving
  <1>1. st \in States /\ tick \in [role : Roles, max : Nat, zone : Zones, resume : {"idle", "evaluate"}]
    BY DEF EngineInv, EngineTypeOK, ControlTypeOK
  <1>2. CASE Boot \/ Crash
    BY <1>2 DEF Boot, Crash
  <1>3. CASE DrainPush \/ PoolRestart
    BY <1>3 DEF DrainPush, PoolRestart, Halting
  <1>4. CASE ReadRole \/ SkipTick \/ ReadLatest
    BY <1>1, <1>4 DEF ReadRole, SkipTick, ReadLatest, NoTick
  <1>5. CASE ReadAverage
    <2>1. tick'.role = tick.role /\ tick'.resume = tick.resume
      BY <1>1, <1>5 DEF ReadAverage
    <2>2. pc = "average" /\ (pc' = "decide" \/ (pc' = "evaluate" /\ ~Halting(tick.role)))
      BY <1>5 DEF ReadAverage
    <2> QED BY <2>1, <2>2 DEF Halting
  <1>6. CASE Halt \/ StayHalted
    <2>1. pc' = "save" /\ UNCHANGED tick /\ tick.resume = "idle"
      BY <1>6 DEF Halt, StayHalted
    <2>2. st'.suppressed
      BY <1>6 DEF Halt, StayHalted
    <2> QED BY <2>1, <2>2 DEF Halting
  <1>7. CASE Restore
    <2>1. pc' = "save" /\ tick'.role = tick.role /\ ~Halting(tick.role)
      BY <1>1, <1>7 DEF Restore
    <2> QED BY <2>1 DEF Halting
  <1>8. CASE Shrink \/ Grow \/ Count
    <2>1. pc = "evaluate" /\ pc' = "save" /\ tick'.role = tick.role
      BY <1>1, <1>8 DEF Shrink, Grow, Count, Finish
    <2> QED BY <2>1 DEF Halting
  <1>9. CASE CreateTemp \/ WriteTemp
    BY <1>9 DEF CreateTemp, WriteTemp, Halting
  <1>10. CASE RenameTemp \/ SaveFails
    <2>1. pc \in Saving /\ pc' = tick.resume /\ (pc' = "evaluate" => UNCHANGED tick)
      BY <1>10 DEF RenameTemp, SaveFails, Resume
    <2> QED BY <1>1, <2>1 DEF Halting
  <1>11. CASE UNCHANGED engineVars
    BY <1>11 DEF engineVars, Halting
  <1> QED BY <1>2, <1>3, <1>4, <1>5, <1>6, <1>7, <1>8, <1>9, <1>10, <1>11
          DEF EngineNext, EngineStep, Save

(* engine.go:65: a tick that finds the node not primary ends suppressed; and
   when PgBouncer executes every command and neither it nor the agent is
   restarted, a suppressed engine means an empty pool, at every moment,
   whatever the window shows and whichever saves fail. *)
THEOREM HaltAlwaysHolds == EngineSpec => []HaltHolds
  <1>1. EngineInit => HaltingInv
    BY DEF EngineInit, HaltingInv, Saving
  <1>2. ObedientInv /\ HaltingInv => HaltHolds
    BY DEF ObedientInv, HaltingInv, HaltHolds
  <1> QED BY <1>1, <1>2, HaltingNext, EngineInvariant, ObedientInvariant, PTL DEF EngineSpec

---------------------------------------------------------------------------
(* The refinement of the abstract valve. *)

LEMMA TrackedInit == EngineInit => Tracked
  BY DEF EngineInit, Tracked

LEMMA TrackedNext ==
    EngineInv /\ ObedientInv /\ Tracked /\ [EngineNext]_engineVars => Tracked'
  <1> SUFFICES ASSUME EngineInv, ObedientInv, Tracked, [EngineNext]_engineVars
               PROVE  Tracked'
    OBVIOUS
  <1> SUFFICES ASSUME Faithful', pc' # "down", ~st'.suppressed
               PROVE  pool' = st'.size
    BY DEF Tracked
  <1>1. Faithful /\ Obedient /\ Obedient'
    BY FaultsOnlyGrow DEF Faithful, Obedient
  <1>2. /\ st \in States /\ Sized(st.size) /\ Sized(st.lastSize) /\ st.size \in Nat
        /\ pool \in Nat /\ faults \in FaultLog
        /\ pc = "evaluate" => tick.max \in Floor .. MaxConnections
    BY StateInMemory
  <1>3. pc # "down" /\ ~st.suppressed => pool = st.size
    BY <1>1 DEF Tracked
  <1>4. ASSUME NEW kind, kind # "save" PROVE ~Fault(kind)
    BY <1>4, NotRecordedNotCaused DEF Faithful
  <1>5. CASE QuietStep
    BY <1>3, <1>5, QuietStepsChangeNothing
  <1>6. CASE Boot
    <2>1. file = NoFile /\ st' = [FreshState EXCEPT !.size = pool] /\ UNCHANGED pool
      BY <1>1, <1>4, <1>6 DEF Boot, ObedientInv
    <2> QED BY <2>1, FreshIsOpen DEF States
  <1>7. CASE Halt
    BY <1>7 DEF Halt
  <1>8. CASE Restore
    <2>1. PICK reply \in Replies :
            /\ SetPoolSize(RestoreSize, reply)
            /\ IF reply = "applied"
                 THEN /\ st' = [lastRole |-> "primary", lastSize |-> st.lastSize,
                                suppressed |-> FALSE, size |-> RestoreSize]
                      /\ above' = 0 /\ below' = 0
                 ELSE UNCHANGED <<st, counters>>
      BY <1>8 DEF Restore
    <2>2. reply = "applied" /\ pool' = RestoreSize
      BY <2>1, <1>1, ObeyedCommand
    <2> QED BY <2>1, <2>2
  <1>9. CASE Shrink \/ Grow
    <2>1. PICK size, reply : Resize(size, reply)
      BY <1>9 DEF Shrink, Grow
    <2>2. reply = "applied" /\ pool' = size
      BY <2>1, <1>1, ObeyedCommand DEF Resize
    <2>3. st' = [st EXCEPT !.size = size]
      BY <2>1, <2>2 DEF Resize
    <2> QED BY <2>2, <2>3, <1>2 DEF States
  <1>10. CASE Count
    BY <1>3, <1>10 DEF Count
  <1>11. CASE Crash
    BY <1>11 DEF Crash
  <1>12. CASE PoolRestart
    BY <1>4, <1>12 DEF PoolRestart
  <1>13. CASE UNCHANGED engineVars
    BY <1>3, <1>13 DEF engineVars
  <1> QED BY <1>5, <1>6, <1>7, <1>8, <1>9, <1>10, <1>11, <1>12, <1>13
          DEF EngineNext, EngineStep, QuietStep

LEMMA ValveInitMaps == EngineInit => Valve!ValveInit
  <1> SUFFICES ASSUME EngineInit PROVE Valve!ValveInit
    OBVIOUS
  <1>1. ~st.suppressed /\ pool \in Floor .. MaxConnections
    BY FreshIsOpen, SizingAssumption DEF EngineInit
  <1>2. Faithful
    BY DEF EngineInit, NoFaults, Faithful
  <1> QED BY <1>1, <1>2 DEF Valve!ValveInit, Valve!Sizes

(* Each step of a faithful engine is a step of the valve or leaves it alone. *)
LEMMA FaithfulStepMaps ==
    ASSUME EngineInv, ObedientInv, Tracked, [EngineNext]_engineVars, Faithful'
    PROVE  [Valve!ValveNext]_(Valve!valve)
  <1> DEFINE mode(s) == IF s.suppressed THEN "halted" ELSE "open"
  <1>1. Faithful /\ Obedient /\ Obedient'
    BY FaultsOnlyGrow DEF Faithful, Obedient
  <1>2. /\ st \in States /\ Sized(st.size) /\ Sized(st.lastSize) /\ st.size \in Nat
        /\ pool \in Nat /\ faults \in FaultLog
        /\ pc = "evaluate" => tick.max \in Floor .. MaxConnections
    BY StateInMemory
  <1>3. ASSUME NEW kind, kind # "save" PROVE ~Fault(kind)
    BY <1>3, NotRecordedNotCaused DEF Faithful
  <1>4. ASSUME UNCHANGED <<mode(st), pool>> PROVE [Valve!ValveNext]_(Valve!valve)
    BY <1>1, <1>4 DEF Valve!valve
  <1>5. CASE QuietStep
    BY <1>4, <1>5, QuietStepsChangeNothing
  <1>6. CASE Boot
    <2>1. file = NoFile /\ ~st.suppressed /\ UNCHANGED pool
          /\ st' = [FreshState EXCEPT !.size = pool]
      BY <1>1, <1>3, <1>6 DEF Boot, ObedientInv
    <2>2. ~st'.suppressed
      BY <2>1, FreshIsOpen DEF States
    <2> QED BY <1>4, <2>1, <2>2
  <1>7. CASE Halt
    <2>1. pool' = 0
      BY <1>1, <1>7, ObeyedCommand DEF Halt
    <2>2. ~st.suppressed /\ st'.suppressed
      BY <1>7 DEF Halt
    <2>3. Valve!HaltPool
      BY <1>1, <2>1, <2>2 DEF Valve!HaltPool
    <2> QED BY <2>3 DEF Valve!ValveNext
  <1>8. CASE Restore
    <2>1. PICK reply \in Replies :
            /\ SetPoolSize(RestoreSize, reply)
            /\ IF reply = "applied"
                 THEN /\ st' = [lastRole |-> "primary", lastSize |-> st.lastSize,
                                suppressed |-> FALSE, size |-> RestoreSize]
                      /\ above' = 0 /\ below' = 0
                 ELSE UNCHANGED <<st, counters>>
      BY <1>8 DEF Restore
    <2>2. reply = "applied" /\ pool' = RestoreSize
      BY <2>1, <1>1, ObeyedCommand
    <2>3. st.suppressed /\ ~st'.suppressed
      BY <2>1, <2>2, <1>8 DEF Restore
    <2>4. RestoreSize \in Floor .. MaxConnections
      BY <1>2, RestoreSized
    <2>5. Valve!ReopenPool
      BY <1>1, <2>2, <2>3, <2>4 DEF Valve!ReopenPool, Valve!Sizes
    <2> QED BY <2>5 DEF Valve!ValveNext
  <1>9. ASSUME NEW size \in Nat, NEW reply, Resize(size, reply), pc = "evaluate",
               size \in Floor .. MaxConnections, size - st.size \in -Step .. Step
        PROVE  [Valve!ValveNext]_(Valve!valve)
    <2>1. reply = "applied" /\ pool' = size
      BY <1>1, <1>9, ObeyedCommand DEF Resize
    <2>2. st' = [st EXCEPT !.size = size]
      BY <1>9, <2>1 DEF Resize
    <2>3. ~st.suppressed /\ ~st'.suppressed
      BY <1>1, <1>2, <1>9, <2>2 DEF ObedientInv, States
    <2>4. pool = st.size
      BY <1>1, <1>9, <2>3 DEF Tracked
    <2>5. Valve!ResizePool
      BY <1>1, <1>9, <2>1, <2>3, <2>4 DEF Valve!ResizePool, Valve!Sizes
    <2> QED BY <2>5 DEF Valve!ValveNext
  <1>10. CASE Shrink
    <2>1. PICK reply \in Replies : Resize(Smaller(st.size), reply)
      BY <1>10 DEF Shrink
    <2>2. /\ Smaller(st.size) \in Nat /\ Smaller(st.size) \in Floor .. MaxConnections
          /\ st.size - Smaller(st.size) \in 0 .. Step
      BY <1>10, <1>2, SmallerSized DEF Shrink
    <2>3. Smaller(st.size) - st.size \in -Step .. Step
      BY <2>2, <1>2, SizingAssumption
    <2> QED BY <1>9, <1>10, <2>1, <2>2, <2>3 DEF Shrink
  <1>11. CASE Grow
    <2>1. PICK reply \in Replies : Resize(Larger(st.size, tick.max), reply)
      BY <1>11 DEF Grow
    <2>2. /\ Larger(st.size, tick.max) \in Nat
          /\ Larger(st.size, tick.max) \in Floor .. MaxConnections
          /\ Larger(st.size, tick.max) - st.size \in 0 .. Step
      BY <1>11, <1>2, LargerSized DEF Grow
    <2>3. Larger(st.size, tick.max) - st.size \in -Step .. Step
      BY <2>2, SizingAssumption
    <2> QED BY <1>9, <1>11, <2>1, <2>2, <2>3 DEF Grow
  <1>12. CASE Count
    BY <1>4, <1>12 DEF Count
  <1>13. CASE Crash
    BY <1>3, <1>13 DEF Crash
  <1>14. CASE PoolRestart
    BY <1>3, <1>14 DEF PoolRestart
  <1>15. CASE UNCHANGED engineVars
    BY <1>4, <1>15 DEF engineVars
  <1> QED BY <1>5, <1>6, <1>7, <1>8, <1>10, <1>11, <1>12, <1>13, <1>14, <1>15
          DEF EngineNext, EngineStep, QuietStep

(* Any other step takes the valve astray, but not to an illegal size. *)
LEMMA ValveStepMaps ==
    ASSUME EngineInv, ObedientInv, Tracked, [EngineNext]_engineVars
    PROVE  [Valve!ValveNext]_(Valve!valve)
  <1>1. CASE ~Faithful'
    <2>1. Sized(pool')
      BY EngineInvNext DEF EngineInv, SizesInv, Sized
    <2>2. Valve!GoAstray
      BY <1>1, <2>1 DEF Valve!GoAstray, Valve!Sizes, Sized
    <2> QED BY <2>2 DEF Valve!ValveNext
  <1> QED BY <1>1, FaithfulStepMaps

(* engine.go:59-65: every behaviour of the control loop is a behaviour of the
   valve.  With nothing worse than failed saves a halted pool stays empty
   until the primary is back, and an open one moves one step at a time
   between the floor and the server's limit; after any other fault the sizes
   are still those a valve may have. *)
THEOREM EngineImplementsPoolValve == EngineSpec => ImplementsPoolValve
  <1>1. EngineInv /\ ObedientInv /\ Tracked /\ [EngineNext]_engineVars
          => [Valve!ValveNext]_(Valve!valve)
    BY ValveStepMaps
  <1> QED
    BY <1>1, EngineInvariant, ObedientInvariant, TrackedInit, TrackedNext, ValveInitMaps, PTL
    DEF EngineSpec, ImplementsPoolValve, Valve!ValveSpec
---------------------------------------------------------------------------
(* A resize is confirmed by consecutive ticks. *)

(* Why: the counters never exceed the runs they stand for, except while a halt
   is about to reset them.  A tick without a usable max_connections would keep
   the counters and end the run, but none comes that far; a suppressed engine
   has no counts, because it does not evaluate the load until it is restored. *)
CountsBacked ==
    NoCommandFailed =>
        /\ ~(pc = "decide" /\ Halting(tick.role)) => above <= run.high /\ below <= run.low
        /\ st.suppressed => above = 0 /\ below = 0
        /\ pc = "evaluate" => ~st.suppressed
        /\ pc \in {"latest", "average", "decide"} => tick.resume = "idle"
        /\ pc \in {"save", "write", "rename"} /\ tick.resume = "evaluate" => ~st.suppressed
RunInv ==
    /\ run \in [high : 0 .. RunCap, low : 0 .. RunCap]
    /\ tick.zone # "invalid"
    /\ pc = "down" => above = 0 /\ below = 0
    /\ CountsBacked

LEMMA RunCapCovers == RunCap \in Nat /\ RunCap >= DownTicks /\ RunCap >= UpTicks
  BY TicksAssumption DEF RunCap

(* A run that is extended stays a run, and has one tick more up to the cap. *)
LEMMA ExtendCounts ==
    ASSUME NEW n \in 0 .. RunCap
    PROVE  /\ Extend(n) \in 0 .. RunCap
           /\ Extend(n) = RunCap \/ Extend(n) = n + 1
  BY RunCapCovers DEF Extend

LEMMA HistoryStepsEngine == [HistoryNext]_historyVars => [EngineNext]_engineVars
  BY DEF HistoryNext, historyVars, engineVars

LEMMA HistoryInvariant == HistorySpec => []EngineInv
  <1>1. HistoryInit => EngineInv
    BY EngineInvInit DEF HistoryInit
  <1>2. EngineInv /\ [HistoryNext]_historyVars => EngineInv'
    BY HistoryStepsEngine, EngineInvNext
  <1> QED BY <1>1, <1>2, PTL DEF HistorySpec

LEMMA RunInit == HistoryInit => RunInv
  <1> SUFFICES ASSUME HistoryInit PROVE RunInv
    OBVIOUS
  <1>1. ~st.suppressed /\ above = 0 /\ below = 0 /\ pc = "down" /\ tick = NoTick /\ run = NoRun
    BY FreshIsOpen DEF HistoryInit, EngineInit
  <1>2. run \in [high : 0 .. RunCap, low : 0 .. RunCap] /\ run.high = 0 /\ run.low = 0
    BY <1>1, RunCapCovers DEF NoRun
  <1>3. tick.zone # "invalid"
    BY <1>1 DEF NoTick
  <1>4. CountsBacked
    BY <1>1, <1>2 DEF CountsBacked
  <1> QED BY <1>1, <1>2, <1>3, <1>4 DEF RunInv

(* What the steps leave of the locals of a tick. *)
LEMMA NewTick ==
    ASSUME tick' = NoTick \/ \E role : tick' = [NoTick EXCEPT !.role = role]
    PROVE  tick'.zone = "middle" /\ tick'.resume = "idle"
  <1>1. CASE tick' = NoTick
    BY <1>1 DEF NoTick
  <1>2. ASSUME NEW role, tick' = [NoTick EXCEPT !.role = role]
        PROVE  tick'.zone = "middle" /\ tick'.resume = "idle"
    BY <1>2 DEF NoTick
  <1> QED BY <1>1, <1>2

LEMMA TickFields ==
    ASSUME EngineInv
    PROVE  /\ \A max : tick' = [tick EXCEPT !.max = max] => tick'.zone = tick.zone /\ tick'.resume = tick.resume
           /\ \A zone : tick' = [tick EXCEPT !.zone = zone] => tick'.zone = zone /\ tick'.resume = tick.resume
           /\ \A resume : tick' = [tick EXCEPT !.resume = resume] => tick'.zone = tick.zone
  <1>1. tick \in [role : Roles, max : Nat, zone : Zones, resume : {"idle", "evaluate"}]
    BY DEF EngineInv, EngineTypeOK, ControlTypeOK
  <1> QED BY <1>1

(* The run changes only at the end of an evaluation, when a halt is decided
   and when the process ends. *)
LEMMA RunKept ==
    ASSUME HistoryNext, ~(pc = "evaluate" /\ pc' = "save"), pc' # "down",
           ~(pc = "decide" /\ Halting(tick.role))
    PROVE  UNCHANGED run
  BY DEF HistoryNext

(* The zone a tick finds is never the one of an unusable max_connections:
   PostgreSQL reported at least the floor. *)
LEMMA ZoneUsable ==
    ASSUME EngineInv, tick.zone # "invalid", [EngineNext]_engineVars
    PROVE  tick'.zone # "invalid"
  <1>1. CASE ReadAverage
    <2>1. tick.max \in Floor .. MaxConnections
      BY <1>1 DEF ReadAverage, EngineInv, TickCeiling
    <2>2. ~(tick.max <= 0)
      BY <2>1, SizingAssumption
    <2>3. ZoneOf(win, tick.max) # "invalid"
      BY <2>2 DEF ZoneOf
    <2> QED BY <1>1, <2>3, TickFields DEF ReadAverage
  <1>2. CASE ReadRole \/ SkipTick \/ ReadLatest
    <2>1. \/ tick' = [NoTick EXCEPT !.role = CurrentRole] \/ tick' = NoTick
          \/ tick' = [tick EXCEPT !.max = Latest.max]
      BY <1>2 DEF ReadRole, SkipTick, ReadLatest
    <2> QED BY <2>1, NewTick, TickFields
  <1>3. CASE Restore \/ Shrink \/ Grow \/ Count
    <2>1. \E v : tick' = [tick EXCEPT !.resume = v]
      BY <1>3 DEF Restore, Shrink, Grow, Count, Finish
    <2> QED BY <2>1, TickFields
  <1>4. CASE Save
    BY <1>4, NewTick DEF Save, CreateTemp, WriteTemp, RenameTemp, SaveFails, Resume
  <1>5. CASE Boot \/ Halt \/ StayHalted \/ DrainPush \/ Crash \/ PoolRestart \/ UNCHANGED engineVars
    BY <1>5, NewTick DEF Boot, Halt, StayHalted, DrainPush, Crash, PoolRestart, engineVars
  <1> QED BY <1>1, <1>2, <1>3, <1>4, <1>5 DEF EngineNext, EngineStep

(* A confirmed command, as long as none was refused or lost. *)
LEMMA ConfirmedCommand ==
    ASSUME EngineInv, NoCommandFailed', NEW size, NEW reply, SetPoolSize(size, reply)
    PROVE  reply = "applied"
  BY NotRecordedNotCaused DEF NoCommandFailed, SetPoolSize

(* Each evaluation counts in the run of its zone and ends the other one. *)
LEMMA EvaluationCounts ==
    ASSUME EngineInv, RunInv, HistoryNext, Shrink \/ Grow \/ Count, NoCommandFailed, NoCommandFailed'
    PROVE  /\ above' <= run'.high /\ below' <= run'.low
           /\ st'.suppressed = st.suppressed
  <1>1. pc = "evaluate" /\ pc' = "save"
    BY DEF Shrink, Grow, Count, Finish
  <1>2. run' = [high |-> IF tick.zone = "high" THEN Extend(run.high) ELSE 0,
                low  |-> IF tick.zone = "low"  THEN Extend(run.low)  ELSE 0]
    BY <1>1 DEF HistoryNext
  <1>3. /\ run.high \in 0 .. RunCap /\ run.low \in 0 .. RunCap
        /\ above <= run.high /\ below <= run.low
        /\ above \in 0 .. DownTicks /\ below \in 0 .. UpTicks
        /\ st \in States
    BY <1>1 DEF RunInv, CountsBacked, EngineInv, EngineTypeOK, ControlTypeOK
  <1>4. /\ run'.high \in 0 .. RunCap /\ run'.low \in 0 .. RunCap
        /\ tick.zone = "high" => run'.high = RunCap \/ run'.high = run.high + 1
        /\ tick.zone = "low" => run'.low = RunCap \/ run'.low = run.low + 1
    BY <1>2, <1>3, ExtendCounts, RunCapCovers
  <1>5. CASE Shrink \/ Grow
    <2>1. PICK size, reply : Resize(size, reply) /\ (reply = "applied" => above' = 0 /\ below' = 0)
      BY <1>5 DEF Shrink, Grow
    <2>2. reply = "applied"
      BY <2>1, ConfirmedCommand DEF Resize
    <2>3. st' = [st EXCEPT !.size = size]
      BY <2>1, <2>2 DEF Resize
    <2>4. st'.suppressed = st.suppressed
      BY <1>3, <2>3 DEF States
    <2> QED BY <1>4, <2>1, <2>2, <2>4
  <1>6. CASE Count
    <2>1. tick.zone # "invalid" /\ UNCHANGED st
      BY <1>6 DEF RunInv, Count
    <2>2. \/ above' = 0 /\ below' = 0
          \/ tick.zone = "high" /\ above + 1 < DownTicks /\ above' = above + 1 /\ below' = 0
          \/ tick.zone = "low" /\ below + 1 < UpTicks /\ below' = below + 1 /\ above' = 0
      BY <1>6, <2>1 DEF Count
    <2> QED BY <1>3, <1>4, <2>1, <2>2, RunCapCovers, TicksAssumption
  <1> QED BY <1>5, <1>6

LEMMA RunNext == EngineInv /\ RunInv /\ [HistoryNext]_historyVars => RunInv'
  <1> SUFFICES ASSUME EngineInv, RunInv, [HistoryNext]_historyVars PROVE RunInv'
    OBVIOUS
  <1>1. tick'.zone # "invalid"
    BY HistoryStepsEngine, ZoneUsable DEF RunInv
  <1>2. CASE UNCHANGED historyVars
    BY <1>2 DEF historyVars, engineVars, RunInv, CountsBacked, NoCommandFailed
  <1>3. CASE HistoryNext
    <2>1. run' \in [high : 0 .. RunCap, low : 0 .. RunCap]
      <3>1. NoRun \in [high : 0 .. RunCap, low : 0 .. RunCap]
        BY RunCapCovers DEF NoRun
      <3>2. Extend(run.high) \in 0 .. RunCap /\ Extend(run.low) \in 0 .. RunCap /\ 0 \in 0 .. RunCap
        BY ExtendCounts, RunCapCovers DEF RunInv
      <3> QED BY <1>3, <3>1, <3>2 DEF HistoryNext, RunInv
    <2>2. pc' = "down" => above' = 0 /\ below' = 0
      <3>1. CASE Crash
        BY <3>1 DEF Crash
      <3>2. CASE DrainPush \/ PoolRestart
        BY <3>2 DEF DrainPush, PoolRestart, RunInv
      <3>3. CASE EngineStep
        <4>1. tick.resume # "down"
          BY DEF EngineInv, EngineTypeOK, ControlTypeOK
        <4> QED BY <3>3, <4>1
            DEF EngineStep, Boot, ReadRole, SkipTick, ReadLatest, ReadAverage, Halt, StayHalted,
                Restore, Shrink, Grow, Count, Finish, Save, CreateTemp, WriteTemp, RenameTemp, SaveFails,
                Resume
      <3> QED BY <1>3, <3>1, <3>2, <3>3 DEF HistoryNext, EngineNext
    <2>3. CountsBacked'
      <3> SUFFICES ASSUME NoCommandFailed'
                   PROVE  /\ ~(pc' = "decide" /\ Halting(tick'.role))
                                => above' <= run'.high /\ below' <= run'.low
                          /\ st'.suppressed => above' = 0 /\ below' = 0
                          /\ pc' = "evaluate" => ~st'.suppressed
                          /\ pc' \in {"latest", "average", "decide"} => tick'.resume = "idle"
                          /\ pc' \in {"save", "write", "rename"} /\ tick'.resume = "evaluate"
                                => ~st'.suppressed
        BY Zenon DEF CountsBacked
      <3>1. /\ ~(pc = "decide" /\ Halting(tick.role)) => above <= run.high /\ below <= run.low
            /\ st.suppressed => above = 0 /\ below = 0
            /\ pc = "evaluate" => ~st.suppressed
            /\ pc \in {"latest", "average", "decide"} => tick.resume = "idle"
            /\ pc \in {"save", "write", "rename"} /\ tick.resume = "evaluate" => ~st.suppressed
        BY HistoryStepsEngine, FaultsOnlyGrow DEF RunInv, CountsBacked, NoCommandFailed
      <3>2. /\ st \in States /\ above \in Nat /\ below \in Nat
            /\ tick \in [role : Roles, max : Nat, zone : Zones, resume : {"idle", "evaluate"}]
        BY DEF EngineInv, EngineTypeOK, ControlTypeOK
      <3>3. NoCommandFailed
        BY HistoryStepsEngine, FaultsOnlyGrow DEF NoCommandFailed
      <3>4. /\ run' \in [high : 0 .. RunCap, low : 0 .. RunCap]
            /\ above' = 0 => above' <= run'.high
            /\ below' = 0 => below' <= run'.low
        BY <2>1
      <3>5. CASE Boot
        BY <3>1, <3>4, <3>5 DEF Boot, RunInv
      <3>6. CASE ReadRole \/ SkipTick \/ ReadLatest
        <4>1. UNCHANGED <<st, above, below>> /\ pc \in {"idle", "latest"}
              /\ pc' \in {"latest", "idle", "average"}
          BY <3>6 DEF ReadRole, SkipTick, ReadLatest
        <4>2. \/ tick' = [NoTick EXCEPT !.role = CurrentRole] \/ tick' = NoTick
              \/ tick' = [tick EXCEPT !.max = Latest.max] /\ tick.resume = "idle"
          BY <3>1, <3>6 DEF ReadRole, SkipTick, ReadLatest
        <4>3. tick'.resume = "idle"
          BY <4>2, NewTick, TickFields
        <4> QED BY <1>3, <3>1, <4>1, <4>3, RunKept
      <3>7. CASE ReadAverage
        <4>1. UNCHANGED <<st, above, below>> /\ pc = "average" /\ tick'.resume = "idle"
              /\ pc' \in {"decide", "evaluate"} /\ (pc' = "evaluate" => ~st.suppressed)
          BY <3>1, <3>2, <3>7 DEF ReadAverage
        <4> QED BY <1>3, <3>1, <4>1, RunKept
      <3>8. CASE Halt
        BY <3>1, <3>4, <3>8 DEF Halt
      <3>9. CASE StayHalted
        BY <3>1, <3>4, <3>9 DEF StayHalted
      <3>10. CASE Restore
        <4>1. PICK reply \in Replies :
                /\ SetPoolSize(RestoreSize, reply)
                /\ IF reply = "applied"
                     THEN /\ st' = [lastRole |-> "primary", lastSize |-> st.lastSize,
                                    suppressed |-> FALSE, size |-> RestoreSize]
                          /\ above' = 0 /\ below' = 0
                     ELSE UNCHANGED <<st, counters>>
          BY <3>10 DEF Restore
        <4>2. ~st'.suppressed /\ above' = 0 /\ below' = 0
          BY <4>1, ConfirmedCommand
        <4> QED BY <3>4, <3>10, <4>2 DEF Restore
      <3>11. CASE Shrink \/ Grow \/ Count
        <4>1. pc = "evaluate" /\ pc' = "save" /\ ~st.suppressed
          BY <3>1, <3>11 DEF Shrink, Grow, Count, Finish
        <4> QED BY <1>3, <3>3, <3>11, <4>1, EvaluationCounts
      <3>12. CASE Save
        <4>1. /\ UNCHANGED <<st, above, below>> /\ pc \in {"save", "write", "rename"}
              /\ (UNCHANGED tick /\ pc' \in {"write", "rename"}) \/ Resume
          BY <3>12 DEF Save, CreateTemp, WriteTemp, RenameTemp, SaveFails
        <4>2. pc' \in {"write", "rename", "idle", "evaluate"}
              /\ (pc' = "evaluate" => tick.resume = "evaluate")
              /\ (pc' \in {"write", "rename"} => UNCHANGED tick)
          BY <3>2, <4>1 DEF Resume
        <4> QED BY <1>3, <3>1, <4>1, <4>2, RunKept
      <3>13. CASE DrainPush \/ PoolRestart
        <4>1. UNCHANGED <<pc, tick, st, above, below>>
          BY <3>13 DEF DrainPush, PoolRestart
        <4>2. CASE pc = "down"
          BY <3>1, <3>4, <4>1, <4>2 DEF RunInv
        <4>3. CASE pc # "down"
          BY <1>3, <3>1, <4>1, <4>3, RunKept
        <4> QED BY <4>2, <4>3
      <3>14. CASE Crash
        BY <3>4, <3>14, FreshIsOpen DEF Crash
      <3> QED BY <1>3, <3>5, <3>6, <3>7, <3>8, <3>9, <3>10, <3>11, <3>12, <3>13, <3>14
              DEF HistoryNext, EngineNext, EngineStep
    <2> QED BY <1>1, <2>1, <2>2, <2>3 DEF RunInv
  <1> QED BY <1>2, <1>3

(* The tick that resizes is the last of a run that is long enough. *)
LEMMA ResizeConfirmed ==
    ASSUME EngineInv, RunInv, HistoryNext, pc = "evaluate", pc' = "save", NoCommandFailed
    PROVE  /\ st'.size < st.size => run'.high >= DownTicks
           /\ st'.size > st.size => run'.low >= UpTicks
  <1>1. run' = [high |-> IF tick.zone = "high" THEN Extend(run.high) ELSE 0,
                low  |-> IF tick.zone = "low"  THEN Extend(run.low)  ELSE 0]
    BY DEF HistoryNext
  <1>2. /\ run.high \in 0 .. RunCap /\ run.low \in 0 .. RunCap
        /\ above <= run.high /\ below <= run.low
        /\ above \in 0 .. DownTicks /\ below \in 0 .. UpTicks
        /\ DownTicks \in Nat /\ UpTicks \in Nat
    BY TicksAssumption DEF RunInv, CountsBacked, EngineInv, EngineTypeOK, ControlTypeOK
  <1>3. st \in States /\ st.size \in Nat
    BY StateInMemory
  <1>4. ASSUME NEW size \in Nat, NEW reply, Resize(size, reply) PROVE st'.size \in {size, st.size}
    BY <1>3, <1>4 DEF Resize, States
  <1>5. CASE Shrink
    <2>1. tick.zone = "high" /\ above + 1 >= DownTicks /\ Smaller(st.size) < st.size
      BY <1>5 DEF Shrink
    <2>2. Smaller(st.size) \in Nat
      BY <1>3, <2>1, SmallerSized, StateInMemory
    <2>3. st'.size \in {Smaller(st.size), st.size}
      BY <1>4, <1>5, <2>2 DEF Shrink
    <2>4. run'.high >= DownTicks
      BY <1>1, <1>2, <2>1, ExtendCounts, RunCapCovers
    <2> QED BY <1>3, <2>1, <2>2, <2>3, <2>4
  <1>6. CASE Grow
    <2>1. tick.zone = "low" /\ below + 1 >= UpTicks /\ Larger(st.size, tick.max) > st.size
      BY <1>6 DEF Grow
    <2>2. Larger(st.size, tick.max) \in Nat
      BY <1>3, <2>1, LargerSized, StateInMemory
    <2>3. st'.size \in {Larger(st.size, tick.max), st.size}
      BY <1>4, <1>6, <2>2 DEF Grow
    <2>4. run'.low >= UpTicks
      BY <1>1, <1>2, <2>1, ExtendCounts, RunCapCovers
    <2> QED BY <1>3, <2>1, <2>2, <2>3, <2>4
  <1>7. CASE UNCHANGED st
    BY <1>3, <1>7
  <1>8. Shrink \/ Grow \/ UNCHANGED st
    BY DEF HistoryNext, EngineNext, EngineStep, Boot, ReadRole, SkipTick, ReadLatest, ReadAverage,
           Halt, StayHalted, Restore, Count, Save, CreateTemp, WriteTemp, RenameTemp, SaveFails,
           DrainPush, Crash, PoolRestart
  <1> QED BY <1>5, <1>6, <1>7, <1>8

(* engine.go:24-27: for any thresholds of ticks, a pool is resized only on the
   last of that many consecutive ticks on one side, counted from outside the
   engine, as long as no command was refused or lost; crashes, failed saves and
   restarts of PgBouncer never make it act on fewer. *)
THEOREM ResizesAreConfirmed == HistorySpec => ResizesAfterRun
  <1>1. HistorySpec => []RunInv
    BY HistoryInvariant, RunInit, RunNext, PTL DEF HistorySpec
  <1>2. EngineInv /\ RunInv /\ [HistoryNext]_historyVars
          => [pc = "evaluate" /\ pc' = "save" /\ NoCommandFailed
                => /\ st'.size < st.size => run'.high >= DownTicks
                   /\ st'.size > st.size => run'.low >= UpTicks]_historyVars
    BY ResizeConfirmed
  <1> QED BY <1>1, <1>2, HistoryInvariant, PTL DEF HistorySpec, ResizesAfterRun
=============================================================================
