-------------------------- MODULE MigrationProofs --------------------------
(***************************************************************************)
(* For every number of commands, in every interleaving, one run at a time  *)
(* works on a migration task.  The mutual exclusion rests on who may write *)
(* a task: its run, once there is one, and before that the command that    *)
(* creates it, of which nobody else knows yet.  From it follows that the   *)
(* phases are worked on in their order and up to the target.               *)
(***************************************************************************)
EXTENDS Migration, TLAPS

Active == Phases \ {"COMPLETED"}

(* A task that anybody knows of has been created. *)
KnownTasksCreated ==
    \A c \in Commands :
        /\ \A t \in {registered, command[c].found, run[c].task} :
              t # none => command[t].pc = "done"
        /\ command[c].pc \in {"compare", "retarget", "wake"} => command[c].found # none
        /\ run[c].pc # "none" => run[c].task # none

(* A command of which a run was started has been handled. *)
RunsFollowCommands ==
    \A c \in Commands : run[c].pc # "none" => command[c].pc = "done"

(* Nobody but its run moves the phase of a task that is worked on. *)
WorkingPhases ==
    \A c \in Commands : run[c].pc = "work" => task[run[c].task].phase \in Active

(* The inductive invariant. *)
MigrationInv ==
    /\ MigrationTypeOK /\ KnownTasksCreated /\ RunsFollowCommands
    /\ WorkingPhases /\ OneRunPerTask

---------------------------------------------------------------------------
(* What the order of the phases amounts to. *)
LEMMA PhaseNames ==
    Phases = {"PRE_FLIGHT", "SCHEMA", "FULL_LOAD", "CDC", "CUTOVER", "COMPLETED"}
BY DEF Phases, Order, Range

(* A phase that is not the last one has a next one. *)
LEMMA NextPhaseIsOne == \A p \in Active : NextPhase(p) \in Phases
<1> SUFFICES ASSUME NEW p \in Active PROVE NextPhase(p) \in Phases
  OBVIOUS
<1>1. DOMAIN Order = 1 .. 6 /\ \A i \in 1 .. 6 : Order[i] \in Phases
  BY DEF Order, Phases, Range
<1>2. \E i \in 1 .. 6 : Order[i] = p
  BY <1>1, PhaseNames DEF Active, Order
<1>3. At(p) \in 1 .. 6 /\ Order[At(p)] = p
  BY <1>1, <1>2 DEF At
<1>4. Order[6] = "COMPLETED"
  BY DEF Order
<1>5. At(p) + 1 \in 1 .. 6
  BY <1>3, <1>4 DEF Active
<1> QED
  BY <1>1, <1>5 DEF NextPhase

---------------------------------------------------------------------------
LEMMA InitInv == MigrationInit => MigrationInv
  <1> SUFFICES ASSUME MigrationInit PROVE MigrationInv
    OBVIOUS
  <1> USE DEF MigrationInit
  <1>1. MigrationTypeOK
    BY DEF MigrationTypeOK, NoTask, MaybeTask, TaskTargets, TaskPhases, CommandPcs, RunPcs
  <1>2. KnownTasksCreated
    BY DEF KnownTasksCreated
  <1>3. RunsFollowCommands /\ WorkingPhases
    BY DEF RunsFollowCommands, WorkingPhases
  <1>4. OneRunPerTask
    BY DEF OneRunPerTask, WorksOn, Working, NoTask
  <1> QED BY <1>1, <1>2, <1>3, <1>4 DEF MigrationInv

(* A run has a task and a command that goes on has found one; both exist. *)
LEMMA TasksInUse ==
    ASSUME MigrationInv, NEW c \in Commands
    PROVE  /\ run[c].pc # "none" => /\ run[c].task \in Commands
                                   /\ command[run[c].task].pc = "done"
           /\ command[c].pc \in {"compare", "retarget", "wake"} =>
                /\ command[c].found \in Commands /\ command[command[c].found].pc = "done"
  BY DEF MigrationInv, MigrationTypeOK, KnownTasksCreated, MaybeTask

(* The values a step writes. *)
LEMMA WrittenValues ==
    /\ none \in MaybeTask /\ none \in TaskTargets /\ "COMPLETED" \in TaskTargets
    /\ Commands \subseteq MaybeTask /\ Targets \subseteq TaskTargets
    /\ Phases \subseteq TaskPhases /\ Direct \subseteq TaskPhases
    /\ "PRE_FLIGHT" \in TaskPhases /\ "FAILED" \in TaskPhases
    /\ {"unsent", "lookup", "create", "compare", "retarget", "wake", "done"} \subseteq CommandPcs
    /\ {"none", "enter", "check", "work", "failing", "leave", "gone"} \subseteq RunPcs
  BY PhaseNames DEF MaybeTask, TaskTargets, TaskPhases, CommandPcs, RunPcs, Working

(* A step keeps every variable in its type. *)
LEMMA TypeStep == MigrationInv /\ (\E c \in Commands : Moves(c)) => MigrationTypeOK'
  <1> SUFFICES ASSUME MigrationInv, NEW c \in Commands,
                      \/ \E p \in Direct : StartDirectly(c, p)
                      \/ \E p \in Targets : Ask(c, p)
                      \/ CommandStep(c) \/ RunStep(c)
               PROVE  MigrationTypeOK'
    BY DEF Moves
  <1> USE WrittenValues DEF MigrationTypeOK
  <1>0. MigrationTypeOK /\ WorkingPhases
    BY DEF MigrationInv
  <1>1. ASSUME NEW p \in Direct, StartDirectly(c, p) PROVE MigrationTypeOK'
    BY <1>0, <1>1 DEF StartDirectly, NewTask
  <1>2. ASSUME NEW p \in Targets, Ask(c, p) PROVE MigrationTypeOK'
    BY <1>0, <1>2 DEF Ask
  <1>3. CASE Lookup(c)
    BY <1>0, <1>3 DEF Lookup
  <1>4. CASE Create(c)
    BY <1>0, <1>4 DEF Create, NewTask
  <1>5. CASE Compare(c)
    BY <1>0, <1>5 DEF Compare
  <1>6. CASE Retarget(c)
    <2>1. command[c].found \in Commands
      BY <1>6, TasksInUse DEF Retarget
    <2>2. backwards' \in BOOLEAN
      BY <1>6 DEF Retarget
    <2>3. highest' \in [Commands -> TaskTargets]
      BY <1>0, <1>6, <2>1 DEF Retarget, Further
    <2>4. task' \in [Commands -> [phase : TaskPhases, target : TaskTargets, running : BOOLEAN]]
      BY <1>0, <1>6, <2>1 DEF Retarget
    <2>5. command' \in [Commands -> [pc : CommandPcs, target : TaskTargets, found : MaybeTask]]
      BY <1>0, <1>6 DEF Retarget
    <2>6. UNCHANGED <<registered, run, worked, missed, checking>>
      BY <1>6 DEF Retarget
    <2> QED BY <1>0, <2>2, <2>3, <2>4, <2>5, <2>6
  <1>7. CASE Wake(c)
    <2>1. command[c].found \in Commands
      BY <1>7, TasksInUse DEF Wake
    <2>2. CASE task[command[c].found].running
      <3>1. missed' \in BOOLEAN /\ UNCHANGED <<task, registered, run, worked, highest, backwards, checking>>
        BY <1>7, <2>2 DEF Wake
      <3>2. command' \in [Commands -> [pc : CommandPcs, target : TaskTargets, found : MaybeTask]]
        <4>1. command' = [command EXCEPT ![c].pc = "done"]
          BY <1>7 DEF Wake
        <4> QED BY <1>0, <4>1
      <3> QED BY <1>0, <3>1, <3>2
    <2>3. CASE ~task[command[c].found].running
      <3>3. run' = [run EXCEPT ![c] = [pc |-> "enter", task |-> command[c].found]]
        BY <1>7, <2>3 DEF Wake
      <3>1. run' \in [Commands -> [pc : RunPcs, task : MaybeTask]]
        BY <1>0, <2>1, <3>3
      <3>2. command' \in [Commands -> [pc : CommandPcs, target : TaskTargets, found : MaybeTask]]
        <4>1. command' = [command EXCEPT ![c].pc = "done"]
          BY <1>7 DEF Wake
        <4> QED BY <1>0, <4>1
      <3> QED BY <1>0, <1>7, <2>3, <3>1, <3>2 DEF Wake
    <2> QED BY <2>2, <2>3
  <1>8. CASE Enter(c)
    <2>1. run[c].task \in Commands
      BY <1>8, TasksInUse DEF Enter
    <2>2. CASE task[run[c].task].running
      BY <1>0, <1>8, <2>1, <2>2 DEF Enter
    <2>3. CASE ~task[run[c].task].running
      <3>1. run' \in [Commands -> [pc : RunPcs, task : MaybeTask]]
        BY <1>0, <1>8, <2>3 DEF Enter
      <3>3. task' = [task EXCEPT ![run[c].task].running = TRUE]
        BY <1>8, <2>3 DEF Enter
      <3>2. task' \in [Commands -> [phase : TaskPhases, target : TaskTargets, running : BOOLEAN]]
        BY <1>0, <2>1, <3>3
      <3> QED BY <1>0, <1>8, <2>1, <2>3, <3>1, <3>2 DEF Enter
    <2> QED BY <2>2, <2>3
  <1>9. CASE Check(c)
    BY <1>0, <1>9 DEF Check
  <1>10. CASE Succeed(c)
    <2>1. run[c].task \in Commands
      BY <1>10, TasksInUse DEF Succeed
    <2>2. task[run[c].task].phase \in Phases /\ NextPhase(task[run[c].task].phase) \in Phases
      BY <1>0, <1>10, NextPhaseIsOne DEF Succeed, WorkingPhases, Active
    <2> QED BY <1>0, <1>10, <2>1, <2>2 DEF Succeed
  <1>11. CASE Fail(c)
    <2>1. run[c].task \in Commands
      BY <1>11, TasksInUse DEF Fail
    <2> QED BY <1>0, <1>11, <2>1 DEF Fail
  <1>12. CASE Leave(c)
    <2>1. run[c].task \in Commands
      BY <1>12, TasksInUse DEF Leave
    <2> QED BY <1>0, <1>12, <2>1 DEF Leave
  <1>13. CASE PhaseErrs(c)
    <2>1. run[c].task \in Commands
      BY <1>13, TasksInUse DEF PhaseErrs
    <2>2. task[run[c].task].phase \in Phases /\ NextPhase(task[run[c].task].phase) \in Phases
      BY <1>0, <1>13, NextPhaseIsOne DEF PhaseErrs, WorkingPhases, Active
    <2> QED BY <1>0, <1>13, <2>1, <2>2 DEF PhaseErrs
  <1> QED
    BY <1>1, <1>2, <1>3, <1>4, <1>5, <1>6, <1>7, <1>8, <1>9, <1>10, <1>11, <1>12, <1>13 DEF CommandStep, RunStep, PhaseStep

---------------------------------------------------------------------------
(* Tasks are created before anybody knows of them. *)
LEMMA KnownStep == MigrationInv /\ (\E c \in Commands : Moves(c)) => KnownTasksCreated' /\ RunsFollowCommands'
  <1> SUFFICES ASSUME MigrationInv, NEW c \in Commands,
                      \/ \E p \in Direct : StartDirectly(c, p)
                      \/ \E p \in Targets : Ask(c, p)
                      \/ CommandStep(c) \/ RunStep(c)
               PROVE  KnownTasksCreated' /\ RunsFollowCommands'
    BY DEF Moves
  <1> USE MigrationAssumption, WrittenValues DEF KnownTasksCreated, RunsFollowCommands
  <1>0. MigrationTypeOK /\ KnownTasksCreated /\ RunsFollowCommands
    BY DEF MigrationInv
  <1> USE <1>0 DEF MigrationTypeOK
  <1>1. ASSUME NEW p \in Direct, StartDirectly(c, p) PROVE KnownTasksCreated' /\ RunsFollowCommands'
    BY <1>1 DEF StartDirectly, NewTask, MaySend, none
  <1>2. ASSUME NEW p \in Targets, Ask(c, p) PROVE KnownTasksCreated' /\ RunsFollowCommands'
    BY <1>2 DEF Ask, MaySend
  <1>3. CASE Lookup(c)
    BY <1>3 DEF Lookup
  <1>4. CASE Create(c)
    BY <1>4 DEF Create, NewTask, none
  <1>5. CASE Compare(c)
    BY <1>5 DEF Compare
  <1>6. CASE Retarget(c)
    BY <1>6 DEF Retarget
  <1>7. CASE Wake(c)
    BY <1>7 DEF Wake
  <1>8. CASE Enter(c)
    <2>1. command[run[c].task].pc = "done"
      BY <1>8, TasksInUse DEF Enter
    <2>2. run' = [run EXCEPT ![c].pc = run'[c].pc] /\ run'[c].pc \in {"gone", "check"}
      BY <1>8 DEF Enter
    <2>3. registered' \in {registered, run[c].task} /\ command' = command
      BY <1>8 DEF Enter
    <2>4. run[c].pc = "enter"
      BY <1>8 DEF Enter
    <2>5. \A d \in Commands : run'[d].task = run[d].task /\ (run'[d].pc = "none" <=> run[d].pc = "none")
      BY <2>2, <2>4
    <2> QED BY <2>1, <2>3, <2>4, <2>5
  <1>9. CASE Check(c)
    BY <1>9 DEF Check
  <1>10. CASE Succeed(c)
    BY <1>10 DEF Succeed
  <1>11. CASE Fail(c)
    BY <1>11 DEF Fail
  <1>12. CASE Leave(c)
    BY <1>12 DEF Leave
  <1>13. CASE PhaseErrs(c)
    BY <1>13 DEF PhaseErrs
  <1> QED
    BY <1>1, <1>2, <1>3, <1>4, <1>5, <1>6, <1>7, <1>8, <1>9, <1>10, <1>11, <1>12, <1>13 DEF CommandStep, RunStep, PhaseStep

---------------------------------------------------------------------------
(* A task that is created is one that nobody works on. *)
LEMMA NewTaskIsFree ==
    ASSUME MigrationInv, NEW c \in Commands, command[c].pc # "done"
    PROVE  run[c].pc = "none" /\ \A d \in Commands : run[d].task # c
  BY MigrationAssumption DEF MigrationInv, KnownTasksCreated, RunsFollowCommands, none

(* The run that works on a task is the only one, and is the one IsRunning
   tells of. *)
LEMMA ExclusionStep == MigrationInv /\ (\E c \in Commands : Moves(c)) => OneRunPerTask'
  <1> SUFFICES ASSUME MigrationInv, NEW c \in Commands,
                      \/ \E p \in Direct : StartDirectly(c, p)
                      \/ \E p \in Targets : Ask(c, p)
                      \/ CommandStep(c) \/ RunStep(c)
               PROVE  OneRunPerTask'
    BY DEF Moves
  <1> USE DEF OneRunPerTask, WorksOn, Working
  <1>0. MigrationTypeOK /\ OneRunPerTask /\ RunsFollowCommands
    BY DEF MigrationInv
  <1> USE <1>0 DEF MigrationTypeOK
  <1>a. ASSUME NEW phase, NEW target, NewTask(c, phase, target), command[c].pc # "done"
        PROVE  OneRunPerTask'
    <2>1. run[c].pc = "none" /\ \A d \in Commands : run[d].task # c
      BY <1>a, NewTaskIsFree
    <2>2. \A d \in Commands \ {c} : run'[d] = run[d] /\ task'[d] = task[d]
      BY <1>a DEF NewTask
    <2>3. run'[c].pc = "enter" /\ task'[c].running = FALSE /\ run'[c].task = c
      BY <1>a DEF NewTask
    <2>4. \A d, t \in Commands : WorksOn(d, t)' <=> WorksOn(d, t)
      BY <2>1, <2>2, <2>3
    <2>5. ~task[c].running
      BY <2>1
    <2> QED BY <2>2, <2>3, <2>4, <2>5
  <1>1. ASSUME NEW p \in Direct, StartDirectly(c, p) PROVE OneRunPerTask'
    BY <1>1, <1>a DEF StartDirectly, MaySend
  <1>2. ASSUME NEW p \in Targets, Ask(c, p) PROVE OneRunPerTask'
    BY <1>2 DEF Ask
  <1>3. CASE Lookup(c)
    BY <1>3 DEF Lookup
  <1>4. CASE Create(c)
    BY <1>4, <1>a DEF Create
  <1>5. CASE Compare(c)
    BY <1>5 DEF Compare
  <1>6. CASE Retarget(c)
    BY <1>6 DEF Retarget
  <1>7. CASE Wake(c)
    <2>1. run[c].pc = "none"
      BY <1>7 DEF Wake, RunsFollowCommands
    <2>2. task' = task /\ (run' = run \/ run' = [run EXCEPT ![c] = [pc |-> "enter", task |-> command[c].found]])
      BY <1>7 DEF Wake
    <2>3. \A d \in Commands : d # c => run'[d] = run[d]
      BY <2>2
    <2>4. run'[c].pc \in {"none", "enter"}
      BY <2>1, <2>2
    <2>5. \A d, t \in Commands : WorksOn(d, t)' <=> WorksOn(d, t)
      BY <2>1, <2>3, <2>4
    <2> QED BY <2>2, <2>5
  <1>8. CASE Enter(c)
    <2>1. run[c].task \in Commands /\ run[c].pc = "enter"
      BY <1>8, TasksInUse DEF Enter
    <2>2. CASE task[run[c].task].running
      <3>1. run' = [run EXCEPT ![c].pc = "gone"] /\ task' = task
        BY <1>8, <2>2 DEF Enter
      <3>2. \A d, t \in Commands : WorksOn(d, t)' <=> WorksOn(d, t)
        BY <2>1, <3>1
      <3> QED BY <3>1, <3>2
    <2>3. CASE ~task[run[c].task].running
      <3>1. run' = [run EXCEPT ![c].pc = "check"] /\ task' = [task EXCEPT ![run[c].task].running = TRUE]
        BY <1>8, <2>3 DEF Enter
      <3>2. \A d \in Commands : ~WorksOn(d, run[c].task)
        BY <2>1, <2>3
      <3> QED BY <2>1, <3>1, <3>2
    <2> QED BY <2>2, <2>3
  <1>9. CASE Check(c)
    <2>1. run' = [run EXCEPT ![c].pc = run'[c].pc] /\ run'[c].pc \in {"leave", "work"} /\ task' = task
      BY <1>9 DEF Check
    <2> QED BY <1>9, <2>1 DEF Check
  <1>10. CASE Succeed(c)
    BY <1>10 DEF Succeed
  <1>11. CASE Fail(c)
    BY <1>11 DEF Fail
  <1>12. CASE Leave(c)
    <2>1. run[c].task \in Commands /\ WorksOn(c, run[c].task)
      BY <1>12, TasksInUse DEF Leave
    <2>2. \A d \in Commands : WorksOn(d, run[c].task) => d = c
      BY <2>1
    <2>3. run' = [run EXCEPT ![c].pc = "gone"] /\ task' = [task EXCEPT ![run[c].task].running = FALSE]
      BY <1>12 DEF Leave
    <2> QED BY <2>1, <2>2, <2>3
  <1>13. CASE PhaseErrs(c)
    BY <1>13 DEF PhaseErrs
  <1> QED
    BY <1>1, <1>2, <1>3, <1>4, <1>5, <1>6, <1>7, <1>8, <1>9, <1>10, <1>11, <1>12, <1>13 DEF CommandStep, RunStep, PhaseStep

---------------------------------------------------------------------------
(* A phase is worked on until its run moves it, and it is one that has work. *)
LEMMA WorkingStep == MigrationInv /\ (\E c \in Commands : Moves(c)) => WorkingPhases'
  <1> SUFFICES ASSUME MigrationInv, NEW c \in Commands,
                      \/ \E p \in Direct : StartDirectly(c, p)
                      \/ \E p \in Targets : Ask(c, p)
                      \/ CommandStep(c) \/ RunStep(c)
               PROVE  WorkingPhases'
    BY DEF Moves
  <1> USE DEF WorkingPhases
  <1>0. MigrationTypeOK /\ OneRunPerTask /\ RunsFollowCommands /\ WorkingPhases
    BY DEF MigrationInv
  <1> USE <1>0 DEF MigrationTypeOK
  <1>t. \A d \in Commands : run[d].pc = "work" => run[d].task \in Commands
    BY TasksInUse
  <1>a. ASSUME NEW phase, NEW target, NewTask(c, phase, target), command[c].pc # "done"
        PROVE  WorkingPhases'
    <2>1. run[c].pc = "none" /\ \A d \in Commands : run[d].task # c
      BY <1>a, NewTaskIsFree
    <2>2. \A d \in Commands \ {c} : run'[d] = run[d] /\ task'[d] = task[d]
      BY <1>a DEF NewTask
    <2>3. run'[c].pc = "enter"
      BY <1>a DEF NewTask
    <2> QED BY <1>t, <2>1, <2>2, <2>3
  <1>1. ASSUME NEW p \in Direct, StartDirectly(c, p) PROVE WorkingPhases'
    BY <1>1, <1>a DEF StartDirectly, MaySend
  <1>2. ASSUME NEW p \in Targets, Ask(c, p) PROVE WorkingPhases'
    BY <1>2 DEF Ask
  <1>3. CASE Lookup(c)
    BY <1>3 DEF Lookup
  <1>4. CASE Create(c)
    BY <1>4, <1>a DEF Create
  <1>5. CASE Compare(c)
    BY <1>5 DEF Compare
  <1>6. CASE Retarget(c)
    <2>1. command[c].found \in Commands
      BY <1>6, TasksInUse DEF Retarget
    <2>2. run' = run /\ \A t \in Commands : task'[t].phase = task[t].phase
      BY <1>6, <2>1 DEF Retarget
    <2> QED BY <1>t, <2>2
  <1>7. CASE Wake(c)
    <2>1. task' = task /\ (run' = run \/ run' = [run EXCEPT ![c] = [pc |-> "enter", task |-> command[c].found]])
      BY <1>7 DEF Wake
    <2>2. \A d \in Commands : run'[d] = run[d] \/ run'[d].pc = "enter"
      BY <2>1
    <2> QED BY <2>1, <2>2
  <1>8. CASE Enter(c)
    <2>1. run[c].task \in Commands
      BY <1>8, TasksInUse DEF Enter
    <2>2. \A d \in Commands : run'[d] = run[d] \/ run'[d].pc # "work"
      BY <1>8 DEF Enter
    <2>3. \A t \in Commands : task'[t].phase = task[t].phase
      <3>1. task' = task \/ task' = [task EXCEPT ![run[c].task].running = TRUE]
        BY <1>8 DEF Enter
      <3>2. task \in [Commands -> [phase : TaskPhases, target : TaskTargets, running : BOOLEAN]]
        OBVIOUS
      <3>3. CASE task' = task
        BY <3>3
      <3>4. CASE task' = [task EXCEPT ![run[c].task].running = TRUE]
        BY <3>2, <3>4
      <3> QED BY <3>1, <3>3, <3>4
    <2> QED BY <1>t, <2>2, <2>3
  <1>9. CASE Check(c)
    <2>1. task' = task /\ \A d \in Commands : d # c => run'[d] = run[d]
      BY <1>9 DEF Check
    <2>2. run'[c].task = run[c].task /\ (run'[c].pc = "work" => ~Stops(run[c].task))
      BY <1>9 DEF Check
    <2> QED BY <2>1, <2>2 DEF Stops, Active
  <1>m. ASSUME run[c].pc \in Working, run'[c].pc # "work",
               \A d \in Commands : d # c => run'[d] = run[d],
               \A t \in Commands : t # run[c].task => task'[t] = task[t]
        PROVE  WorkingPhases'
    <2> SUFFICES ASSUME NEW d \in Commands, run'[d].pc = "work"
                 PROVE  task'[run'[d].task].phase \in Active
      OBVIOUS
    <2>1. d # c /\ run'[d] = run[d] /\ run[d].task \in Commands /\ run[c].task \in Commands
      <3>1. d # c
        BY <1>m
      <3>2. run'[d] = run[d]
        BY <1>m, <3>1
      <3>3. run[c].pc # "none"
        BY <1>m DEF Working
      <3> QED BY <1>t, <3>1, <3>2, <3>3, TasksInUse
    <2>2. run[d].task # run[c].task
      BY <1>m, <2>1 DEF OneRunPerTask, WorksOn, Working
    <2> QED BY <1>m, <2>1, <2>2
  <1>10. CASE Succeed(c)
    BY <1>10, <1>m DEF Succeed, Working
  <1>11. CASE Fail(c)
    BY <1>11, <1>m DEF Fail, Working
  <1>12. CASE Leave(c)
    <2>1. run[c].task \in Commands
      BY <1>12, TasksInUse DEF Leave
    <2>2. \A d \in Commands : run'[d] = run[d] \/ run'[d].pc # "work"
      BY <1>12 DEF Leave
    <2>3. \A t \in Commands : task'[t].phase = task[t].phase
      BY <1>12, <2>1 DEF Leave
    <2> QED BY <1>t, <2>2, <2>3
  <1>13. CASE PhaseErrs(c)
    BY <1>13, <1>m DEF PhaseErrs, Working
  <1> QED
    BY <1>1, <1>2, <1>3, <1>4, <1>5, <1>6, <1>7, <1>8, <1>9, <1>10, <1>11, <1>12, <1>13 DEF CommandStep, RunStep, PhaseStep

---------------------------------------------------------------------------
(* The local checks touch nothing of a migration. *)
LEMMA ChecksTouchNothing ==
    CheckStep \/ UNCHANGED migrationVars =>
        UNCHANGED <<command, task, registered, run, worked, highest, missed, backwards>>
  BY DEF migrationVars, CheckStep, CheckBegins, CheckEnds

LEMMA StutterInv == MigrationInv /\ (CheckStep \/ UNCHANGED migrationVars) => MigrationInv'
  <1> SUFFICES ASSUME MigrationInv, CheckStep \/ UNCHANGED migrationVars PROVE MigrationInv'
    OBVIOUS
  <1>1. checking' \in BOOLEAN
    BY DEF CheckStep, CheckBegins, CheckEnds, migrationVars, MigrationInv, MigrationTypeOK
  <1> QED
    BY <1>1, ChecksTouchNothing
    DEF MigrationInv, MigrationTypeOK, KnownTasksCreated, RunsFollowCommands,
        WorkingPhases, OneRunPerTask, WorksOn

(* The invariant of RunMigration and reconcileMigrations holds for ever. *)
THEOREM InvHolds == MigrationSpec => []MigrationInv
  <1>1. MigrationInv /\ [MigrationNext]_migrationVars => MigrationInv'
    BY TypeStep, KnownStep, ExclusionStep, WorkingStep, StutterInv DEF MigrationInv, MigrationNext
  <1> QED BY InitInv, <1>1, PTL DEF MigrationSpec

(* Every variable of a migration stays in its type, for every set of
   commands, targets and phases that may fail. *)
THEOREM MigrationTyped == MigrationSpec => []MigrationTypeOK
  <1>1. MigrationInv => MigrationTypeOK
    BY DEF MigrationInv
  <1> QED BY InvHolds, <1>1, PTL

(* However many commands concern a migration and however their goroutines
   are interleaved, one run at a time works on a task (RunMigration's check
   of IsRunning under the mutex). *)
THEOREM OneRunHolds == MigrationSpec => []OneRunPerTask
  <1>1. MigrationInv => OneRunPerTask
    BY DEF MigrationInv
  <1> QED BY InvHolds, <1>1, PTL
---------------------------------------------------------------------------
(* Where the phases stand in their order. *)
LEMMA Positions ==
    /\ At("PRE_FLIGHT") = 1 /\ At("SCHEMA") = 2 /\ At("FULL_LOAD") = 3
    /\ At("CDC") = 4 /\ At("CUTOVER") = 5 /\ At("COMPLETED") = 6
<1>1. DOMAIN Order = 1 .. 6
  BY DEF Order
<1>2. /\ \A i \in 1 .. 6 : Order[i] = "PRE_FLIGHT" <=> i = 1
      /\ \A i \in 1 .. 6 : Order[i] = "SCHEMA" <=> i = 2
      /\ \A i \in 1 .. 6 : Order[i] = "FULL_LOAD" <=> i = 3
      /\ \A i \in 1 .. 6 : Order[i] = "CDC" <=> i = 4
      /\ \A i \in 1 .. 6 : Order[i] = "CUTOVER" <=> i = 5
      /\ \A i \in 1 .. 6 : Order[i] = "COMPLETED" <=> i = 6
  BY DEF Order
<1> QED BY <1>1, <1>2 DEF At

LEMMA OrderFacts ==
    /\ \A p \in Phases : At(p) \in 1 .. 6
    /\ \A p, q \in Phases : At(p) = At(q) => p = q
    /\ \A p \in Active : At(NextPhase(p)) = At(p) + 1
<1>1. \A p \in Phases : At(p) \in 1 .. 6
  BY Positions, PhaseNames
<1>2. \A p, q \in Phases : At(p) = At(q) => p = q
  BY Positions, PhaseNames
<1>3. ASSUME NEW p \in Active PROVE At(NextPhase(p)) = At(p) + 1
  BY Positions, PhaseNames DEF Active, NextPhase, Order
<1> QED BY <1>1, <1>2, <1>3

(* A phase is reached only when those before it are done, if whoever starts a
   migration directly names the first one. *)
LEMMA EarlierStep ==
    ASSUME Direct \cap Phases \subseteq {"PRE_FLIGHT"},
           MigrationInv, EarlierPhasesDone, [MigrationNext]_migrationVars
    PROVE  EarlierPhasesDone'
<1> USE DEF EarlierPhasesDone, IsFailing
<1>0. /\ MigrationTypeOK /\ WorkingPhases
      /\ \A q \in Phases : ~(At(q) < 1)
  BY OrderFacts DEF MigrationInv
<1>1. CASE UNCHANGED <<task, worked, run>>
  BY <1>1
(* A step that leaves the phases alone, and the runs that are failing. *)
<1>a. ASSUME UNCHANGED worked, \A u \in Commands : task'[u].phase = task[u].phase,
             \A d \in Commands : run[d].pc = "failing" => run'[d] = run[d]
      PROVE  EarlierPhasesDone'
  BY <1>a
<1>2. ASSUME NEW c \in Commands, NEW p, NEW r, NewTask(c, p, r), UNCHANGED worked,
             command[c].pc # "done", p \in Phases => p = "PRE_FLIGHT"
      PROVE  EarlierPhasesDone'
  <2>1. task' = [task EXCEPT ![c] = [phase |-> p, target |-> r, running |-> FALSE]]
    BY <1>2 DEF NewTask
  <2>2. task'[c].phase = p /\ \A t \in Commands : t # c => task'[t] = task[t]
    BY <1>0, <2>1 DEF MigrationTypeOK
  <2>3. p \in Phases => {q \in Phases : At(q) < At(p)} = {}
    BY <1>0, <1>2, Positions
  <2>4. \A d \in Commands : run[d].pc = "failing" => run'[d] = run[d]
    BY <1>0, <1>2, NewTaskIsFree DEF NewTask, MigrationTypeOK
  <2> QED BY <1>2, <2>2, <2>3, <2>4
<1>3. ASSUME NEW c \in Commands, NEW t, UNCHANGED worked,
             \A d \in Commands : run[d].pc = "failing" => run'[d] = run[d],
             \/ UNCHANGED task
             \/ \E v : task' = [task EXCEPT ![t].target = v]
             \/ \E v : task' = [task EXCEPT ![t].running = v]
      PROVE  EarlierPhasesDone'
  <2>1. \A u \in Commands : task'[u].phase = task[u].phase
    <3>1. CASE \E v : task' = [task EXCEPT ![t].target = v]
      BY <1>0, <3>1 DEF MigrationTypeOK
    <3>2. CASE \E v : task' = [task EXCEPT ![t].running = v]
      BY <1>0, <3>2 DEF MigrationTypeOK
    <3> QED BY <1>3, <3>1, <3>2
  <2> QED BY <1>3, <1>a, <2>1
<1>4. ASSUME NEW c \in Commands, Succeed(c) PROVE EarlierPhasesDone'
  <2> DEFINE t == run[c].task
             p == task[t].phase
  <2>1. t \in Commands /\ p \in Active
    BY <1>0, <1>4, TasksInUse DEF Succeed, WorkingPhases
  <2>2. /\ task'[t].phase = NextPhase(p) /\ worked'[t] = worked[t] \cup {p}
        /\ \A u \in Commands : u # t => task'[u] = task[u] /\ worked'[u] = worked[u]
    BY <1>0, <1>4, <2>1 DEF Succeed, MigrationTypeOK
  <2>3. \A q \in Phases : At(q) < At(NextPhase(p)) => At(q) < At(p) \/ q = p
    BY <2>1, OrderFacts DEF Active
  <2>4. /\ WorksOn(c, t) /\ run[c].pc = "work"
        /\ \A d \in Commands : WorksOn(d, t) => d = c
    BY <1>4, <2>1 DEF Succeed, WorksOn, Working, MigrationInv, OneRunPerTask
  <2>5. ~IsFailing(t)
    BY <2>4 DEF WorksOn, Working
  <2>6. {q \in Phases : At(q) < At(p)} \subseteq worked[t]
    BY <2>1, <2>5 DEF Active
  <2>7. \A d \in Commands : run[d].pc = "failing" => run'[d] = run[d]
    BY <1>4 DEF Succeed
  <2> QED BY <2>2, <2>3, <2>6, <2>7
(* The task of a run that fails may show a phase too many until it has failed. *)
<1>5. ASSUME NEW c \in Commands, PhaseErrs(c) PROVE EarlierPhasesDone'
  <2>1. PICK t \in Commands : t = run[c].task
    BY <1>5, TasksInUse DEF PhaseErrs
  <2>2. /\ run'[c].pc = "failing" /\ run'[c].task = t /\ worked' = worked
        /\ \A u \in Commands \ {t} : task'[u] = task[u]
        /\ \A d \in Commands \ {c} : run'[d] = run[d]
        /\ run[c].pc = "work"
    BY <1>0, <1>5, <2>1 DEF PhaseErrs, MigrationTypeOK
  <2> QED BY <2>2
<1>6. ASSUME NEW c \in Commands, Fail(c) PROVE EarlierPhasesDone'
  <2>1. PICK t \in Commands : t = run[c].task
    BY <1>6, TasksInUse DEF Fail
  <2>2. /\ task'[t].phase = "FAILED" /\ worked' = worked
        /\ \A u \in Commands \ {t} : task'[u] = task[u]
        /\ \A d \in Commands \ {c} : run'[d] = run[d]
    BY <1>0, <1>6, <2>1 DEF Fail, MigrationTypeOK
  <2>3. \A u \in Commands \ {t} : IsFailing(u) => IsFailing(u)'
    BY <2>1, <2>2
  <2> QED BY <2>2, <2>3, PhaseNames
<1>7. ASSUME NEW c \in Commands, NEW p \in Direct, StartDirectly(c, p) PROVE EarlierPhasesDone'
  BY <1>2, <1>7 DEF StartDirectly, MaySend
<1>8. ASSUME NEW c \in Commands, Create(c) PROVE EarlierPhasesDone'
  BY <1>2, <1>8 DEF Create
<1>9. ASSUME NEW c \in Commands, Retarget(c) \/ Enter(c) \/ Leave(c) \/ Wake(c) \/ Check(c)
      PROVE  EarlierPhasesDone'
  <2>1. \A d \in Commands : run[d].pc = "failing" => run'[d] = run[d]
    <3>1. CASE Wake(c)
      <4>1. run[c].pc = "none"
        BY <3>1 DEF Wake, MigrationInv, RunsFollowCommands
      <4> QED BY <1>0, <3>1, <4>1 DEF Wake, MigrationTypeOK
    <3>2. CASE Retarget(c) \/ Enter(c) \/ Leave(c) \/ Check(c)
      BY <1>0, <3>2 DEF Retarget, Enter, Leave, Check, MigrationTypeOK
    <3> QED BY <1>9, <3>1, <3>2
  <2>2. CASE Retarget(c)
    BY <1>3, <2>1, <2>2 DEF Retarget
  <2>3. CASE Enter(c)
    BY <1>3, <2>1, <2>3 DEF Enter
  <2>4. CASE Leave(c)
    BY <1>3, <2>1, <2>4 DEF Leave
  <2>5. CASE Wake(c)
    BY <1>3, <2>1, <2>5 DEF Wake
  <2>6. CASE Check(c)
    BY <1>3, <2>1, <2>6 DEF Check
  <2> QED BY <1>9, <2>2, <2>3, <2>4, <2>5, <2>6
<1> QED
  BY <1>1, <1>4, <1>5, <1>6, <1>7, <1>8, <1>9, ChecksTouchNothing
  DEF MigrationNext, Moves, CommandStep, RunStep, PhaseStep, Ask, Lookup, Compare

(* The phases of RunMigration: however many commands start, retarget and
   restart a migration, a phase is only reached when every phase before it has
   ended without an error, unless Center itself starts it further on. *)
THEOREM PhasesInOrder ==
    ASSUME Direct \cap Phases \subseteq {"PRE_FLIGHT"}
    PROVE  MigrationSpec => []EarlierPhasesDone
<1>1. MigrationInit => EarlierPhasesDone
  BY PhaseNames DEF MigrationInit, EarlierPhasesDone, NoTask, none
<1>2. MigrationInv /\ EarlierPhasesDone /\ [MigrationNext]_migrationVars => EarlierPhasesDone'
  BY EarlierStep
<1> QED BY <1>1, <1>2, InvHolds, PTL DEF MigrationSpec

---------------------------------------------------------------------------
(* A phase that a task is at has not passed the furthest target; as long as
   no target was moved back, that is the target its run compares with. *)
CarriesTarget ==
    \A c \in Commands : command[c].pc \in {"lookup", "create", "compare", "retarget"} =>
        command[c].target \in Phases

HasTarget == \A t \in Commands : task[t].phase \in Phases => highest[t] \in Phases

UpToTarget ==
    ~backwards => \A t \in Commands : task[t].phase \in Phases =>
        task[t].target = highest[t] /\ At(task[t].phase) <= At(highest[t])

PauseInv == CarriesTarget /\ HasTarget /\ UpToTarget /\ PausesAtTarget

LEMMA CarriesStep ==
    ASSUME MigrationTypeOK, CarriesTarget, [MigrationNext]_migrationVars
    PROVE  CarriesTarget'
<1> USE DEF CarriesTarget, MigrationTypeOK
<1>1. CASE UNCHANGED command
  BY <1>1
<1>2. ASSUME NEW c \in Commands, NEW p \in Direct, StartDirectly(c, p) PROVE CarriesTarget'
  BY <1>2 DEF StartDirectly
<1>3. ASSUME NEW c \in Commands, NEW p \in Targets, Ask(c, p) PROVE CarriesTarget'
  BY <1>3, MigrationAssumption DEF Ask
<1>4. ASSUME NEW c \in Commands, CommandStep(c) PROVE CarriesTarget'
  <2>2. CASE Lookup(c)
    BY <2>2 DEF Lookup
  <2>3. CASE Create(c)
    BY <2>3 DEF Create
  <2>4. CASE Compare(c)
    BY <2>4 DEF Compare
  <2>5. CASE Retarget(c)
    BY <2>5 DEF Retarget
  <2>6. CASE Wake(c)
    BY <2>6 DEF Wake
  <2> QED BY <1>4, <2>2, <2>3, <2>4, <2>5, <2>6 DEF CommandStep
<1> QED
  BY <1>1, <1>2, <1>3, <1>4
  DEF MigrationNext, Moves, CheckStep, CheckBegins, CheckEnds, RunStep, PhaseStep, Enter, Check,
      Succeed, PhaseErrs, Fail, Leave, migrationVars

(* A step of a command or of a run keeps phases short of the targets. *)
LEMMA PauseStep ==
    ASSUME MigrationInv, MigrationInv', PauseInv, [MigrationNext]_migrationVars
    PROVE  HasTarget' /\ UpToTarget' /\ PausesAtTarget'
<1> USE DEF PauseInv, HasTarget, UpToTarget, PausesAtTarget
<1>0. /\ MigrationTypeOK /\ WorkingPhases /\ WorkingPhases'
      /\ \A p \in Phases : At(p) \in 1 .. 6
  BY OrderFacts DEF MigrationInv
<1> DEFINE Goal == HasTarget' /\ UpToTarget' /\ PausesAtTarget'
<1>1. CASE UNCHANGED <<task, highest, backwards, run>>
  BY <1>1
<1>2. ASSUME NEW c \in Commands, NEW p, NEW r \in Phases, NewTask(c, p, r), UNCHANGED backwards,
             command[c].pc # "done", p \in Phases => At(p) <= At(r)
      PROVE  Goal
  <2>1. /\ task'[c] = [phase |-> p, target |-> r, running |-> FALSE] /\ highest'[c] = r
        /\ \A t \in Commands : t # c => task'[t] = task[t] /\ highest'[t] = highest[t]
    BY <1>0, <1>2 DEF NewTask, MigrationTypeOK
  <2>2. run'[c].pc = "enter" /\ \A d \in Commands : d # c => run'[d] = run[d]
    BY <1>0, <1>2 DEF NewTask, MigrationTypeOK
  <2>3. \A d \in Commands : run[d].pc = "work" => run[d].task \in Commands /\ run[d].task # c
    BY <1>2, TasksInUse
  <2> QED BY <1>2, <2>1, <2>2, <2>3
<1>3. ASSUME NEW c \in Commands, NEW p \in Direct, StartDirectly(c, p) PROVE Goal
  <2>1. "COMPLETED" \in Phases /\ (p \in Phases => At(p) <= At("COMPLETED"))
    BY <1>0, PhaseNames, Positions
  <2> QED BY <1>2, <1>3, <2>1 DEF StartDirectly, MaySend
<1>4. ASSUME NEW c \in Commands, Create(c) PROVE Goal
  <2>1. command[c].target \in Phases
    BY <1>4 DEF Create, CarriesTarget
  <2>2. At("PRE_FLIGHT") <= At(command[c].target)
    BY <1>0, <2>1, Positions
  <2> QED BY <1>2, <1>4, <2>1, <2>2 DEF Create
<1>5. ASSUME NEW c \in Commands, Retarget(c) PROVE Goal
  <2> DEFINE t == command[c].found
             new == command[c].target
  <2>1. t \in Commands /\ new \in Phases
    BY <1>5, TasksInUse DEF Retarget, CarriesTarget
  <2>2. /\ task'[t].phase = task[t].phase /\ task'[t].target = new
        /\ highest'[t] = Further(highest[t], new)
        /\ \A u \in Commands : u # t => task'[u] = task[u] /\ highest'[u] = highest[u]
    BY <1>0, <1>5, <2>1 DEF Retarget, MigrationTypeOK
  <2>3. /\ backwards => backwards'
        /\ ~backwards' => ~(At(new) < At(highest[t]))
        /\ run' = run
    BY <1>5 DEF Retarget
  <2>4. highest[t] \in Phases =>
          /\ highest'[t] \in Phases /\ At(highest[t]) <= At(highest'[t])
          /\ ~backwards' => highest'[t] = new
    BY <1>0, <2>1, <2>2, <2>3, OrderFacts DEF Further
  <2>5. \A d \in Commands : run[d].pc = "work" =>
          run[d].task \in Commands /\ task[run[d].task].phase \in Phases
    BY <1>0, TasksInUse DEF WorkingPhases, Active
  <2>6. HasTarget'
    BY <2>1, <2>2, <2>4
  <2>7. UpToTarget'
    BY <1>0, <2>1, <2>2, <2>3, <2>4
  <2>8. PausesAtTarget'
    BY <1>0, <2>1, <2>2, <2>3, <2>4, <2>5
  <2> QED BY <2>6, <2>7, <2>8
<1>6. ASSUME NEW c \in Commands, Wake(c) PROVE Goal
  <2>1. UNCHANGED <<task, highest, backwards>>
    BY <1>6 DEF Wake
  <2>2. UNCHANGED run \/ \E t : run' = [run EXCEPT ![c] = [pc |-> "enter", task |-> t]]
    BY <1>6 DEF Wake
  <2>3. \A d \in Commands : run'[d].pc = "work" => run'[d] = run[d]
    BY <1>0, <2>2 DEF MigrationTypeOK
  <2> QED BY <2>1, <2>3
<1>7. ASSUME NEW c \in Commands, Enter(c) \/ Leave(c) PROVE Goal
  <2>1. /\ UNCHANGED task \/ \E v : task' = [task EXCEPT ![run[c].task].running = v]
        /\ UNCHANGED <<highest, backwards>>
    BY <1>7 DEF Enter, Leave
  <2>2. \A t \in Commands : task'[t].phase = task[t].phase /\ task'[t].target = task[t].target
    <3>1. CASE UNCHANGED task
      BY <3>1
    <3>2. ASSUME NEW v, task' = [task EXCEPT ![run[c].task].running = v]
          PROVE  \A t \in Commands : task'[t].phase = task[t].phase /\ task'[t].target = task[t].target
      BY <1>0, <3>2 DEF MigrationTypeOK
    <3> QED BY <2>1, <3>1, <3>2
  <2>3. \A d \in Commands : run'[d].pc = "work" => run'[d] = run[d]
    BY <1>0, <1>7 DEF Enter, Leave, MigrationTypeOK
  <2>4. \A d \in Commands : run[d].pc = "work" => run[d].task \in Commands
    BY TasksInUse
  <2> QED BY <2>1, <2>2, <2>3, <2>4
<1>8. ASSUME NEW c \in Commands, Check(c) PROVE Goal
  <2> DEFINE t == run[c].task
  <2>1. t \in Commands
    BY <1>8, TasksInUse DEF Check
  <2>2. UNCHANGED <<task, highest, backwards>>
    BY <1>8 DEF Check
  <2>3. /\ run'[c].task = t /\ (run'[c].pc = "work" => ~Stops(t))
        /\ \A d \in Commands : d # c => run'[d] = run[d]
    BY <1>0, <1>8 DEF Check, MigrationTypeOK
  <2>4. ~Stops(t) => task[t].phase \in Phases /\ task[t].phase # task[t].target
    BY DEF Stops
  <2>5. ~backwards /\ ~Stops(t) => At(task[t].phase) < At(highest[t])
    <3> SUFFICES ASSUME ~backwards, ~Stops(t) PROVE At(task[t].phase) < At(highest[t])
      OBVIOUS
    <3>1. /\ task[t].phase \in Phases /\ highest[t] \in Phases
          /\ task[t].phase # highest[t] /\ At(task[t].phase) <= At(highest[t])
      BY <2>1, <2>4
    <3> QED BY <1>0, <3>1, OrderFacts
  <2> QED BY <2>2, <2>3, <2>5
<1>9. ASSUME NEW c \in Commands, Succeed(c) PROVE Goal
  <2> DEFINE t == run[c].task
             p == task[t].phase
  <2>1. t \in Commands /\ p \in Active /\ run[c].pc = "work"
    BY <1>0, <1>9, TasksInUse DEF Succeed, WorkingPhases
  <2>2. /\ task'[t].phase = NextPhase(p) /\ task'[t].target = task[t].target
        /\ \A u \in Commands : u # t => task'[u] = task[u]
        /\ UNCHANGED <<highest, backwards>>
    BY <1>0, <1>9, <2>1 DEF Succeed, MigrationTypeOK
  <2>3. run'[c].pc = "check" /\ \A d \in Commands : d # c => run'[d] = run[d]
    BY <1>0, <1>9 DEF Succeed, MigrationTypeOK
  <2>4. \A d \in Commands : d # c /\ run[d].pc = "work" => run[d].task \in Commands /\ run[d].task # t
    BY <2>1, TasksInUse DEF MigrationInv, OneRunPerTask, WorksOn, Working
  <2>5. p \in Phases /\ highest[t] \in Phases
    BY <2>1 DEF Active
  <2>6. ~backwards => task[t].target = highest[t] /\ At(NextPhase(p)) <= At(highest[t])
    BY <1>0, <2>1, <2>5, OrderFacts
  <2> QED BY <2>1, <2>2, <2>3, <2>4, <2>5, <2>6
(* The phase an error may leave behind is the next one at most. *)
<1>11. ASSUME NEW c \in Commands, PhaseErrs(c) PROVE Goal
  <2> DEFINE t == run[c].task
             p == task[t].phase
  <2>1. t \in Commands /\ p \in Active /\ run[c].pc = "work"
    BY <1>0, <1>11, TasksInUse DEF PhaseErrs, WorkingPhases
  <2>2. /\ task'[t].phase \in {p, NextPhase(p)} /\ task'[t].target = task[t].target
        /\ \A u \in Commands : u # t => task'[u] = task[u]
        /\ UNCHANGED <<highest, backwards>>
    BY <1>0, <1>11, <2>1 DEF PhaseErrs, MigrationTypeOK
  <2>3. run'[c].pc = "failing" /\ \A d \in Commands : d # c => run'[d] = run[d]
    BY <1>0, <1>11 DEF PhaseErrs, MigrationTypeOK
  <2>4. \A d \in Commands : d # c /\ run[d].pc = "work" => run[d].task \in Commands /\ run[d].task # t
    BY <2>1, TasksInUse DEF MigrationInv, OneRunPerTask, WorksOn, Working
  <2>5. p \in Phases /\ highest[t] \in Phases
    BY <2>1 DEF Active
  <2>6. ~backwards => /\ task[t].target = highest[t] /\ At(p) <= At(highest[t])
                      /\ At(NextPhase(p)) <= At(highest[t])
    BY <1>0, <2>1, <2>5, OrderFacts
  <2> QED BY <2>1, <2>2, <2>3, <2>4, <2>5, <2>6
<1>10. ASSUME NEW c \in Commands, Fail(c) PROVE Goal
  <2> DEFINE t == run[c].task
  <2>1. t \in Commands
    BY <1>10, TasksInUse DEF Fail
  <2>2. /\ task'[t].phase = "FAILED" /\ UNCHANGED <<highest, backwards>>
        /\ \A u \in Commands : u # t => task'[u] = task[u]
    BY <1>0, <1>10, <2>1 DEF Fail, MigrationTypeOK
  <2>3. run'[c].pc = "leave" /\ \A d \in Commands : d # c => run'[d] = run[d]
    BY <1>0, <1>10 DEF Fail, MigrationTypeOK
  <2>4. \A d \in Commands : d # c /\ run[d].pc = "work" => run[d].task \in Commands /\ run[d].task # t
    BY <1>10, <2>1, TasksInUse DEF Fail, MigrationInv, OneRunPerTask, WorksOn, Working
  <2>5. "FAILED" \notin Phases
    BY PhaseNames
  <2> QED BY <2>1, <2>2, <2>3, <2>4, <2>5
<1> QED
  BY <1>1, <1>3, <1>4, <1>5, <1>6, <1>7, <1>8, <1>9, <1>10, <1>11, ChecksTouchNothing
  DEF MigrationNext, Moves, CommandStep, RunStep, PhaseStep, Ask, Lookup, Compare

(* The pause of RunMigration and the retargeting of reconcileMigrations: for
   any number of commands that overtake one another, a migration never works
   on its target or beyond, unless an older command moved a target back. *)
THEOREM PausesHold == MigrationSpec => []PausesAtTarget
<1>1. MigrationInit => PauseInv
  BY PhaseNames DEF MigrationInit, PauseInv, CarriesTarget, HasTarget, UpToTarget, PausesAtTarget,
                    NoTask, none
<1>2. MigrationInv /\ MigrationInv' /\ PauseInv /\ [MigrationNext]_migrationVars => PauseInv'
  BY CarriesStep, PauseStep DEF PauseInv, MigrationInv
<1>3. PauseInv => PausesAtTarget
  BY DEF PauseInv
<1> QED BY <1>1, <1>2, <1>3, InvHolds, PTL DEF MigrationSpec

---------------------------------------------------------------------------
(* No wake-up is lost. *)
Pursued(t) == WillWake(t) \/ IF task[t].running THEN GoesOn(t) ELSE WillEnter(t)

(* A step that does not make a task shorter of its target, nor takes away
   anybody who pursues it. *)
LEMMA StillPursued ==
    ASSUME NoLostWakeUp, NEW t \in Commands, missed => missed',
           task'[t].phase = task[t].phase, task'[t].target = task[t].target,
           Pursued(t) => Pursued(t)'
    PROVE  Short(t)' /\ ~missed' => Pursued(t)'
BY DEF NoLostWakeUp, Short, Pursued

(* Who pursues a task goes on to do so while the step is somebody else's. *)
LEMMA OthersPursue ==
    ASSUME NEW t \in Commands, Pursued(t), task'[t].running = task[t].running,
           NEW c \in Commands, \A d \in Commands \ {c} : command'[d] = command[d] /\ run'[d] = run[d],
           command[c].pc = "wake" /\ command[c].found = t =>
               command'[c].pc = "wake" /\ command'[c].found = t,
           run[c].pc \in {"check", "work", "failing"} /\ run[c].task = t =>
               run'[c].pc \in {"check", "work", "failing"} /\ run'[c].task = t,
           run[c].pc = "enter" /\ run[c].task = t => run'[c].pc = "enter" /\ run'[c].task = t
    PROVE  Pursued(t)'
<1>1. WillWake(t) => WillWake(t)'
  BY DEF WillWake
<1>2. GoesOn(t) => GoesOn(t)'
  BY DEF GoesOn
<1>3. WillEnter(t) => WillEnter(t)'
  BY DEF WillEnter
<1> QED BY <1>1, <1>2, <1>3 DEF Pursued

(* While a task is worked on by a run that is not leaving, it is pursued. *)
LEMMA RunningPursued ==
    ASSUME MigrationInv, NEW t \in Commands, task[t].running,
           \A d \in Commands : run[d] # [pc |-> "leave", task |-> t]
    PROVE  GoesOn(t)
<1>1. PICK d \in Commands : WorksOn(d, t)
  BY DEF MigrationInv, OneRunPerTask
<1>2. run[d] = [pc |-> run[d].pc, task |-> run[d].task]
  BY DEF MigrationInv, MigrationTypeOK
<1>3. run[d].pc # "leave"
  BY <1>1, <1>2 DEF WorksOn
<1> QED BY <1>1, <1>3 DEF WorksOn, Working, GoesOn

LEMMA WakeUpCommandStep ==
    ASSUME MigrationInv, NoLostWakeUp, NEW c \in Commands, CommandStep(c)
    PROVE  NoLostWakeUp'
<1> SUFFICES ASSUME NEW t \in Commands PROVE Short(t)' /\ ~missed' => Pursued(t)'
  BY DEF NoLostWakeUp, Pursued
<1>0. MigrationTypeOK
  BY DEF MigrationInv
<1>1. CASE Lookup(c) \/ Compare(c)
  <2>1. /\ UNCHANGED <<task, run, missed>> /\ command[c].pc # "wake"
        /\ \A d \in Commands \ {c} : command'[d] = command[d]
    BY <1>0, <1>1 DEF Lookup, Compare, MigrationTypeOK
  <2>2. Pursued(t) => Pursued(t)'
    BY <2>1, OthersPursue
  <2> QED BY <2>1, <2>2, StillPursued
<1>2. CASE Create(c)
  <2>1. /\ command[c].pc = "create" /\ missed' = missed
        /\ NewTask(c, "PRE_FLIGHT", command[c].target)
    BY <1>2 DEF Create
  <2>2. /\ run'[c] = [pc |-> "enter", task |-> c] /\ ~task'[c].running
        /\ \A d \in Commands \ {c} : /\ command'[d] = command[d] /\ run'[d] = run[d]
                                      /\ task'[d] = task[d]
    BY <1>0, <1>2 DEF Create, NewTask, MigrationTypeOK
  <2>3. CASE t = c
    BY <2>2, <2>3 DEF Pursued, WillEnter
  <2>4. CASE t # c
    <3>1. run[c].pc = "none"
      BY <2>1, NewTaskIsFree
    <3>2. Pursued(t) => Pursued(t)'
      BY <2>1, <2>2, <2>4, <3>1, OthersPursue
    <3> QED BY <2>1, <2>2, <2>4, <3>2, StillPursued
  <2> QED BY <2>3, <2>4
(* Who writes a target is about to look whether there is a run. *)
<1>3. CASE Retarget(c)
  <2>0. command[c].pc = "retarget"
    BY <1>3 DEF Retarget
  <2>1. PICK f \in Commands : f = command[c].found
    BY <2>0, TasksInUse
  <2>2. /\ command'[c].pc = "wake" /\ command'[c].found = f /\ missed' = missed /\ run' = run
        /\ \A d \in Commands \ {c} : command'[d] = command[d]
        /\ task'[f].running = task[f].running
        /\ \A u \in Commands \ {f} : task'[u] = task[u]
    BY <1>0, <1>3, <2>1 DEF Retarget, MigrationTypeOK
  <2>3. CASE t = f
    BY <2>2, <2>3 DEF Pursued, WillWake
  <2>4. CASE t # f
    <3>1. Pursued(t) => Pursued(t)'
      BY <2>0, <2>2, <2>4, OthersPursue
    <3> QED BY <2>2, <2>4, <3>1, StillPursued
  <2> QED BY <2>3, <2>4
(* It sees a run that will look at the target again, or one that is leaving,
   which is what missed records, or none, and starts one. *)
<1>4. CASE Wake(c)
  <2>0. command[c].pc = "wake"
    BY <1>4 DEF Wake
  <2>f. PICK f \in Commands : f = command[c].found
    BY <2>0, TasksInUse
  <2>1. run[c].pc = "none"
    BY <2>0 DEF MigrationInv, RunsFollowCommands
  <2>2. /\ task' = task /\ \A d \in Commands \ {c} : command'[d] = command[d] /\ run'[d] = run[d]
        /\ missed => missed'
    BY <1>0, <1>4 DEF Wake, MigrationTypeOK
  <2>3. CASE t # f
    <3>1. Pursued(t) => Pursued(t)'
      BY <2>0, <2>f, <2>1, <2>2, <2>3, OthersPursue
    <3> QED BY <2>2, <3>1, StillPursued
  <2>4. CASE t = f /\ task[f].running
    <3>1. run' = run /\ missed' = (missed \/ \E d \in Commands : run[d] = [pc |-> "leave", task |-> f])
      BY <1>4, <2>f, <2>4 DEF Wake
    <3>2. ~missed' => GoesOn(f)
      BY <2>4, <3>1, RunningPursued
    <3>3. GoesOn(f) => GoesOn(f)'
      BY <3>1 DEF GoesOn
    <3> QED BY <2>2, <2>4, <3>2, <3>3 DEF Pursued
  <2>5. CASE t = f /\ ~task[f].running
    <3>1. run' = [run EXCEPT ![c] = [pc |-> "enter", task |-> f]]
      BY <1>4, <2>f, <2>5 DEF Wake
    <3>2. run'[c].pc = "enter" /\ run'[c].task = f
      BY <1>0, <3>1 DEF MigrationTypeOK
    <3>3. WillEnter(f)'
      BY <3>2 DEF WillEnter
    <3>4. ~task'[f].running
      BY <2>2, <2>5
    <3> QED BY <2>5, <3>3, <3>4 DEF Pursued
  <2> QED BY <2>3, <2>4, <2>5
<1> QED BY <1>1, <1>2, <1>3, <1>4 DEF CommandStep

LEMMA WakeUpRunStep ==
    ASSUME MigrationInv, NoLostWakeUp, NEW c \in Commands, RunStep(c)
    PROVE  NoLostWakeUp'
<1> SUFFICES ASSUME NEW t \in Commands PROVE Short(t)' /\ ~missed' => Pursued(t)'
  BY DEF NoLostWakeUp, Pursued
<1>0. /\ MigrationTypeOK /\ run[c].pc # "none" /\ UNCHANGED command
      /\ missed => missed'
  BY DEF MigrationInv, RunStep, PhaseStep, Enter, Check, Succeed, PhaseErrs, Fail, Leave
<1>o. PICK own \in Commands : own = run[c].task
  BY <1>0, TasksInUse
<1>1. /\ run'[c].task = own /\ \A d \in Commands \ {c} : run'[d] = run[d]
      /\ \A u \in Commands \ {own} : task'[u] = task[u]
  <2>1. CASE Enter(c)
    BY <1>0, <1>o, <2>1 DEF Enter, MigrationTypeOK
  <2>2. CASE Check(c) \/ Succeed(c) \/ Fail(c) \/ Leave(c)
    BY <1>0, <1>o, <2>2 DEF Check, Succeed, Fail, Leave, MigrationTypeOK
  <2>3. CASE PhaseErrs(c)
    BY <1>0, <1>o, <2>3 DEF PhaseErrs, MigrationTypeOK
  <2> QED BY <2>1, <2>2, <2>3 DEF RunStep, PhaseStep
<1>2. CASE t # own
  <2>1. Pursued(t) => Pursued(t)'
    BY <1>0, <1>o, <1>1, <1>2, OthersPursue
  <2> QED BY <1>0, <1>o, <1>1, <1>2, <2>1, StillPursued
<1>3. CASE t = own
  <2>w. WillWake(own) => WillWake(own)'
    BY <1>0, <1>o DEF WillWake
  <2>1. CASE Enter(c)
    (* Another run has the task: this one is not needed. *)
    <3>1. CASE task[own].running
      <4>1. task' = task
        BY <1>o, <2>1, <3>1 DEF Enter
      <4>2. GoesOn(own) => GoesOn(own)'
        BY <1>0, <1>1, <2>1 DEF Enter, GoesOn
      <4>3. Pursued(own) => Pursued(own)'
        BY <2>w, <3>1, <4>1, <4>2 DEF Pursued
      <4> QED BY <1>0, <1>o, <1>3, <4>1, <4>3, StillPursued
    <3>2. CASE ~task[own].running
      <4>1. task'[own].running /\ run'[c].pc = "check"
        BY <1>0, <1>o, <2>1, <3>2 DEF Enter, MigrationTypeOK
      <4> QED BY <1>1, <1>3, <4>1 DEF Pursued, GoesOn
    <3> QED BY <3>1, <3>2
  (* It leaves only at its target, or a phase that nothing follows. *)
  <2>2. CASE Check(c)
    <3>1. task' = task /\ WorksOn(c, own) /\ task[own].running
      BY <1>o, <2>2 DEF Check, WorksOn, Working, MigrationInv, OneRunPerTask
    <3>2. run'[c].pc = IF Stops(own) THEN "leave" ELSE "work"
      BY <1>0, <1>o, <2>2 DEF Check, MigrationTypeOK
    <3>3. Stops(own) => ~Short(own)'
      <4>1. SUFFICES ASSUME Stops(own), Short(own) PROVE FALSE
        BY <3>1 DEF Short
      <4>2. task[own].phase \in Phases
        BY <4>1 DEF Short
      <4>3. task[own].phase = task[own].target /\ At(task[own].phase) < At(task[own].target)
        BY <4>1 DEF Short, Stops
      <4>4. At(task[own].phase) \in 1 .. 6
        BY <4>2, OrderFacts
      <4> QED BY <4>3, <4>4
    <3> QED BY <1>1, <1>3, <3>1, <3>2, <3>3 DEF Pursued, GoesOn
  <2>3. CASE Succeed(c)
    <3>1. /\ WorksOn(c, own) /\ task[own].running
          /\ task'[own].running = task[own].running /\ run'[c].pc = "check"
      BY <1>0, <1>o, <2>3 DEF Succeed, WorksOn, Working, MigrationInv, OneRunPerTask, MigrationTypeOK
    <3> QED BY <1>1, <1>3, <3>1 DEF Pursued, GoesOn
  <2>4. CASE Fail(c)
    <3>1. task'[own].phase = "FAILED"
      BY <1>0, <1>o, <2>4 DEF Fail, MigrationTypeOK
    <3> QED BY <1>3, <3>1, PhaseNames DEF Short
  <2>6. CASE PhaseErrs(c)
    <3>1. /\ WorksOn(c, own) /\ task[own].running
          /\ task'[own].running = task[own].running /\ run'[c].pc = "failing"
      BY <1>0, <1>o, <2>6 DEF PhaseErrs, WorksOn, Working, MigrationInv, OneRunPerTask, MigrationTypeOK
    <3> QED BY <1>1, <1>3, <3>1 DEF Pursued, GoesOn
  (* Nobody else works on the task: it is pursued by a command, or not short. *)
  <2>5. CASE Leave(c)
    <3>1. WorksOn(c, own) /\ task[own].running /\ run[c].pc = "leave"
      BY <1>o, <2>5 DEF Leave, WorksOn, Working, MigrationInv, OneRunPerTask
    <3>2. ~GoesOn(own)
      BY <3>1 DEF GoesOn, WorksOn, Working, MigrationInv, OneRunPerTask
    <3>3. task'[own].phase = task[own].phase /\ task'[own].target = task[own].target
      BY <1>0, <1>o, <2>5 DEF Leave, MigrationTypeOK
    <3>4. Pursued(own) => Pursued(own)'
      BY <2>w, <3>1, <3>2 DEF Pursued
    <3> QED BY <1>0, <1>o, <1>3, <3>3, <3>4, StillPursued
  <2> QED BY <2>1, <2>2, <2>3, <2>4, <2>5, <2>6 DEF RunStep, PhaseStep
<1> QED BY <1>2, <1>3

LEMMA WakeUpNewTask ==
    ASSUME MigrationInv, NoLostWakeUp, NEW c \in Commands, NEW p,
           StartDirectly(c, p) \/ Ask(c, p)
    PROVE  NoLostWakeUp'
<1> SUFFICES ASSUME NEW t \in Commands PROVE Short(t)' /\ ~missed' => Pursued(t)'
  BY DEF NoLostWakeUp, Pursued
<1>0. MigrationTypeOK
  BY DEF MigrationInv
<1>1. /\ command[c].pc = "unsent" /\ run[c].pc = "none" /\ missed' = missed
      /\ \A d \in Commands \ {c} : command'[d] = command[d] /\ run'[d] = run[d] /\ task'[d] = task[d]
  <2>1. command[c].pc = "unsent" /\ missed' = missed
    BY DEF StartDirectly, Ask, MaySend
  <2>2. \A d \in Commands \ {c} : command'[d] = command[d] /\ run'[d] = run[d] /\ task'[d] = task[d]
    BY <1>0 DEF StartDirectly, NewTask, Ask, MigrationTypeOK
  <2> QED BY <2>1, <2>2, NewTaskIsFree
<1>2. CASE t # c \/ Ask(c, p)
  <2>1. /\ task'[t] = task[t]
        /\ run'[c] = run[c] \/ (t # c /\ run[c].pc = "none")
    BY <1>1, <1>2 DEF Ask
  <2>2. Pursued(t) => Pursued(t)'
    BY <1>1, <2>1, OthersPursue
  <2> QED BY <1>1, <2>1, <2>2, StillPursued
<1>3. CASE t = c /\ StartDirectly(c, p)
  <2>1. run'[c] = [pc |-> "enter", task |-> c] /\ ~task'[c].running
    BY <1>0, <1>3 DEF StartDirectly, NewTask, MigrationTypeOK
  <2> QED BY <1>3, <2>1 DEF Pursued, WillEnter
<1> QED BY <1>2, <1>3

(* reconcileMigrations and RunMigration: for any number of commands that
   create, retarget and wake a migration, and any number of runs of it, a task
   short of its target is always in somebody's hands, unless a new target came
   while its run was ending. *)
THEOREM NoWakeUpLost == MigrationSpec => []NoLostWakeUp
<1>1. MigrationInit => NoLostWakeUp
  BY PhaseNames DEF MigrationInit, NoLostWakeUp, Short, NoTask, none
<1>2. MigrationInv /\ NoLostWakeUp /\ [MigrationNext]_migrationVars => NoLostWakeUp'
  <2> SUFFICES ASSUME MigrationInv, NoLostWakeUp, [MigrationNext]_migrationVars PROVE NoLostWakeUp'
    OBVIOUS
  <2>1. CASE CheckStep \/ UNCHANGED migrationVars
    BY <2>1, ChecksTouchNothing DEF NoLostWakeUp, Short, WillWake, WillEnter, GoesOn
  <2>2. ASSUME NEW c \in Commands, Moves(c) PROVE NoLostWakeUp'
    BY <2>2, WakeUpNewTask, WakeUpCommandStep, WakeUpRunStep DEF Moves
  <2> QED BY <2>1, <2>2 DEF MigrationNext
<1> QED BY <1>1, <1>2, InvHolds, PTL DEF MigrationSpec
=============================================================================
