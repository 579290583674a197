----------------------------- MODULE Migration -----------------------------
(***************************************************************************)
(* One database migration of the agent: the goroutine that takes it        *)
(* through its phases (migration.go: RunMigration), the reconcile commands *)
(* that create or retarget it (reconcile.go: reconcileMigrations) and the  *)
(* migration command that starts it directly (agent.go: HandleCommand).    *)
(* Commands are handled in goroutines of their own and several may be for  *)
(* this migration at once; each creates at most one task and starts at     *)
(* most one RunMigration, so tasks and runs are named after them.          *)
(***************************************************************************)
EXTENDS Integers, Sequences, FiniteSets, SequencesExt

CONSTANTS Sends,       \* the commands that concern this migration, as Center sends them
          Targets,     \* target phases Center asks for
          Direct,      \* phases it names in migration commands
          Failing,     \* phases that may fail
          MaxDirect    \* migration commands (a bound for TLC)

Commands == Range(Sends)

(* The phases as the constants of migration.go spell them, in their order. *)
Order  == <<"PRE_FLIGHT", "SCHEMA", "FULL_LOAD", "CDC", "CUTOVER", "COMPLETED">>
Phases == Range(Order)
At(p)  == CHOOSE i \in DOMAIN Order : Order[i] = p

NextPhase(p) == Order[At(p) + 1]

ASSUME MigrationAssumption ==
    /\ Targets \subseteq Phases /\ Direct \subseteq STRING
    /\ Failing \subseteq Phases \ {"COMPLETED"}
    /\ IsInjective(Sends) /\ "none" \notin Commands /\ MaxDirect \in Nat

none == "none"

VARIABLES
    command,     \* where each command's goroutine is: [pc, target, found]
    task,        \* MigrationTask: [phase, target, running]
    registered,  \* migrations[id]
    run,         \* each command's RunMigration: [pc, task]
    worked,      \* the phases of each task that ended without an error
    highest,     \* the furthest target each task has been given
    missed,      \* a new target came while the task's run was ending
    backwards,   \* an older command moved a target back
    checking     \* performLocalChecks has the agent's mutex

migrationVars == <<command, task, registered, run, worked, highest, missed, backwards, checking>>

NoTask == [phase |-> none, target |-> none, running |-> FALSE]

MigrationInit ==
    /\ command = [c \in Commands |-> [pc |-> "unsent", target |-> none, found |-> none]]
    /\ task = [c \in Commands |-> NoTask]
    /\ registered = none
    /\ run = [c \in Commands |-> [pc |-> "none", task |-> none]]
    /\ worked = [c \in Commands |-> {}]
    /\ highest = [c \in Commands |-> none]
    /\ missed = FALSE /\ backwards = FALSE /\ checking = FALSE

---------------------------------------------------------------------------
(* performLocalChecks has the agent's mutex while it asks Patroni, whose API
   may never answer, and the rest of the node.  Everybody else who needs the
   mutex has it for one step. *)
CheckBegins ==
    /\ ~checking /\ checking' = TRUE
    /\ UNCHANGED <<command, task, registered, run, worked, highest, missed, backwards>>

CheckEnds ==
    /\ checking /\ checking' = FALSE
    /\ UNCHANGED <<command, task, registered, run, worked, highest, missed, backwards>>

---------------------------------------------------------------------------
(* A task is created and its run started; it registers itself. *)
NewTask(c, phase, target) ==
    /\ task' = [task EXCEPT ![c] = [phase |-> phase, target |-> target, running |-> FALSE]]
    /\ highest' = [highest EXCEPT ![c] = target]
    /\ run' = [run EXCEPT ![c] = [pc |-> "enter", task |-> c]]

(* Commands arrive in order, and are then handled in any. *)
MaySend(c) ==
    /\ command[c].pc = "unsent"
    /\ \A i, j \in DOMAIN Sends : i < j /\ Sends[j] = c => command[Sends[i]].pc # "unsent"

(* A migration command names the phase to start with; the target is the end. *)
StartedDirectly == {c \in Commands : command[c].pc = "done" /\ command[c].target = none}

StartDirectly(c, phase) ==
    /\ MaySend(c) /\ Cardinality(StartedDirectly) < MaxDirect
    /\ NewTask(c, phase, "COMPLETED")
    /\ command' = [command EXCEPT ![c].pc = "done"]
    /\ UNCHANGED <<registered, worked, missed, backwards, checking>>

(* A reconcile command carries a target.  Center moves targets forward only. *)
Ask(c, target) ==
    /\ MaySend(c)
    /\ \A d \in Commands : command[d].target # none => At(command[d].target) <= At(target)
    /\ command' = [command EXCEPT ![c] = [pc |-> "lookup", target |-> target, found |-> none]]
    /\ UNCHANGED <<task, registered, run, worked, highest, missed, backwards, checking>>

(* reconcileMigrations looks the task up under the mutex ... *)
Lookup(c) ==
    /\ command[c].pc = "lookup" /\ ~checking
    /\ command' = [command EXCEPT ![c] = [@ EXCEPT !.pc = IF registered = none THEN "create" ELSE "compare",
                                                  !.found = registered]]
    /\ UNCHANGED <<task, registered, run, worked, highest, missed, backwards, checking>>

Create(c) ==
    /\ command[c].pc = "create"
    /\ NewTask(c, "PRE_FLIGHT", command[c].target)
    /\ command' = [command EXCEPT ![c].pc = "done"]
    /\ UNCHANGED <<registered, worked, missed, backwards, checking>>

(* ... compares its target without it ... *)
Compare(c) ==
    /\ command[c].pc = "compare"
    /\ command' = [command EXCEPT ![c].pc =
                       IF command[c].target = task[command[c].found].target THEN "done" ELSE "retarget"]
    /\ UNCHANGED <<task, registered, run, worked, highest, missed, backwards, checking>>

(* ... writes the new one under it ... *)
Further(p, q) == IF At(p) < At(q) THEN q ELSE p

Retarget(c) ==
    LET t == command[c].found IN
    /\ command[c].pc = "retarget" /\ ~checking
    /\ task' = [task EXCEPT ![t].target = command[c].target]
    /\ highest' = [highest EXCEPT ![t] = Further(@, command[c].target)]
    /\ backwards' = (backwards \/ At(command[c].target) < At(highest[t]))
    /\ command' = [command EXCEPT ![c].pc = "wake"]
    /\ UNCHANGED <<registered, run, worked, missed, checking>>

\* Variant: a task that has paused is left alone.
WakeNothing(c) ==
    /\ command[c].pc = "wake"
    /\ command' = [command EXCEPT ![c].pc = "done"]
    /\ UNCHANGED <<task, registered, run, worked, highest, missed, backwards, checking>>

(* ... and starts a run, without it, if it sees none. *)
Wake(c) ==
    LET t == command[c].found IN
    /\ command[c].pc = "wake"
    /\ IF task[t].running
         THEN /\ missed' = (missed \/ \E d \in Commands : run[d] = [pc |-> "leave", task |-> t])
              /\ UNCHANGED run
         ELSE /\ run' = [run EXCEPT ![c] = [pc |-> "enter", task |-> t]]
              /\ UNCHANGED missed
    /\ command' = [command EXCEPT ![c].pc = "done"]
    /\ UNCHANGED <<task, registered, worked, highest, backwards, checking>>

---------------------------------------------------------------------------
(* RunMigration. *)
\* Variant: a run starts although another one has the task.
EnterUnchecked(c) ==
    LET t == run[c].task IN
    /\ run[c].pc = "enter" /\ ~checking
    /\ task' = [task EXCEPT ![t].running = TRUE]
    /\ registered' = t
    /\ run' = [run EXCEPT ![c].pc = "check"]
    /\ UNCHANGED <<command, worked, highest, missed, backwards, checking>>

\* Variant: a run takes a migration that is registered for one that is running.
EnterUnregistered(c) ==
    LET t == run[c].task IN
    /\ run[c].pc = "enter" /\ ~checking
    /\ IF task[t].running \/ registered = t
         THEN /\ run' = [run EXCEPT ![c].pc = "gone"]
              /\ UNCHANGED <<task, registered>>
         ELSE /\ task' = [task EXCEPT ![t].running = TRUE]
              /\ registered' = t
              /\ run' = [run EXCEPT ![c].pc = "check"]
    /\ UNCHANGED <<command, worked, highest, missed, backwards, checking>>

Enter(c) ==
    LET t == run[c].task IN
    /\ run[c].pc = "enter" /\ ~checking
    /\ IF task[t].running
         THEN /\ run' = [run EXCEPT ![c].pc = "gone"]
              /\ UNCHANGED <<task, registered>>
         ELSE /\ task' = [task EXCEPT ![t].running = TRUE]
              /\ registered' = t
              /\ run' = [run EXCEPT ![c].pc = "check"]
    /\ UNCHANGED <<command, worked, highest, missed, backwards, checking>>

\* Variant: the target is passed by one phase.
StopsPastTarget(t) ==
    \/ task[t].target # "COMPLETED" /\ task[t].phase = NextPhase(task[t].target)
    \/ task[t].phase \notin Phases \ {"COMPLETED"}

(* The run ends at its target, at the end, at a failure and at a phase it
   does not know. *)
Stops(t) ==
    \/ task[t].phase = task[t].target /\ task[t].phase # "COMPLETED"
    \/ task[t].phase \notin Phases \ {"COMPLETED"}

Check(c) ==
    /\ run[c].pc = "check"
    /\ run' = [run EXCEPT ![c].pc = IF Stops(run[c].task) THEN "leave" ELSE "work"]
    /\ UNCHANGED <<command, task, registered, worked, highest, missed, backwards, checking>>

(* A phase ends well: the phase that follows it, and the save of the task,
   which nothing ever loads. *)
Succeed(c) ==
    LET t == run[c].task
        p == task[t].phase IN
    /\ run[c].pc = "work"
    /\ task' = [task EXCEPT ![t].phase = NextPhase(p)]
    /\ worked' = [worked EXCEPT ![t] = @ \cup {p}]
    /\ run' = [run EXCEPT ![c].pc = "check"]
    /\ UNCHANGED <<command, registered, highest, missed, backwards, checking>>

\* Variant: the error of the CDC phase is forgotten, as its assignment of the
\* next phase invites.
ForgetsErrorOfCDC(c) ==
    LET t == run[c].task
        p == task[t].phase IN
    /\ run[c].pc = "work" /\ p \in Failing
    /\ task' = [task EXCEPT ![t].phase = IF p = "CDC" THEN "CUTOVER" ELSE p]
    /\ run' = [run EXCEPT ![c].pc = IF p = "CDC" THEN "check" ELSE "failing"]
    /\ UNCHANGED <<command, registered, worked, highest, missed, backwards, checking>>

(* A phase ends with an error.  The CDC phase moves on all the same, and the
   status of the agent shows it, until ... *)
PhaseErrs(c) ==
    LET t == run[c].task
        p == task[t].phase IN
    /\ run[c].pc = "work" /\ p \in Failing
    /\ task' = [task EXCEPT ![t].phase = IF p = "CDC" THEN NextPhase(p) ELSE p]
    /\ run' = [run EXCEPT ![c].pc = "failing"]
    /\ UNCHANGED <<command, registered, worked, highest, missed, backwards, checking>>

(* ... the error is looked at. *)
Fail(c) ==
    /\ run[c].pc = "failing"
    /\ task' = [task EXCEPT ![run[c].task].phase = "FAILED"]
    /\ run' = [run EXCEPT ![c].pc = "leave"]
    /\ UNCHANGED <<command, registered, worked, highest, missed, backwards, checking>>

(* The deferred function. *)
Leave(c) ==
    /\ run[c].pc = "leave" /\ ~checking
    /\ task' = [task EXCEPT ![run[c].task].running = FALSE]
    /\ run' = [run EXCEPT ![c].pc = "gone"]
    /\ UNCHANGED <<command, registered, worked, highest, missed, backwards, checking>>

---------------------------------------------------------------------------
CommandStep(c) == Lookup(c) \/ Create(c) \/ Compare(c) \/ Retarget(c) \/ Wake(c)
PhaseStep(c)   == Succeed(c) \/ PhaseErrs(c)
RunStep(c)     == Enter(c) \/ Check(c) \/ PhaseStep(c) \/ Fail(c) \/ Leave(c)

CheckStep      == CheckBegins \/ CheckEnds

Moves(c) ==
    \/ \E p \in Direct : StartDirectly(c, p)
    \/ \E p \in Targets : Ask(c, p)
    \/ CommandStep(c)
    \/ RunStep(c)

MigrationNext == CheckStep \/ \E c \in Commands : Moves(c)

MigrationSpec == MigrationInit /\ [][MigrationNext]_migrationVars

(* Goroutines get to run, and whoever waits for a mutex that changes hands
   for ever gets it in the end.  That the local checks let go of it is not
   assumed, nor that the work of a phase ends. *)
OwnStep(c) == CommandStep(c) \/ Enter(c) \/ Check(c) \/ Fail(c) \/ Leave(c)

MigrationFairSpec ==
    /\ MigrationSpec
    /\ \A c \in Commands : SF_migrationVars(OwnStep(c))

(* The databases, pg_dump and psql answer in the end: none has a timeout. *)
PhasesEnd == \A c \in Commands : WF_migrationVars(PhaseStep(c))

---------------------------------------------------------------------------
Working == {"check", "work", "failing", "leave"}

TaskPhases  == Phases \cup {"FAILED", none} \cup Direct
TaskTargets == Targets \cup {"COMPLETED", none}
MaybeTask   == Commands \cup {none}
CommandPcs  == {"unsent", "lookup", "create", "compare", "retarget", "wake", "done"}
RunPcs      == {"none", "enter", "gone"} \cup Working

(* Type invariant of a migration. *)
MigrationTypeOK ==
    /\ command \in [Commands -> [pc : CommandPcs, target : TaskTargets, found : MaybeTask]]
    /\ task \in [Commands -> [phase : TaskPhases, target : TaskTargets, running : BOOLEAN]]
    /\ registered \in MaybeTask
    /\ run \in [Commands -> [pc : RunPcs, task : MaybeTask]]
    /\ worked \in [Commands -> SUBSET Phases]
    /\ highest \in [Commands -> TaskTargets]
    /\ {missed, backwards, checking} \subseteq BOOLEAN

(* However many runs are started for a task, one at a time works on it, and
   IsRunning says whether one does. *)
WorksOn(c, t) == run[c].task = t /\ run[c].pc \in Working

OneRunPerTask ==
    \A t \in Commands :
        /\ \A c, d \in Commands : WorksOn(c, t) /\ WorksOn(d, t) => c = d
        /\ task[t].running <=> \E c \in Commands : WorksOn(c, t)

(* A phase is worked on, or reached, only after every phase before it ended
   without an error: a failed subscription check never leads to a cutover.  The
   status may show one for the moment in which the run is failing. *)
IsFailing(t) == \E c \in Commands : run[c].task = t /\ run[c].pc = "failing"

EarlierPhasesDone ==
    \A t \in Commands : task[t].phase \in Phases /\ ~IsFailing(t) =>
        {p \in Phases : At(p) < At(task[t].phase)} \subseteq worked[t]

(* The migration never works on the target it was asked to pause at, nor on
   a phase beyond it, unless the goroutine of an older command overtook that
   of a newer one and moved the target back. *)
PausesAtTarget ==
    ~backwards => \A c \in Commands : run[c].pc = "work" =>
        At(task[run[c].task].phase) < At(highest[run[c].task])

(* A task gets to its target or fails, through any number of pauses and new
   targets, unless a new one came while its run was ending: as long as the
   local checks do not keep the agent's mutex for good, and phases end. *)
ReachesTarget ==
    PhasesEnd /\ []<>~checking =>
        \A t \in Commands :
            task[t].target # none ~> \/ task[t].phase = "FAILED" \/ missed
                                     \/ /\ task[t].phase \in Phases
                                        /\ At(task[t].phase) >= At(task[t].target)

(* No wake-up is lost: whatever overtakes what, a task short of its target has
   a command that is about to look whether it runs, or a run that will look at
   the target again or is failing, unless a new target came while its run was
   ending.  What ReachesTarget needs besides this is that goroutines get to
   run, phases end and the mutex is let go. *)
Short(t) == /\ task[t].phase \in Phases \ {"COMPLETED"}
            /\ At(task[t].phase) < At(task[t].target)

WillWake(t)   == \E c \in Commands : command[c].pc = "wake" /\ command[c].found = t
WillEnter(t)  == \E c \in Commands : run[c].pc = "enter" /\ run[c].task = t
GoesOn(t)     == \E c \in Commands : run[c].pc \in {"check", "work", "failing"} /\ run[c].task = t

NoLostWakeUp ==
    \A t \in Commands : Short(t) /\ ~missed =>
        WillWake(t) \/ IF task[t].running THEN GoesOn(t) ELSE WillEnter(t)
=============================================================================
