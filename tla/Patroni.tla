------------------------------ MODULE Patroni ------------------------------
(***************************************************************************)
(* The Patroni manager (internal/agent/patroni.go) and everybody who calls *)
(* it: the run loop that bootstraps Patroni once and then checks on it     *)
(* every 30 seconds holding the agent's mutex, and the handlers of restart,*)
(* reconcile and promote commands (agent.go, reconcile.go, ha.go), each in *)
(* a goroutine of its own.                                                 *)
(*                                                                         *)
(* Bootstrap leaves a reaper behind that waits for the process; Stop waits *)
(* for the same process in a second goroutine.  Both call Wait of one      *)
(* exec.Cmd: one of them reaps the process, the other is told there is no  *)
(* such child, and then both receive from the channel on which the         *)
(* goroutine that watches the context reports exactly once.                *)
(***************************************************************************)
EXTENDS Naturals

CONSTANTS Restarts, Reconciles, Promotes,   \* the commands of each kind
          MaxStarts,                        \* Patroni processes ever started
          Faults                            \* what may go wrong: see FaultKinds

(* Patroni ends by itself, takes longer than 30 seconds to stop, cannot be
   started, or its REST API accepts a request and does not answer. *)
FaultKinds == {"crash", "slow", "start", "hang"}

ASSUME PatroniAssumption ==
    /\ MaxStarts \in Nat \ {0}
    /\ Faults \subseteq FaultKinds
    /\ Restarts \cap (Reconciles \cup Promotes) = {}
    /\ Reconciles \cap Promotes = {}

Commands == Restarts \cup Reconciles \cup Promotes
Gens == 1 .. MaxStarts

VARIABLES
    cmd,      \* pm.cmd: the generation whose handle is held, 0 when nil
    starts,   \* generations started
    proc,     \* each generation's process: an "ended" one is a zombie until reaped
    watch,    \* the generations whose context watcher has not reported yet
    reaper,   \* the goroutine Bootstrap left for each generation
    waiter,   \* the goroutine Stop has waiting for each generation
    hung,     \* the REST API does not answer
    role,     \* the node's role
    pc, seen, \* each handler: where it is, and the role GetStatus was told
    checker   \* performLocalChecks, which holds a.mu unless it is idle

procVars    == <<cmd, starts, proc>>
waitVars    == <<watch, reaper, waiter>>
worldVars   == <<hung, role>>
handlerVars == <<pc, seen>>
patroniVars == <<procVars, waitVars, worldVars, handlerVars, checker>>

(* pm.mu is held across steps by Stop alone, a.mu by performLocalChecks. *)
PatroniMuFree == \A c \in Commands : pc[c] # "stopping"
AgentMuFree   == checker = "idle"

Alive == \E g \in Gens : proc[g] = "alive"

(* The run loop has bootstrapped Patroni. *)
PatroniInit ==
    /\ cmd = 1 /\ starts = 1
    /\ proc   = [g \in Gens |-> IF g = 1 THEN "alive" ELSE "none"]
    /\ watch  = {1}
    /\ reaper = [g \in Gens |-> IF g = 1 THEN "wait" ELSE "none"]
    /\ waiter = [g \in Gens |-> "none"]
    /\ hung = FALSE /\ role \in {"replica", "master"}
    /\ pc = [c \in Commands |-> "idle"] /\ seen = [c \in Commands |-> "?"]
    /\ checker = "idle"

---------------------------------------------------------------------------
(* The world: Patroni ends when it was told to, or by itself; its API hangs
   while it lives; the cluster fails over. *)
Ends(g) ==
    /\ proc[g] = "alive" /\ proc' = [proc EXCEPT ![g] = "ended"]
    /\ hung' = FALSE
    /\ UNCHANGED <<cmd, starts, waitVars, role, handlerVars, checker>>

Told(g) == waiter[g] # "none"

Crash(g)    == "crash" \in Faults /\ Ends(g)
ObeyTerm(g) == Told(g) /\ Ends(g)

Hang ==
    /\ "hang" \in Faults /\ Alive /\ ~hung
    /\ hung' = TRUE
    /\ UNCHANGED <<procVars, waitVars, role, handlerVars, checker>>

AnswersAgain ==
    /\ hung /\ hung' = FALSE
    /\ UNCHANGED <<procVars, waitVars, role, handlerVars, checker>>

FailsOver ==
    /\ role' \in {"replica", "master"} \ {role}
    /\ UNCHANGED <<procVars, waitVars, hung, handlerVars, checker>>

---------------------------------------------------------------------------
(* The two waits for one process.  Signals go to a zombie without an error;
   a process that was reaped has no handle any more. *)
Signalable(g) == proc[g] \in {"alive", "ended"}
Reapable(g)   == proc[g] \in {"ended", "reaped"}

ReaperWaits(g) ==
    /\ reaper[g] = "wait" /\ Reapable(g)
    /\ proc' = [proc EXCEPT ![g] = "reaped"]
    /\ reaper' = [reaper EXCEPT ![g] = "watch"]
    /\ UNCHANGED <<cmd, starts, watch, waiter, worldVars, handlerVars, checker>>

ReaperHears(g) ==
    /\ reaper[g] = "watch" /\ g \in watch
    /\ watch' = watch \ {g}
    /\ reaper' = [reaper EXCEPT ![g] = "lock"]
    /\ UNCHANGED <<procVars, waiter, worldVars, handlerVars, checker>>

\* Variant: there is no reaper (the handle is kept for Stop).
ReaperKeepsHandle(g) ==
    /\ reaper[g] = "lock" /\ PatroniMuFree
    /\ reaper' = [reaper EXCEPT ![g] = "gone"]
    /\ UNCHANGED <<procVars, watch, waiter, worldVars, handlerVars, checker>>

(* The handle may be that of a later process by now. *)
ReaperForgets(g) ==
    /\ reaper[g] = "lock" /\ PatroniMuFree
    /\ cmd' = IF cmd = g THEN 0 ELSE cmd
    /\ reaper' = [reaper EXCEPT ![g] = "gone"]
    /\ UNCHANGED <<starts, proc, watch, waiter, worldVars, handlerVars, checker>>

(* Wait returns at once when the reaper's Wait has filled ProcessState in,
   which it reads without a lock. *)
WaiterBegins(g) ==
    /\ waiter[g] = "begin"
    /\ \/ proc[g] = "reaped" /\ waiter' = [waiter EXCEPT ![g] = "sent"]
       \/ reaper[g] # "lock" /\ waiter' = [waiter EXCEPT ![g] = "wait"]
    /\ UNCHANGED <<procVars, watch, reaper, worldVars, handlerVars, checker>>

WaiterWaits(g) ==
    /\ waiter[g] = "wait" /\ Reapable(g)
    /\ proc' = [proc EXCEPT ![g] = "reaped"]
    /\ waiter' = [waiter EXCEPT ![g] = "watch"]
    /\ UNCHANGED <<cmd, starts, watch, reaper, worldVars, handlerVars, checker>>

WaiterHears(g) ==
    /\ waiter[g] = "watch" /\ g \in watch
    /\ watch' = watch \ {g}
    /\ waiter' = [waiter EXCEPT ![g] = "sent"]
    /\ UNCHANGED <<procVars, reaper, worldVars, handlerVars, checker>>

---------------------------------------------------------------------------
Go(c, p) == pc' = [pc EXCEPT ![c] = p]

(* Stop.  SIGTERM on a process that was reaped fails, and so does Stop. *)
StopBegins(c) ==
    /\ pc[c] = "stop" /\ PatroniMuFree
    /\ CASE cmd = 0             -> Go(c, "boot") /\ UNCHANGED waiter
         [] cmd \in Gens /\ Signalable(cmd)
              -> Go(c, "stopping") /\ waiter' = [waiter EXCEPT ![cmd] = "begin"]
         [] OTHER               -> Go(c, "record") /\ UNCHANGED waiter
    /\ UNCHANGED <<procVars, watch, reaper, worldVars, seen, checker>>

StopEnds(c) ==
    /\ pc[c] = "stopping" /\ waiter[cmd] = "sent"
    /\ cmd' = 0 /\ Go(c, "boot")
    /\ UNCHANGED <<starts, proc, waitVars, worldVars, seen, checker>>

(* 30 seconds are long for goroutines that only have to run: the timer wins
   against a process that does not end, or a waiter that can never hear. *)
Expires(g) ==
    \/ "slow" \in Faults /\ proc[g] = "alive"
    \/ waiter[g] = "watch" /\ g \notin watch

Killed(g) == IF proc[g] = "alive" THEN [proc EXCEPT ![g] = "ended"] ELSE proc

\* Variant: Stop goes on waiting for a process that is no longer there.
StopNeverExpires(c) ==
    /\ pc[c] = "stopping" /\ Expires(cmd) /\ proc[cmd] = "alive"
    /\ proc' = Killed(cmd) /\ cmd' = 0 /\ Go(c, "record")
    /\ hung' = FALSE
    /\ UNCHANGED <<starts, waitVars, role, seen, checker>>

StopTimesOut(c) ==
    /\ pc[c] = "stopping" /\ Expires(cmd)
    /\ proc' = Killed(cmd) /\ cmd' = 0 /\ Go(c, "record")
    /\ hung' = (hung /\ proc' = proc)
    /\ UNCHANGED <<starts, waitVars, role, seen, checker>>

---------------------------------------------------------------------------
(* Bootstrap: refused while a signal reaches the process held; a failed
   start leaves a handle without a process, which counts as none. *)
Running == cmd # 0 /\ Signalable(cmd)

NewProcess ==
    LET g == starts + 1
    IN  /\ g \in Gens
        /\ cmd' = g /\ starts' = g
        /\ proc' = [proc EXCEPT ![g] = "alive"]
        /\ watch' = watch \cup {g}
        /\ reaper' = [reaper EXCEPT ![g] = "wait"]
        /\ UNCHANGED waiter

\* Variant: Bootstrap does not look whether Patroni runs.
BootUnchecked(c) ==
    /\ pc[c] = "boot" /\ PatroniMuFree
    /\ \/ NewProcess
       \/ "start" \in Faults /\ cmd' = 0 /\ UNCHANGED <<starts, proc, waitVars>>
    /\ Go(c, "record")
    /\ UNCHANGED <<worldVars, seen, checker>>

Boot(c) ==
    /\ pc[c] = "boot" /\ PatroniMuFree
    /\ IF Running
         THEN UNCHANGED <<procVars, waitVars>>
         ELSE \/ NewProcess
              \/ "start" \in Faults /\ cmd' = 0 /\ UNCHANGED <<starts, proc, waitVars>>
    /\ Go(c, "record")
    /\ UNCHANGED <<worldVars, seen, checker>>

---------------------------------------------------------------------------
(* GetStatus: an HTTP request without a timeout, then pm.mu to cache what it
   was told.  GetCurrentState, CheckPromotionSafety and Promote each ask. *)
Asking == {"current", "safety", "promote"}

(* Where the answer takes the handler.  "none" is an error; the state of a
   Patroni that answers may be another than "running", and the manifest may
   ask nothing of PostgreSQL. *)
After(c, stage, answer) ==
    CASE stage = "current" /\ answer = "none"    -> {"boot", "record"}
      [] stage = "current" /\ answer = "replica" -> {"boot", "safety", "update", "record"}
      [] stage = "current" /\ answer = "master"  -> {"boot", "update", "record"}
      [] stage = "safety"  /\ answer = "replica" -> {"checks"}
      [] stage = "promote" /\ answer # "none"    -> {"post"}
      [] OTHER                                   -> {"record"}

Ask(c) ==
    /\ pc[c] \in Asking /\ seen[c] = "?" /\ ~hung
    /\ \/ Alive /\ seen' = [seen EXCEPT ![c] = role] /\ UNCHANGED pc
       \/ (\E p \in After(c, pc[c], "none") : Go(c, p)) /\ UNCHANGED seen
    /\ UNCHANGED <<procVars, waitVars, worldVars, checker>>

Cache(c) ==
    /\ pc[c] \in Asking /\ seen[c] # "?" /\ PatroniMuFree
    /\ \E p \in After(c, pc[c], seen[c]) : Go(c, p)
    /\ seen' = [seen EXCEPT ![c] = "?"]
    /\ UNCHANGED <<procVars, waitVars, worldVars, checker>>

(* The rest of CheckPromotionSafety: the lag may be too high and either
   query may fail, which only the second one minds; the node must still be
   in recovery. *)
Checks(c) ==
    /\ pc[c] = "checks"
    /\ \/ Go(c, "record")
       \/ role = "replica" /\ Go(c, IF c \in Promotes THEN "update" ELSE "promote")
    /\ UNCHANGED <<procVars, waitVars, worldVars, seen, checker>>

(* UpdateConfig of patroni.go only logs, under pm.mu. *)
UpdatePatroniConfig(c) ==
    /\ pc[c] = "update" /\ PatroniMuFree
    /\ Go(c, IF c \in Promotes THEN "promote" ELSE "record")
    /\ UNCHANGED <<procVars, waitVars, worldVars, seen, checker>>

(* Promote posts a switchover, and a failover if that is refused. *)
Post(c) ==
    /\ pc[c] = "post" /\ ~hung
    /\ role' \in IF Alive THEN {role, "master"} ELSE {role}
    /\ Go(c, "record")
    /\ UNCHANGED <<procVars, waitVars, hung, seen, checker>>

---------------------------------------------------------------------------
(* HandleCommand, in a goroutine per command; RecordCommandResult and the
   first step of Reconcile need the agent's mutex.  The load guard may end
   a reconcile there. *)
Handle(c) ==
    /\ pc[c] = "idle"
    /\ Go(c, CASE c \in Restarts   -> "stop"
               [] c \in Reconciles -> "store"
               [] c \in Promotes   -> "safety")
    /\ UNCHANGED <<procVars, waitVars, worldVars, seen, checker>>

StoreDesiredState(c) ==
    /\ pc[c] = "store" /\ AgentMuFree
    /\ Go(c, "current") \/ Go(c, "record")
    /\ UNCHANGED <<procVars, waitVars, worldVars, seen, checker>>

RecordResult(c) ==
    /\ pc[c] = "record" /\ AgentMuFree
    /\ Go(c, "done")
    /\ UNCHANGED <<procVars, waitVars, worldVars, seen, checker>>

(* performLocalChecks takes a.mu and asks for the status before it looks at
   the rest of the node. *)
CheckBegins ==
    /\ checker = "idle" /\ checker' = "ask"
    /\ UNCHANGED <<procVars, waitVars, worldVars, handlerVars>>

CheckAsks ==
    /\ checker = "ask" /\ ~hung
    /\ checker' \in {"rest"} \cup (IF Alive THEN {"cache"} ELSE {})
    /\ UNCHANGED <<procVars, waitVars, worldVars, handlerVars>>

CheckCaches ==
    /\ checker = "cache" /\ PatroniMuFree /\ checker' = "rest"
    /\ UNCHANGED <<procVars, waitVars, worldVars, handlerVars>>

CheckEnds ==
    /\ checker = "rest" /\ checker' = "idle"
    /\ UNCHANGED <<procVars, waitVars, worldVars, handlerVars>>

---------------------------------------------------------------------------
World == FailsOver \/ Hang \/ AnswersAgain \/ \E g \in Gens : Crash(g) \/ ObeyTerm(g)

ReaperStep(g) == ReaperWaits(g) \/ ReaperHears(g) \/ ReaperForgets(g)
WaiterStep(g) == WaiterBegins(g) \/ WaiterWaits(g) \/ WaiterHears(g)

StopStep(c)  == StopBegins(c) \/ StopEnds(c) \/ StopTimesOut(c)
AgentStep(c) == StoreDesiredState(c) \/ RecordResult(c)
WebStep(c)   == Ask(c) \/ Post(c)
OtherStep(c) == Boot(c) \/ Cache(c) \/ UpdatePatroniConfig(c)

CheckStep == CheckAsks \/ CheckCaches

PatroniNext ==
    \/ World
    \/ \E g \in Gens : ReaperStep(g) \/ WaiterStep(g)
    \/ \E c \in Commands : Handle(c) \/ StopStep(c) \/ AgentStep(c) \/ WebStep(c)
                           \/ OtherStep(c) \/ Checks(c)
    \/ CheckBegins \/ CheckStep \/ CheckEnds

PatroniSpec == PatroniInit /\ [][PatroniNext]_patroniVars

(* Goroutines get to run and the 30 second timer fires; a mutex is handed to
   those who wait for it in the end (a.mu changes hands for ever: strong
   fairness), and so is an answer of an API that hangs again and again; a
   Patroni that was told to stop stops.  That the API recovers from hanging,
   or that the rest of the node answers, is not assumed. *)
PatroniFairSpec ==
    /\ PatroniSpec
    /\ \A g \in Gens : /\ WF_patroniVars(ReaperStep(g)) /\ WF_patroniVars(WaiterStep(g))
                       /\ WF_patroniVars(ObeyTerm(g))
    /\ \A c \in Commands : /\ WF_patroniVars(StopStep(c)) /\ WF_patroniVars(OtherStep(c))
                           /\ SF_patroniVars(AgentStep(c)) /\ SF_patroniVars(WebStep(c))
    /\ SF_patroniVars(CheckStep)

(* Neither the queries of CheckPromotionSafety nor what the local checks ask of
   pgbackrest, ZFS and the databases has a timeout. *)
NodeAnswers == WF_patroniVars(CheckEnds) /\ \A c \in Commands : WF_patroniVars(Checks(c))

---------------------------------------------------------------------------
(* Type invariant of the Patroni manager and its callers. *)
PatroniTypeOK ==
    /\ cmd \in 0 .. MaxStarts /\ starts \in Gens
    /\ proc \in [Gens -> {"none", "alive", "ended", "reaped"}]
    /\ watch \subseteq Gens
    /\ reaper \in [Gens -> {"none", "wait", "watch", "lock", "gone"}]
    /\ waiter \in [Gens -> {"none", "begin", "wait", "watch", "sent"}]
    /\ hung \in BOOLEAN /\ role \in {"replica", "master"}
    /\ pc \in [Commands -> Asking \cup {"idle", "store", "stop", "stopping", "boot", "checks",
                                        "update", "post", "record", "done"}]
    /\ seen \in [Commands -> {"?", "replica", "master"}]
    /\ checker \in {"idle", "ask", "cache", "rest"}

(* A Patroni that is alive is the one the manager holds: there are never two
   of them on one data directory, and none that Stop could not reach,
   whatever commands, crashes, timeouts and late reapers meet. *)
Supervised == \A g \in Gens : proc[g] = "alive" => cmd = g

(* A Patroni that has ended does not stay in the manager's hands, where it
   would make every later Bootstrap answer "already running". *)
GoneIsNoticed == \A g \in Gens : cmd = g /\ proc[g] # "alive" ~> cmd # g

(* Unless the API, or a program or database of the node, stops answering for
   good, every command has its result recorded in the end: the two mutexes, the process that is waited for
   twice and the requests that have no timeout never block one another. *)
CommandsEnd ==
    NodeAnswers /\ []<>~hung => \A c \in Commands : pc[c] # "idle" ~> pc[c] = "done"

(* agent.go's comment in the restart handler: "Patroni will be restarted by
   the run loop if it was bootstrapped".  When Stop has begun to stop a
   Patroni, another one is started. *)
RestartBringsBack ==
    \A c \in Restarts, g \in Gens : pc[c] = "stopping" /\ cmd = g ~> starts > g
=============================================================================
