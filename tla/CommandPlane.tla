---------------------------- MODULE CommandPlane ----------------------------
(***************************************************************************)
(* The agent's side of the stream to AxiomPostgres Center: commands are    *)
(* received in order and handled each in a goroutine of its own, their     *)
(* results are collected in memory and sent with the heartbeats, and the   *)
(* desired state of a reconcile command is kept in memory and on disk      *)
(* (agent.go: StartReconciliationLoop, HandleCommand, RecordCommandResult, *)
(* LoadInitialState; reconcile.go: Reconcile; the retry loop of main.go).  *)
(***************************************************************************)
EXTENDS Integers, FiniteSetsExt

CONSTANTS
    N,           \* the commands Center sends are 1 .. N, in this order
    Reconciles,  \* those that carry a desired state
    SaveMayFail, \* SaveState may return an error
    MaxStreams,  \* streams opened (a bound for TLC); the last one stays up
    MaxCrashes   \* crashes of the agent (a bound for TLC)

ASSUME CommandsAssumption ==
    /\ N \in Nat /\ MaxStreams \in Nat \ {0} /\ MaxCrashes \in Nat
    /\ Reconciles \subseteq 1 .. N /\ SaveMayFail \in BOOLEAN

Commands == 1 .. N
Streams  == 1 .. MaxStreams
none     == 0

VARIABLES
    handler,   \* where each HandleCommand goroutine is
    results,   \* commandResults, in memory
    desired,   \* desiredState in memory: the command it came with
    disk,      \* its copy in bbolt
    stream,    \* the stream that is up, or none
    opened,    \* streams opened so far
    sender,    \* the heartbeat goroutine of each stream, with the results it read
    sent,      \* the results of successful Sends
    late,      \* results recorded while a sender was between read and clear
    excused,   \* history: two reconciles were between arriving and persisting
               \* at once, or a save failed
    checking,  \* performLocalChecks has the agent's mutex
    crashes

stateVars  == <<desired, disk, excused>>
resultVars == <<results, late>>
streamVars == <<stream, opened, sender, sent>>
processVars == <<checking, crashes>>
planeVars  == <<handler, resultVars, stateVars, streamVars, processVars>>

PlaneInit ==
    /\ handler = [c \in Commands |-> "none"]
    /\ results = {} /\ late = {} /\ sent = {}
    /\ desired = none /\ disk = none /\ excused = FALSE
    /\ stream = none /\ opened = 0
    /\ sender = [s \in Streams |-> [pc |-> "none", batch |-> {}]]
    /\ checking = FALSE /\ crashes = 0

---------------------------------------------------------------------------
(* The retry loop of main.go and StartReconciliationLoop.  A loop that ends
   leaves its heartbeat goroutine behind. *)
OpenStream ==
    /\ stream = none /\ opened < MaxStreams
    /\ stream' = opened + 1 /\ opened' = opened + 1
    /\ sender' = [sender EXCEPT ![opened + 1] = [pc |-> "wait", batch |-> {}]]
    /\ UNCHANGED <<handler, resultVars, stateVars, sent, processVars>>

BreakStream ==
    /\ stream # none /\ opened < MaxStreams
    /\ stream' = none
    /\ UNCHANGED <<handler, resultVars, stateVars, opened, sender, sent, processVars>>

Receive(c) ==
    /\ stream # none /\ handler[c] = "none"
    /\ \A d \in 1 .. c - 1 : handler[d] # "none"
    /\ handler' = [handler EXCEPT ![c] = IF c \in Reconciles THEN "store" ELSE "act"]
    /\ excused' = (\/ excused
                   \/ c \in Reconciles /\ \E d \in Commands : handler[d] \in {"store", "persist"})
    /\ UNCHANGED <<resultVars, desired, disk, streamVars, processVars>>

---------------------------------------------------------------------------
(* performLocalChecks has the agent's mutex while it asks Patroni, whose API
   may never answer, and the rest of the node.  Everybody else who needs the
   mutex has it for one step. *)
CheckBegins ==
    /\ ~checking /\ checking' = TRUE
    /\ UNCHANGED <<handler, resultVars, stateVars, streamVars, crashes>>

CheckEnds ==
    /\ checking /\ checking' = FALSE
    /\ UNCHANGED <<handler, resultVars, stateVars, streamVars, crashes>>

---------------------------------------------------------------------------
(* Reconcile stores the desired state under the agent's mutex and persists
   it after releasing it; a failure is only logged. *)
Store(c) ==
    /\ handler[c] = "store" /\ ~checking
    /\ desired' = c
    /\ handler' = [handler EXCEPT ![c] = "persist"]
    /\ UNCHANGED <<resultVars, disk, excused, streamVars, processVars>>

Persist(c) ==
    /\ handler[c] = "persist"
    /\ \/ disk' = c /\ UNCHANGED excused
       \/ SaveMayFail /\ UNCHANGED disk /\ excused' = TRUE
    /\ handler' = [handler EXCEPT ![c] = "act"]
    /\ UNCHANGED <<resultVars, desired, streamVars, processVars>>

(* The command is carried out, deferred by the load guard, or fails: in every
   case its goroutine goes on to record a result. *)
Act(c) ==
    /\ handler[c] = "act"
    /\ handler' = [handler EXCEPT ![c] = "record"]
    /\ UNCHANGED <<resultVars, stateVars, streamVars, processVars>>

(* RecordCommandResult. *)
Record(c) ==
    /\ handler[c] = "record" /\ ~checking
    /\ results' = results \cup {c}
    /\ late' = IF \E s \in Streams : sender[s].pc \in {"send", "clear"} THEN late \cup {c} ELSE late
    /\ handler' = [handler EXCEPT ![c] = "done"]
    /\ UNCHANGED <<stateVars, streamVars, processVars>>

---------------------------------------------------------------------------
\* Variant: the list is cleared when it is read.
ReadAndClear(s) ==
    /\ sender[s].pc = "wait" /\ ~checking
    /\ sender' = [sender EXCEPT ![s] = [pc |-> "send", batch |-> results]]
    /\ results' = {}
    /\ UNCHANGED <<handler, late, stateVars, stream, opened, sent, processVars>>

(* One heartbeat: read the results under the read lock, send them without
   it, and clear the list under the write lock if the send worked. *)
ReadResults(s) ==
    /\ sender[s].pc = "wait" /\ ~checking
    /\ sender' = [sender EXCEPT ![s] = [pc |-> "send", batch |-> results]]
    /\ UNCHANGED <<handler, resultVars, stateVars, stream, opened, sent, processVars>>

SendHeartbeat(s) ==
    /\ sender[s].pc = "send"
    /\ IF stream = s
         THEN /\ sent' = sent \cup sender[s].batch
              /\ sender' = [sender EXCEPT ![s].pc = "clear"]
         ELSE /\ sender' = [sender EXCEPT ![s] = [pc |-> "gone", batch |-> {}]]
              /\ UNCHANGED sent
    /\ UNCHANGED <<handler, resultVars, stateVars, stream, opened, processVars>>

\* Variant: the heartbeat goroutine ends after its first heartbeat.
ClearAndEnd(s) ==
    /\ sender[s].pc = "clear" /\ ~checking
    /\ results' = {}
    /\ sender' = [sender EXCEPT ![s] = [pc |-> "gone", batch |-> {}]]
    /\ UNCHANGED <<handler, late, stateVars, stream, opened, sent, processVars>>

ClearResults(s) ==
    /\ sender[s].pc = "clear" /\ ~checking
    /\ results' = {}
    /\ sender' = [sender EXCEPT ![s] = [pc |-> "wait", batch |-> {}]]
    /\ UNCHANGED <<handler, late, stateVars, stream, opened, sent, processVars>>

---------------------------------------------------------------------------
(* The agent dies.  The next process has the desired state of the disk and
   nothing of the commands the last one was working on: "cut" is a reconcile
   that had not persisted its state, "lost" a result that was not sent. *)
AfterCrash(c) ==
    CASE handler[c] \in {"store", "persist"}      -> "cut"
      [] handler[c] \in {"none", "cut"}           -> handler[c]
      [] handler[c] = "done" /\ c \in sent        -> "done"
      [] OTHER                                    -> "lost"

\* Variant: the desired state on disk is not loaded.
NothingLoaded == none

(* LoadInitialState. *)
LoadedState == disk

Crash ==
    /\ crashes < MaxCrashes /\ crashes' = crashes + 1 /\ opened < MaxStreams
    /\ handler' = [c \in Commands |-> AfterCrash(c)]
    /\ results' = {} /\ late' = late \cap sent
    /\ desired' = LoadedState
    /\ stream' = none /\ checking' = FALSE
    /\ sender' = [s \in Streams |-> IF s <= opened THEN [pc |-> "gone", batch |-> {}] ELSE sender[s]]
    /\ UNCHANGED <<disk, excused, opened, sent>>

---------------------------------------------------------------------------
HandlerStep(c) == Store(c) \/ Persist(c) \/ Act(c) \/ Record(c)
CheckStep      == CheckBegins \/ CheckEnds
SenderStep(s)  == ReadResults(s) \/ SendHeartbeat(s) \/ ClearResults(s)

PlaneNext ==
    \/ OpenStream \/ BreakStream \/ Crash \/ CheckStep
    \/ \E c \in Commands : Receive(c) \/ HandlerStep(c)
    \/ \E s \in Streams : SenderStep(s)

PlaneSpec == PlaneInit /\ [][PlaneNext]_planeVars

(* main.go reconnects for ever, the heartbeat ticker keeps ticking, and a
   heartbeat that waits for a mutex that changes hands for ever gets it in the
   end.  That the local checks let go of it is not assumed. *)
MutexStep(s) == ReadResults(s) \/ ClearResults(s)

PlaneFairSpec ==
    /\ PlaneSpec
    /\ WF_planeVars(OpenStream)
    /\ \A s \in Streams : SF_planeVars(MutexStep(s))

(* Send waits for the flow control of the stream, with no timeout. *)
SendsReturn == \A s \in Streams : WF_planeVars(SendHeartbeat(s))

---------------------------------------------------------------------------
(* Type invariant of the command plane. *)
PlaneTypeOK ==
    /\ handler \in [Commands -> {"none", "store", "persist", "act", "record", "done", "cut", "lost"}]
    /\ results \cup late \cup sent \subseteq Commands
    /\ {desired, disk} \subseteq Reconciles \cup {none} /\ excused \in BOOLEAN
    /\ stream \in Streams \cup {none} /\ opened \in 0 .. MaxStreams
    /\ checking \in BOOLEAN /\ crashes \in 0 .. MaxCrashes
    /\ sender \in [Streams -> [pc : {"none", "wait", "send", "clear", "gone"}, batch : SUBSET Commands]]

(* A result is only ever forgotten if it was recorded between the moment a
   heartbeat read the list and the moment it cleared it: a heartbeat that
   fails, a broken stream and two heartbeat goroutines at once lose nothing. *)
OnlyLateResultsForgotten ==
    \A c \in Commands : handler[c] = "done" => c \in results \cup sent \cup late

(* A result on the list is sent to Center, in the end and over any number of
   broken streams, unless it was recorded in that window or the agent died: as
   long as Sends return and the local checks do not keep the mutex for good. *)
ResultsReachCenter ==
    SendsReturn /\ []<>~checking =>
        \A c \in Commands : c \in results ~> (c \in sent \cup late \/ handler[c] = "lost")

(* The agent's memory and its disk agree on the desired state, and it is the
   newest one that was not cut short, across crashes too, unless two reconcile
   commands were handled at once or a save failed. *)
Newest == Max({none} \cup {c \in Reconciles : handler[c] \notin {"none", "cut"}})

OnlyRacesDiverge ==
    (~excused /\ \A c \in Commands : handler[c] \notin {"store", "persist"})
      => disk = Newest /\ desired = Newest

=============================================================================
