----------------------------- MODULE Collector -----------------------------
(***************************************************************************)
(* The load-signal collector (internal/signals/collector.go) and the two   *)
(* goroutines with which Agent.Run drains its channels: a poll loop asks   *)
(* Patroni for the role and PostgreSQL for the connections, puts a         *)
(* snapshot on a buffered channel, and a drainer pushes it into the window *)
(* the decision engine reads: the circular buffer of Window, whose only    *)
(* writer it is.  Shutdown runs when Run returns.                          *)
(***************************************************************************)
EXTENDS Window, SequencesExt

CONSTANTS NodeRoles,    \* what Patroni answers
          Loads,        \* what PostgreSQL answers: active, max
          ChannelSize,  \* capacity of Snapshots and Errors (DefaultSnapshotBufferSize)
          Modulus       \* where the numbers of snapshots start over

Sources == {"patroni", "postgres"}

(* History: snapshots are numbered in the order the channel takes them, which
   no step reads.  To tell all of them apart, the numbers start over past
   WindowSize + ChannelSize + 1, which may be in flight or in the window. *)
Next1(n) == (n + 1) % Modulus
Reading(r, load, n) == [role |-> r, active |-> load.active, max |-> load.max, number |-> n]
Readings == {Reading(r, load, n) : r \in NodeRoles, load \in Loads, n \in 0 .. Modulus - 1}

ASSUME CollectorAssumption ==
    /\ ChannelSize \in Nat \ {0} /\ Modulus \in Nat \ {0} /\ NodeRoles # {}
    /\ Readings \subseteq Snapshots

VARIABLES
    up,          \* the sources that answer
    role,        \* the node's role now
    cancelled,   \* the context of Run is cancelled
    poller,      \* the poll loop: where it is, and the role it has read
    accepted,    \* number of the next snapshot the channel takes
    snapshotsCh, snapshotsOpen,
    Errors, errorsOpen,      \* errors are counted, not told apart
    drainer,     \* the goroutine that pushes into the window, and what it holds
    errDrainer,  \* the one that logs the errors
    shutdown,    \* where Shutdown is
    panicked     \* a send on a closed channel

envVars       == <<up, role, cancelled>>
channelVars   == <<accepted, snapshotsCh, snapshotsOpen, Errors, errorsOpen>>
drainVars     == <<drainer, errDrainer, ringVars>>
collectorVars == <<envVars, poller, channelVars, drainVars, shutdown, panicked>>

CollectorInit ==
    /\ up = Sources /\ role \in NodeRoles /\ cancelled = FALSE
    /\ poller = [pc |-> "patroni", role |-> role]   \* an immediate poll on start
    /\ accepted = 0
    /\ snapshotsCh = <<>> /\ snapshotsOpen = TRUE
    /\ Errors = 0 /\ errorsOpen = TRUE
    /\ drainer = [pc |-> "receive", held |-> <<>>] /\ errDrainer = "receive"
    /\ RingInit
    /\ shutdown = "idle" /\ panicked = FALSE

---------------------------------------------------------------------------
(* The world: sources come and go, the cluster fails over, the agent is told
   to stop.  A cancelled context makes both fetches fail. *)
SourceChanges ==
    /\ \E s \in Sources : up' = IF s \in up THEN up \ {s} ELSE up \cup {s}
    /\ UNCHANGED <<role, cancelled, poller, channelVars, drainVars, shutdown, panicked>>

RoleChanges ==
    /\ role' \in NodeRoles \ {role}
    /\ UNCHANGED <<up, cancelled, poller, channelVars, drainVars, shutdown, panicked>>

Cancel ==
    /\ ~cancelled /\ cancelled' = TRUE
    /\ UNCHANGED <<up, role, poller, channelVars, drainVars, shutdown, panicked>>

Answers(s) == s \in up /\ ~cancelled

---------------------------------------------------------------------------
(* loop and poll. *)
Tick ==
    /\ poller.pc = "wait"
    /\ poller' = [poller EXCEPT !.pc = "patroni"]
    /\ UNCHANGED <<envVars, channelVars, drainVars, shutdown, panicked>>

LoopEnds ==
    /\ poller.pc = "wait"
    /\ cancelled \/ shutdown # "idle"
    /\ poller' = [poller EXCEPT !.pc = "gone"]
    /\ UNCHANGED <<envVars, channelVars, drainVars, shutdown, panicked>>

FetchPatroni ==
    /\ poller.pc = "patroni" /\ Answers("patroni")
    /\ poller' = [pc |-> "postgres", role |-> role]
    /\ UNCHANGED <<envVars, channelVars, drainVars, shutdown, panicked>>

FetchPgStats ==
    /\ poller.pc = "postgres" /\ Answers("postgres")
    /\ poller' = [poller EXCEPT !.pc = "push"]
    /\ UNCHANGED <<envVars, channelVars, drainVars, shutdown, panicked>>

\* Variant: the loop ends with the first poll that fails.
FetchFailsForGood ==
    /\ poller.pc \in Sources /\ ~Answers(poller.pc)
    /\ IF errorsOpen
         THEN /\ Errors' = IF Errors < ChannelSize THEN Errors + 1 ELSE Errors
              /\ UNCHANGED panicked
         ELSE panicked' = TRUE /\ UNCHANGED Errors
    /\ poller' = [poller EXCEPT !.pc = "gone"]
    /\ UNCHANGED <<envVars, accepted, snapshotsCh, snapshotsOpen, errorsOpen, drainVars, shutdown>>

(* Either fetch fails: an error goes on the Errors channel if it has room,
   and the poll is over. *)
FetchFails ==
    /\ poller.pc \in Sources /\ ~Answers(poller.pc)
    /\ IF errorsOpen
         THEN /\ Errors' = IF Errors < ChannelSize THEN Errors + 1 ELSE Errors
              /\ UNCHANGED panicked
         ELSE panicked' = TRUE /\ UNCHANGED Errors
    /\ poller' = [poller EXCEPT !.pc = "wait"]
    /\ UNCHANGED <<envVars, accepted, snapshotsCh, snapshotsOpen, errorsOpen, drainVars, shutdown>>

\* Variant: a full channel makes room by giving up its oldest snapshot.
QueueReplacing(snap) ==
    snapshotsCh' = IF Len(snapshotsCh) < ChannelSize THEN Append(snapshotsCh, snap)
                                                 ELSE Append(Tail(snapshotsCh), snap)

(* The send takes the snapshot if the channel has room. *)
Queue(snap) == Len(snapshotsCh) < ChannelSize /\ snapshotsCh' = Append(snapshotsCh, snap)

PushSnapshot ==
    /\ poller.pc = "push"
    /\ IF snapshotsOpen
         THEN /\ \E load \in Loads : Queue(Reading(poller.role, load, accepted))
              /\ UNCHANGED panicked
         ELSE panicked' = TRUE /\ UNCHANGED snapshotsCh
    /\ accepted' = Next1(accepted)
    /\ poller' = [poller EXCEPT !.pc = "wait"]
    /\ UNCHANGED <<envVars, snapshotsOpen, Errors, errorsOpen, drainVars, shutdown>>

(* DroppedSnapshots is counted for monitoring only. *)
DropSnapshot ==
    /\ poller.pc = "push" /\ snapshotsOpen /\ Len(snapshotsCh) = ChannelSize
    /\ poller' = [poller EXCEPT !.pc = "wait"]
    /\ UNCHANGED <<envVars, channelVars, drainVars, shutdown, panicked>>

---------------------------------------------------------------------------
(* The drain goroutines of Run: each ranges over a channel until it is
   closed and empty. *)
Receive ==
    /\ drainer.pc = "receive" /\ snapshotsCh # <<>>
    /\ drainer' = [pc |-> "push", held |-> <<Head(snapshotsCh)>>]
    /\ snapshotsCh' = Tail(snapshotsCh)
    /\ UNCHANGED <<envVars, poller, accepted, snapshotsOpen, Errors, errorsOpen,
                   errDrainer, ringVars, shutdown, panicked>>

(* Window.Push. *)
PushToWindow ==
    /\ drainer.pc = "push" /\ RingPush(Head(drainer.held))
    /\ drainer' = [pc |-> "receive", held |-> <<>>]
    /\ UNCHANGED <<envVars, poller, channelVars, errDrainer, shutdown, panicked>>

\* Variant: a receive from the closed channel is taken for a snapshot.
DrainerPushesZero ==
    /\ drainer.pc = "receive" /\ snapshotsCh = <<>> /\ ~snapshotsOpen
    /\ drainer' = [pc |-> "push", held |-> <<ZeroSnapshot>>]
    /\ UNCHANGED <<envVars, poller, channelVars, errDrainer, ringVars, shutdown, panicked>>

DrainerEnds ==
    /\ drainer.pc = "receive" /\ snapshotsCh = <<>> /\ ~snapshotsOpen
    /\ drainer' = [drainer EXCEPT !.pc = "gone"]
    /\ UNCHANGED <<envVars, poller, channelVars, errDrainer, ringVars, shutdown, panicked>>

LogError ==
    /\ errDrainer = "receive" /\ Errors > 0
    /\ Errors' = Errors - 1
    /\ UNCHANGED <<envVars, poller, accepted, snapshotsCh, snapshotsOpen, errorsOpen,
                   drainVars, shutdown, panicked>>

ErrDrainerEnds ==
    /\ errDrainer = "receive" /\ Errors = 0 /\ ~errorsOpen
    /\ errDrainer' = "gone"
    /\ UNCHANGED <<envVars, poller, channelVars, drainer, ringVars, shutdown, panicked>>

---------------------------------------------------------------------------
(* Shutdown, deferred by Run, which returns when its context is cancelled. *)
BeginShutdown ==
    /\ shutdown = "idle" /\ cancelled
    /\ shutdown' = "waiting"
    /\ UNCHANGED <<envVars, poller, channelVars, drainVars, panicked>>

\* Variant: Errors stays open.
CloseSnapshotsOnly ==
    /\ shutdown = "waiting" /\ poller.pc = "gone"
    /\ snapshotsOpen' = FALSE
    /\ shutdown' = "returned"
    /\ UNCHANGED <<envVars, poller, accepted, snapshotsCh, Errors, errorsOpen, drainVars, panicked>>

(* Nobody can tell the two closes apart: the loop is gone by then. *)
CloseChannels ==
    /\ shutdown = "waiting" /\ poller.pc = "gone"
    /\ snapshotsOpen' = FALSE /\ errorsOpen' = FALSE
    /\ shutdown' = "returned"
    /\ UNCHANGED <<envVars, poller, accepted, snapshotsCh, Errors, drainVars, panicked>>

---------------------------------------------------------------------------
PollStep == FetchPatroni \/ FetchPgStats \/ FetchFails \/ PushSnapshot \/ DropSnapshot

CollectorNext ==
    \/ SourceChanges \/ RoleChanges \/ Cancel
    \/ Tick \/ LoopEnds \/ PollStep
    \/ Receive \/ PushToWindow \/ DrainerEnds \/ LogError \/ ErrDrainerEnds
    \/ BeginShutdown \/ CloseChannels

CollectorSpec == CollectorInit /\ [][CollectorNext]_collectorVars

(* Goroutines get to run, both fetches time out, the ticker ticks, and the
   select of the loop takes a ready case other than the tick in the end. *)
CollectorFairSpec ==
    /\ CollectorSpec
    /\ WF_collectorVars(PollStep) /\ WF_collectorVars(Tick) /\ SF_collectorVars(LoopEnds)
    /\ WF_collectorVars(Receive \/ PushToWindow \/ DrainerEnds)
    /\ WF_collectorVars(LogError \/ ErrDrainerEnds)
    /\ WF_collectorVars(BeginShutdown \/ CloseChannels)

---------------------------------------------------------------------------
(* Type invariant of the collector: neither channel ever holds more than
   its capacity. *)
CollectorTypeOK ==
    /\ up \subseteq Sources /\ role \in NodeRoles /\ cancelled \in BOOLEAN
    /\ poller \in [pc : {"wait", "push", "gone"} \cup Sources, role : NodeRoles]
    /\ accepted \in 0 .. Modulus - 1
    /\ snapshotsCh \in Seq(Readings) /\ Len(snapshotsCh) <= ChannelSize
    /\ Errors \in 0 .. ChannelSize
    /\ snapshotsOpen \in BOOLEAN /\ errorsOpen \in BOOLEAN /\ panicked \in BOOLEAN
    /\ drainer \in [pc : {"receive", "push", "gone"}, held : Seq(Readings)]
    /\ drainer.pc = "push" => Len(drainer.held) = 1
    /\ errDrainer \in {"receive", "gone"}
    /\ RingTypeOK
    /\ shutdown \in {"idle", "waiting", "returned"}

(* The loop never sends on a channel that Shutdown has closed. *)
NoSendOnClosed == ~panicked

(* What the channel takes reaches the window once and in order, with nothing
   missing in between: only the newest snapshot is ever dropped, so what the
   engine reads is never out of order.  A drain goroutine that has ended left
   nothing behind, and nothing will come any more. *)
InOrder ==
    LET inFlight == Retained \o drainer.held \o snapshotsCh
    IN  /\ \A i \in 1 .. Len(inFlight) - 1 : inFlight[i + 1].number = Next1(inFlight[i].number)
        /\ inFlight # <<>> => Next1(Last(inFlight).number) = accepted
        /\ drainer.pc = "gone" => inFlight = Retained /\ poller.pc = "gone"

(* When the agent is told to stop, Shutdown returns and both drainers end,
   with nothing left on the channels. *)
ShutdownDrains ==
    cancelled ~> /\ shutdown = "returned" /\ poller.pc = "gone"
                 /\ drainer.pc = "gone" /\ errDrainer = "gone"
                 /\ snapshotsCh = <<>> /\ Errors = 0
=============================================================================
