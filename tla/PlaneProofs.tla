---------------------------- MODULE PlaneProofs ----------------------------
(***************************************************************************)
(* Proofs about the command plane, for every number of commands, streams   *)
(* and crashes.                                                            *)
(***************************************************************************)
EXTENDS CommandPlane, TLAPS

USE CommandsAssumption DEF Commands, Streams, none

---------------------------------------------------------------------------
(* Where each handler may be: only a reconcile stores and persists. *)
HandlersInv ==
    \A c \in Commands : handler[c] \in {"store", "persist", "cut"} => c \in Reconciles

(* What is on the list when a heartbeat has read it but not yet cleared it:
   the clearing loses nothing but results that came late. *)
SendersInv ==
    \A s \in Streams :
        /\ sender[s].pc = "send"  => results \subseteq sender[s].batch \cup sent \cup late
        /\ sender[s].pc = "clear" => results \subseteq sent \cup late

PlaneInv == PlaneTypeOK /\ HandlersInv /\ SendersInv /\ OnlyLateResultsForgotten

LEMMA PlaneInitOK == PlaneInit => PlaneInv
  <1> SUFFICES ASSUME PlaneInit PROVE PlaneInv
    OBVIOUS
  <1> USE DEF PlaneInit
  <1>1. sender \in [Streams -> [pc : {"none", "wait", "send", "clear", "gone"}, batch : SUBSET Commands]]
    OBVIOUS
  <1>2. handler \in [Commands -> {"none", "store", "persist", "act", "record", "done", "cut", "lost"}]
    OBVIOUS
  <1>3. /\ results \cup late \cup sent \subseteq Commands
        /\ {desired, disk} \subseteq Reconciles \cup {none} /\ excused \in BOOLEAN
    OBVIOUS
  <1>4. stream \in Streams \cup {none} /\ opened \in 0 .. MaxStreams /\ crashes \in 0 .. MaxCrashes
    OBVIOUS
  <1>5. checking \in BOOLEAN
    OBVIOUS
  <1>6. PlaneTypeOK
    BY <1>1, <1>2, <1>3, <1>4, <1>5 DEF PlaneTypeOK
  <1> QED BY <1>6 DEF PlaneInv, HandlersInv, SendersInv, OnlyLateResultsForgotten

(* The handlers, the streams and the heartbeats stay within their types. *)
LEMMA PlaneTypeStep ==
    ASSUME PlaneTypeOK, HandlersInv, [PlaneNext]_planeVars
    PROVE  PlaneTypeOK' /\ HandlersInv'
  <1> USE DEF PlaneTypeOK, HandlersInv
  <1>1. CASE OpenStream
    BY <1>1 DEF OpenStream, resultVars, stateVars, processVars
  <1>2. CASE BreakStream
    BY <1>2 DEF BreakStream, resultVars, stateVars, processVars
  <1>3. CASE Crash
    <2>1. handler' \in [Commands -> {"none", "store", "persist", "act", "record", "done", "cut", "lost"}]
      BY <1>3 DEF Crash, AfterCrash
    <2>2. HandlersInv'
      BY <1>3 DEF Crash, AfterCrash
    <2>3. sender' \in [Streams -> [pc : {"none", "wait", "send", "clear", "gone"}, batch : SUBSET Commands]]
      BY <1>3 DEF Crash
    <2>4. /\ (results \cup late \cup sent \subseteq Commands)' /\ ({desired, disk} \subseteq Reconciles \cup {none})'
          /\ (excused \in BOOLEAN /\ stream \in Streams \cup {none})'
          /\ (opened \in 0 .. MaxStreams /\ crashes \in 0 .. MaxCrashes)'
      BY <1>3 DEF Crash, LoadedState
    <2>5. (checking \in BOOLEAN)'
      BY <1>3 DEF Crash
    <2> QED BY <2>1, <2>2, <2>3, <2>4, <2>5
  <1>4. ASSUME NEW c \in Commands, Receive(c) PROVE PlaneTypeOK' /\ HandlersInv'
    BY <1>4 DEF Receive, resultVars, streamVars, processVars
  <1>5. ASSUME NEW c \in Commands, Store(c) PROVE PlaneTypeOK' /\ HandlersInv'
    BY <1>5 DEF Store, resultVars, streamVars, processVars
  <1>6. ASSUME NEW c \in Commands, Persist(c) PROVE PlaneTypeOK' /\ HandlersInv'
    BY <1>6 DEF Persist, resultVars, streamVars, processVars
  <1>7. ASSUME NEW c \in Commands, Act(c) PROVE PlaneTypeOK' /\ HandlersInv'
    BY <1>7 DEF Act, resultVars, stateVars, streamVars, processVars
  <1>8. ASSUME NEW c \in Commands, Record(c) PROVE PlaneTypeOK' /\ HandlersInv'
    BY <1>8 DEF Record, stateVars, streamVars, processVars
  <1>9. ASSUME NEW s \in Streams, SenderStep(s) PROVE PlaneTypeOK' /\ HandlersInv'
    <2>1. CASE ReadResults(s)
      BY <2>1 DEF ReadResults, resultVars, stateVars, processVars
    <2>2. CASE SendHeartbeat(s)
      <3>1. sent' \subseteq Commands
        <4>1. sender[s].batch \subseteq Commands
          OBVIOUS
        <4> QED BY <2>2, <4>1 DEF SendHeartbeat
      <3>2. sender' \in [Streams -> [pc : {"none", "wait", "send", "clear", "gone"}, batch : SUBSET Commands]]
        <4> DEFINE Senders == [pc : {"none", "wait", "send", "clear", "gone"}, batch : SUBSET Commands]
        <4>1. [sender[s] EXCEPT !.pc = "clear"] \in Senders /\ [pc |-> "gone", batch |-> {}] \in Senders
          OBVIOUS
        <4>2. \/ sender' = [sender EXCEPT ![s] = [sender[s] EXCEPT !.pc = "clear"]]
              \/ sender' = [sender EXCEPT ![s] = [pc |-> "gone", batch |-> {}]]
          BY <2>2 DEF SendHeartbeat
        <4>3. sender \in [Streams -> Senders]
          OBVIOUS
        <4> HIDE DEF Senders
        <4>4. sender' \in [Streams -> Senders]
          BY <4>1, <4>2, <4>3
        <4> QED BY <4>4 DEF Senders
      <3> QED BY <2>2, <3>1, <3>2 DEF SendHeartbeat, resultVars, stateVars, processVars
    <2>3. CASE ClearResults(s)
      BY <2>3 DEF ClearResults, stateVars, processVars
    <2> QED BY <1>9, <2>1, <2>2, <2>3 DEF SenderStep
  <1>10. CASE UNCHANGED planeVars
    BY <1>10 DEF planeVars, resultVars, stateVars, streamVars, processVars
  <1>11. CASE CheckStep
    BY <1>11 DEF CheckStep, CheckBegins, CheckEnds, resultVars, stateVars, streamVars
  <1> QED
    BY <1>1, <1>2, <1>3, <1>4, <1>5, <1>6, <1>7, <1>8, <1>9, <1>10, <1>11 DEF PlaneNext, HandlerStep

(* No step takes a result that is not late from the list before it is sent. *)
LEMMA ResultsStep ==
    ASSUME PlaneInv, [PlaneNext]_planeVars
    PROVE  SendersInv' /\ OnlyLateResultsForgotten'
  <1> USE DEF PlaneInv, PlaneTypeOK, SendersInv, OnlyLateResultsForgotten
  <1>1. CASE OpenStream
    BY <1>1 DEF OpenStream, resultVars, stateVars
  <1>2. CASE BreakStream
    BY <1>2 DEF BreakStream, resultVars, stateVars
  <1>3. CASE Crash
    BY <1>3 DEF Crash, AfterCrash
  <1>4. ASSUME NEW c \in Commands, Receive(c) PROVE SendersInv' /\ OnlyLateResultsForgotten'
    BY <1>4 DEF Receive, resultVars, streamVars
  <1>5. ASSUME NEW c \in Commands, Store(c) \/ Persist(c) \/ Act(c)
        PROVE  SendersInv' /\ OnlyLateResultsForgotten'
    BY <1>5 DEF Store, Persist, Act, resultVars, stateVars, streamVars
  <1>6. ASSUME NEW c \in Commands, Record(c) PROVE SendersInv' /\ OnlyLateResultsForgotten'
    BY <1>6 DEF Record, stateVars, streamVars
  <1>7. ASSUME NEW s \in Streams, ReadResults(s) PROVE SendersInv' /\ OnlyLateResultsForgotten'
    BY <1>7 DEF ReadResults, resultVars, stateVars
  <1>8. ASSUME NEW s \in Streams, SendHeartbeat(s) PROVE SendersInv' /\ OnlyLateResultsForgotten'
    <2>1. UNCHANGED <<handler, results, late>>
      BY <1>8 DEF SendHeartbeat, resultVars
    <2>2. CASE stream = s
      <3>1. sent' = sent \cup sender[s].batch /\ sender' = [sender EXCEPT ![s].pc = "clear"]
        BY <1>8, <2>2 DEF SendHeartbeat
      <3>2. results \subseteq sender[s].batch \cup sent \cup late
        BY <1>8 DEF SendHeartbeat
      <3> QED BY <2>1, <3>1, <3>2
    <2>3. CASE stream # s
      <3>1. sent' = sent /\ sender' = [sender EXCEPT ![s] = [pc |-> "gone", batch |-> {}]]
        BY <1>8, <2>3 DEF SendHeartbeat
      <3> QED BY <2>1, <3>1
    <2> QED BY <2>2, <2>3
  <1>9. ASSUME NEW s \in Streams, ClearResults(s) PROVE SendersInv' /\ OnlyLateResultsForgotten'
    BY <1>9 DEF ClearResults, stateVars
  <1>10. CASE UNCHANGED planeVars
    BY <1>10 DEF planeVars, resultVars, stateVars, streamVars
  <1>11. CASE CheckStep
    BY <1>11 DEF CheckStep, CheckBegins, CheckEnds, resultVars, streamVars
  <1> QED
    BY <1>1, <1>2, <1>3, <1>4, <1>5, <1>6, <1>7, <1>8, <1>9, <1>10, <1>11
    DEF PlaneNext, HandlerStep, SenderStep

LEMMA PlaneInvariant == PlaneSpec => []PlaneInv
  <1>1. PlaneInv /\ [PlaneNext]_planeVars => PlaneInv'
    BY PlaneTypeStep, ResultsStep DEF PlaneInv
  <1> QED BY PlaneInitOK, <1>1, PTL DEF PlaneSpec

(* Every variable of the command plane keeps its type. *)
THEOREM PlaneTypeCorrect == PlaneSpec => []PlaneTypeOK
  <1>1. PlaneInv => PlaneTypeOK
    BY DEF PlaneInv
  <1> QED BY <1>1, PlaneInvariant, PTL

(* RecordCommandResult and the heartbeats: over any number of commands,
   failed heartbeats, broken streams, heartbeat goroutines left behind and
   crashes, a result that was recorded is on the list or was sent, unless it
   was recorded while a heartbeat was between reading the list and clearing
   it. *)
THEOREM ResultsKept == PlaneSpec => []OnlyLateResultsForgotten
  <1>1. PlaneInv => OnlyLateResultsForgotten
    BY DEF PlaneInv
  <1> QED BY <1>1, PlaneInvariant, PTL

---------------------------------------------------------------------------
(* Commands are received in order. *)
InOrderInv ==
    \A c, d \in Commands : handler[c] = "none" /\ c < d => handler[d] = "none"

InFlight(c) == handler[c] \in {"store", "persist"}

Persisted == {c \in Reconciles : handler[c] \notin {"none", "cut", "store", "persist"}}

(* As long as reconciles are handled one by one and saved: the one being
   handled is the newest, the disk has the newest of those before it, and
   memory is ahead of the disk exactly while it is being saved. *)
OneByOneInv ==
    ~excused =>
      /\ \A c \in Commands, d \in Reconciles :
            InFlight(c) /\ d # c /\ handler[d] # "none" => d < c /\ ~InFlight(d)
      /\ disk \in Persisted \cup {none} /\ \A c \in Persisted : c <= disk
      /\ \A c \in Commands : handler[c] = "persist" => desired = c
      /\ (\A c \in Commands : handler[c] # "persist") => desired = disk

RacesInv == PlaneTypeOK /\ HandlersInv /\ InOrderInv /\ OneByOneInv

LEMMA InOrderStep ==
    ASSUME PlaneTypeOK, InOrderInv, [PlaneNext]_planeVars
    PROVE  InOrderInv'
  <1> USE DEF PlaneTypeOK, InOrderInv
  <1>1. CASE UNCHANGED handler
    BY <1>1
  <1>2. CASE Crash
    BY <1>2 DEF Crash, AfterCrash
  <1>3. ASSUME NEW c \in Commands, Receive(c) PROVE InOrderInv'
    BY <1>3 DEF Receive
  <1>4. ASSUME NEW c \in Commands, HandlerStep(c) PROVE InOrderInv'
    BY <1>4 DEF HandlerStep, Store, Persist, Act, Record
  <1> QED
    BY <1>1, <1>2, <1>3, <1>4
    DEF PlaneNext, OpenStream, BreakStream, SenderStep, ReadResults, SendHeartbeat, ClearResults,
        CheckStep, CheckBegins, CheckEnds, planeVars

(* One step of a handler, an arrival or a crash at a time. *)
LEMMA OneByOneStep ==
    ASSUME RacesInv, [PlaneNext]_planeVars
    PROVE  OneByOneInv'
  <1> USE DEF RacesInv, PlaneTypeOK, HandlersInv, InFlight, Persisted
  <1> SUFFICES ASSUME ~excused' PROVE OneByOneInv'
    BY DEF OneByOneInv
  <1>1. CASE UNCHANGED <<handler, stateVars>>
    BY <1>1 DEF OneByOneInv, stateVars
  <1>2. CASE Crash
    <2>1. ~excused /\ disk' = disk /\ desired' = disk
      BY <1>2 DEF Crash, LoadedState
    <2>2. handler' = [c \in Commands |-> AfterCrash(c)]
      BY <1>2 DEF Crash
    <2>3. \A c \in Commands : handler'[c] \notin {"store", "persist"}
      BY <2>2 DEF AfterCrash
    <2>4. Persisted' = Persisted
      <3>1. \A c \in Reconciles : c \in Persisted' <=> c \in Persisted
        <4> TAKE c \in Reconciles
        <4>1. c \in Commands /\ handler'[c] = AfterCrash(c)
          BY <2>2
        <4> QED BY <4>1 DEF AfterCrash
      <3> QED BY <3>1
    <2> QED BY <2>1, <2>3, <2>4 DEF OneByOneInv
  <1>3. ASSUME NEW c \in Commands, Receive(c) PROVE OneByOneInv'
    <2>1. ~excused /\ UNCHANGED <<disk, desired>>
      BY <1>3 DEF Receive
    <2>2. Persisted' = Persisted \cup {d \in Reconciles : FALSE}
      BY <1>3 DEF Receive
    <2>3. c \in Reconciles => \A d \in Commands : ~InFlight(d)
      BY <1>3 DEF Receive
    <2>4. \A d \in Commands : d > c => handler[d] = "none"
      BY <1>3 DEF Receive, InOrderInv
    <2>5. \A a \in Commands, d \in Reconciles :
            (InFlight(a) /\ d # a /\ handler[d] # "none" => d < a /\ ~InFlight(d))'
      BY <1>3, <2>1, <2>3, <2>4 DEF Receive, OneByOneInv
    <2>6. \A a \in Commands : (handler[a] = "persist") <=> handler'[a] = "persist"
      BY <1>3 DEF Receive
    <2> QED BY <2>1, <2>2, <2>5, <2>6 DEF OneByOneInv
  <1>4. ASSUME NEW c \in Commands, Store(c) PROVE OneByOneInv'
    BY <1>4 DEF Store, OneByOneInv
  <1>5. ASSUME NEW c \in Commands, Persist(c) PROVE OneByOneInv'
    <2>1. ~excused /\ disk' = c /\ desired' = c /\ c \in Reconciles
      BY <1>5 DEF Persist, OneByOneInv
    <2>2. Persisted' = Persisted \cup {c}
      BY <1>5, <2>1 DEF Persist
    <2>3. \A d \in Persisted : d < c
      BY <1>5, <2>1 DEF Persist, OneByOneInv
    <2>4. \A a \in Commands : ~InFlight(a)'
      BY <1>5, <2>1 DEF Persist, OneByOneInv
    <2> QED BY <2>1, <2>2, <2>3, <2>4 DEF OneByOneInv
  <1>6. ASSUME NEW c \in Commands, Act(c) \/ Record(c) PROVE OneByOneInv'
    <2>1. ~excused /\ UNCHANGED <<disk, desired>>
      BY <1>6 DEF Act, Record, stateVars
    <2>2. \A d \in Commands :
            /\ handler[d] = "none" <=> handler'[d] = "none"
            /\ handler[d] = "cut" <=> handler'[d] = "cut"
            /\ handler[d] = "store" <=> handler'[d] = "store"
            /\ handler[d] = "persist" <=> handler'[d] = "persist"
      BY <1>6 DEF Act, Record
    <2>3. Persisted' = Persisted
      BY <2>2, Reconciles \subseteq Commands
    <2>4. \A a \in Commands, d \in Reconciles :
            (InFlight(a) /\ d # a /\ handler[d] # "none" => d < a /\ ~InFlight(d))'
      BY <2>1, <2>2, Reconciles \subseteq Commands DEF OneByOneInv
    <2> QED BY <2>1, <2>2, <2>3, <2>4 DEF OneByOneInv
  <1> QED
    BY <1>1, <1>2, <1>3, <1>4, <1>5, <1>6
    DEF PlaneNext, OpenStream, BreakStream, HandlerStep, SenderStep, ReadResults, SendHeartbeat,
        ClearResults, CheckStep, CheckBegins, CheckEnds, planeVars

LEMMA RacesInvariant == PlaneSpec => []RacesInv
  <1>1. PlaneInit => RacesInv
    <2> SUFFICES ASSUME PlaneInit PROVE InOrderInv /\ OneByOneInv
      BY PlaneInitOK DEF PlaneInv, RacesInv
    <2> QED BY DEF PlaneInit, InOrderInv, OneByOneInv, InFlight, Persisted
  <1>2. RacesInv /\ [PlaneNext]_planeVars => RacesInv'
    BY PlaneTypeStep, InOrderStep, OneByOneStep DEF RacesInv
  <1> QED BY <1>1, <1>2, PTL DEF PlaneSpec

LEMMA MaxIs ==
    ASSUME NEW S \in SUBSET Int, NEW x \in S, \A y \in S : y <= x
    PROVE  Max(S) = x
  <1>1. \A y \in S : (\A z \in S : y >= z) => y = x
    OBVIOUS
  <1>2. \A z \in S : x >= z
    OBVIOUS
  <1> QED BY <1>1, <1>2 DEF Max

(* Reconcile, SaveState and LoadInitialState: over any number of commands
   and crashes, the agent's memory and its disk agree on the newest desired
   state that was not cut short, unless two reconciles were handled at once
   or a save failed. *)
THEOREM OnlyRacesMatter == PlaneSpec => []OnlyRacesDiverge
  <1>1. RacesInv => OnlyRacesDiverge
    <2> SUFFICES ASSUME RacesInv, ~excused, \A c \in Commands : handler[c] \notin {"store", "persist"}
                 PROVE  disk = Newest /\ desired = Newest
      BY DEF OnlyRacesDiverge
    <2> DEFINE S == {none} \cup {c \in Reconciles : handler[c] \notin {"none", "cut"}}
    <2>1. S = Persisted \cup {none}
      BY DEF Persisted
    <2>2. \A y \in S : y \in Nat
      BY <2>1 DEF Persisted
    <2>3. disk \in S /\ \A y \in S : y <= disk
      <3>1. disk \in S /\ \A y \in Persisted : y <= disk
        BY <2>1 DEF RacesInv, OneByOneInv
      <3>2. disk \in Nat
        BY <2>2, <3>1
      <3> QED BY <2>1, <3>1, <3>2
    <2>4. desired = disk
      BY DEF RacesInv, OneByOneInv
    <2>5. Max(S) = disk
      <3> HIDE DEF S
      <3>1. S \in SUBSET Int
        BY <2>2
      <3> QED BY <2>3, <3>1, MaxIs
    <2> QED BY <2>4, <2>5 DEF Newest
  <1> QED BY <1>1, RacesInvariant, PTL
---------------------------------------------------------------------------
(* What ResultsReachCenter rests on: the stream that is up has a heartbeat
   goroutine of its own that goes on, whatever became of those of earlier
   streams ... *)
StreamReports == stream # none => sender[stream].pc \in {"wait", "send", "clear"}

(* ... and a result on the list waits there for it, until it was sent, came
   in the window of a clearing, or died with the agent. *)
ListKeeps == \A c \in results : c \in results' \cup sent' \cup late' \/ handler'[c] = "lost"

ReportsInv ==
    /\ StreamReports /\ stream <= opened
    /\ \A s \in Streams : s > opened => sender[s].pc = "none"
    /\ \A c \in results : handler[c] = "done"

LEMMA ReportsStep ==
    ASSUME PlaneTypeOK, ReportsInv, [PlaneNext]_planeVars
    PROVE  ReportsInv'
  <1> USE DEF PlaneTypeOK, ReportsInv, StreamReports
  <1>1. CASE OpenStream
    BY <1>1 DEF OpenStream, resultVars
  <1>2. CASE BreakStream
    BY <1>2 DEF BreakStream, resultVars
  <1>3. CASE Crash
    BY <1>3 DEF Crash
  <1>4. ASSUME NEW c \in Commands, Receive(c) PROVE ReportsInv'
    BY <1>4 DEF Receive, resultVars, streamVars
  <1>5. ASSUME NEW c \in Commands, Store(c) \/ Persist(c) \/ Act(c) PROVE ReportsInv'
    BY <1>5 DEF Store, Persist, Act, resultVars, streamVars
  <1>6. ASSUME NEW c \in Commands, Record(c) PROVE ReportsInv'
    BY <1>6 DEF Record, streamVars
  <1>7. ASSUME NEW s \in Streams, SenderStep(s) PROVE ReportsInv'
    <2>1. UNCHANGED <<handler, stream, opened>> /\ results' \subseteq results
      BY <1>7 DEF SenderStep, ReadResults, SendHeartbeat, ClearResults, resultVars
    <2>2. /\ \A t \in Streams : t # s => sender'[t] = sender[t]
          /\ sender[s].pc # "none"
          /\ sender'[s].pc \in {"wait", "send", "clear"} \/ stream # s
      BY <1>7 DEF SenderStep, ReadResults, SendHeartbeat, ClearResults
    <2> QED BY <2>1, <2>2
  <1>8. CASE UNCHANGED planeVars
    BY <1>8 DEF planeVars, resultVars, streamVars
  <1>9. CASE CheckStep
    BY <1>9 DEF CheckStep, CheckBegins, CheckEnds, resultVars, streamVars
  <1> QED
    BY <1>1, <1>2, <1>3, <1>4, <1>5, <1>6, <1>7, <1>8, <1>9 DEF PlaneNext, HandlerStep

LEMMA ListKeepsStep ==
    ASSUME PlaneInv, ReportsInv, [PlaneNext]_planeVars
    PROVE  ListKeeps
  <1> USE DEF PlaneInv, PlaneTypeOK, ReportsInv, ListKeeps
  <1>1. CASE Crash
    BY <1>1 DEF Crash, AfterCrash
  <1>2. ASSUME NEW s \in Streams, ClearResults(s) PROVE ListKeeps
    BY <1>2 DEF ClearResults, SendersInv
  <1>3. CASE results \subseteq results'
    BY <1>3
  <1> QED
    BY <1>1, <1>2, <1>3
    DEF PlaneNext, OpenStream, BreakStream, Receive, HandlerStep, Store, Persist, Act, Record,
        SenderStep, ReadResults, SendHeartbeat, CheckStep, CheckBegins, CheckEnds, planeVars,
        resultVars

(* Over any number of broken streams and crashes: a result only leaves the
   list by being sent, and there is a heartbeat to send it whenever there is a
   stream. *)
THEOREM ResultsWaitForCenter == PlaneSpec => []StreamReports /\ [][ListKeeps]_planeVars
  <1>1. PlaneInit => ReportsInv
    BY DEF PlaneInit, ReportsInv, StreamReports
  <1>2. PlaneInv /\ ReportsInv /\ [PlaneNext]_planeVars => ReportsInv'
    BY ReportsStep DEF PlaneInv
  <1>3. PlaneInv /\ ReportsInv /\ [PlaneNext]_planeVars => [ListKeeps]_planeVars
    BY ListKeepsStep
  <1>4. ReportsInv => StreamReports
    BY DEF ReportsInv
  <1> QED BY <1>1, <1>2, <1>3, <1>4, PlaneInvariant, PTL DEF PlaneSpec
=============================================================================
