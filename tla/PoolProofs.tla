----------------------------- MODULE PoolProofs -----------------------------
(***************************************************************************)
(* Proofs about the PgBouncer supervisor, for any number of Starts and     *)
(* samples and any buffer: its types, that no two PgBouncers live at the   *)
(* same time, that one Start alone never leads to a panic, that Stop       *)
(* leaves no sample behind and reaches everyone it waits for, and that     *)
(* every sample is accounted for.                                          *)
(***************************************************************************)
EXTENDS PoolManager, FiniteSetTheorems, TLAPS

(* The processes are started one after the other. *)
InOrder(k) == k \in 0 .. MaxStarts /\ Started = 1 .. k
SpawnInv == \E k \in 0 .. MaxStarts : InOrder(k)

(* The field statsCh, and the channel of a shipper, are set when they are
   used; a process that was not spawned has no goroutines. *)
FieldsInv ==
    /\ \A g \in Gens : poller[g].pc # "none" => statsCh # nil /\ proc[g] # "none"
    /\ \A g \in Gens : shipper[g].pc \notin {"none", "open"} => shipper[g].ch # nil
    /\ \A g \in Gens : shipper[g].pc # "none" => statsCh # nil

(* The reaper that waits, or has come to clear the handle, is that of the
   process held, and no other process is alive. *)
HeldInv ==
    /\ \A g, h \in Gens : proc[g] = "alive" /\ proc[h] = "alive" => g = h
    /\ caller = "starting" =>
         /\ cmd = nil /\ Started # {}
         /\ \A g \in Gens : g = Cardinality(Started) => poller[g].pc = "none"
    /\ \A g \in Gens : reaper[g] = "locking" => proc[g] = "reaped"
    /\ caller # "stopped" => \A g \in Gens :
         /\ reaper[g] \in {"waiting", "locking"} => cmd = g
         /\ proc[g] = "alive" => cmd = g \/ (caller = "starting" /\ g = Cardinality(Started))

(* With one process only, whoever closed a channel was the only poller. *)
OnlyOne == \A g \in Gens : proc[g] # "none" => g = 1

PanicInv ==
    /\ closedCh # {} => \E g \in Gens : poller[g].pc = "exit"
    /\ OnlyOne => ~panicked /\ (closedCh # {} => \A g \in Gens : poller[g].pc \in {"none", "exit"})

PoolInv == PoolTypeOK /\ SpawnInv /\ FieldsInv /\ HeldInv /\ PanicInv

---------------------------------------------------------------------------
LEMMA CountStarted ==
    ASSUME NEW k, InOrder(k)
    PROVE  /\ k \in Nat /\ k <= MaxStarts
           /\ IsFiniteSet(Started) /\ Cardinality(Started) = k
           /\ \A g \in Gens : proc[g] # "none" <=> g <= k
<1>1. k \in Nat /\ k <= MaxStarts
  BY PoolAssumption DEF InOrder
<1>2. IsFiniteSet(1 .. k) /\ Cardinality(1 .. k) = k
  BY <1>1, FS_Interval
<1>3. \A g \in Gens : proc[g] # "none" <=> g <= k
  BY <1>1 DEF InOrder, Started, Gens
<1> QED BY <1>1, <1>2, <1>3 DEF InOrder

LEMMA InitInv == PoolInit => PoolInv
<1> SUFFICES ASSUME PoolInit PROVE PoolInv
  OBVIOUS
<1> USE PoolAssumption DEF PoolInit, nil
<1>1. Started = {}
  BY DEF Started
<1>2. SpawnInv
  <2>1. 0 \in 0 .. MaxStarts /\ 1 .. 0 = {}
    OBVIOUS
  <2> QED BY <1>1, <2>1 DEF SpawnInv, InOrder
<1>3. PoolTypeOK
  <2>1. ProcessTypeOK
    BY DEF ProcessTypeOK
  <2>4. TallyTypeOK
    BY DEF TallyTypeOK
  <2>2. ChannelTypeOK
    BY DEF ChannelTypeOK
  <2>3. PollerTypeOK /\ ShipperTypeOK
    BY DEF PollerTypeOK, ShipperTypeOK, PollerStates, ShipperStates
  <2> QED BY <2>1, <2>2, <2>3, <2>4 DEF PoolTypeOK
<1>4. FieldsInv
  BY DEF FieldsInv
<1>5. PanicInv
  BY DEF PanicInv
<1>6. HeldInv
  BY DEF HeldInv
<1> QED BY <1>2, <1>3, <1>4, <1>5, <1>6 DEF PoolInv

---------------------------------------------------------------------------
(* The next process is one of those the bound allows. *)
LEMMA NextSpawned ==
    ASSUME SpawnInv, Started # Gens
    PROVE  Cardinality(Started) + 1 \in Gens /\ InOrder(Cardinality(Started))
<1>1. PICK k \in 0 .. MaxStarts : InOrder(k)
  BY DEF SpawnInv
<1>2. k \in Nat /\ k <= MaxStarts /\ Cardinality(Started) = k
  BY <1>1, CountStarted
<1>3. k # MaxStarts
  BY <1>1 DEF InOrder, Gens
<1> QED BY <1>1, <1>2, <1>3, PoolAssumption DEF Gens

LEMMA LastSpawned ==
    ASSUME SpawnInv, Started # {}
    PROVE  Cardinality(Started) \in Gens
<1>1. PICK k \in 0 .. MaxStarts : InOrder(k)
  BY DEF SpawnInv
<1>2. k \in Nat /\ k <= MaxStarts /\ Cardinality(Started) = k
  BY <1>1, CountStarted
<1>3. k # 0
  BY <1>1 DEF InOrder
<1> QED BY <1>2, <1>3, PoolAssumption DEF Gens

LEMMA ProcessTypeStep ==
    ASSUME PoolInv, PoolNext
    PROVE  ProcessTypeOK'
<1> USE PoolAssumption DEF PoolInv, PoolTypeOK, ProcessTypeOK, processVars
<1>1. CASE StartSpawn
  BY <1>1, NextSpawned DEF StartSpawn
<1>2. CASE StartConfirm
  <2>1. Cardinality(Started) \in Gens
    BY <1>2, LastSpawned DEF HeldInv, StartConfirm
  <2> QED BY <1>2, <2>1 DEF StartConfirm
<1>3. CASE StopPipeline \/ StopWaited \/ StopSignal
  BY <1>3 DEF StopPipeline, StopWaited, StopSignal
<1>4. ASSUME NEW g \in Gens, Exit(g) \/ ReaperStep(g) PROVE ProcessTypeOK'
  BY <1>4 DEF Exit, ReaperStep, ReaperWait, ReaperClear
<1>5. ASSUME NEW g \in Gens, PollerStep(g) PROVE ProcessTypeOK'
  BY <1>5 DEF PollerStep, PollTick, PollDone, QueryFails, QueryAnswers, Offer, OfferClosed, PollDrop, Panic
<1>6. ASSUME NEW g \in Gens, ShipperStep(g) PROVE ProcessTypeOK'
  BY <1>6 DEF ShipperStep, OpenLog, Take, Write, CountDrained, ShipperExit
<1> QED BY <1>1, <1>2, <1>3, <1>4, <1>5, <1>6 DEF PoolNext, CallerStep

LEMMA ChannelTypeStep ==
    ASSUME PoolInv, PoolNext
    PROVE  ChannelTypeOK'
<1> USE PoolAssumption DEF PoolInv, PoolTypeOK, ChannelTypeOK, channelVars, nil
<1>1. CASE StartSpawn \/ StopSignal
  BY <1>1 DEF StartSpawn, StopSignal, pipelineVars
<1>2. CASE StartConfirm
  <2>1. Cardinality(Started) \in Gens
    BY <1>2, LastSpawned DEF HeldInv, StartConfirm
  <2> QED BY <1>2, <2>1 DEF StartConfirm
<1>3. CASE StopPipeline \/ StopWaited
  BY <1>3 DEF StopPipeline, StopWaited
<1>4. ASSUME NEW g \in Gens, Exit(g) \/ ReaperStep(g) PROVE ChannelTypeOK'
  BY <1>4 DEF Exit, ReaperStep, ReaperWait, ReaperClear, pipelineVars
<1>5. ASSUME NEW g \in Gens, PollerStep(g) PROVE ChannelTypeOK'
  <2>1. CASE PollTick(g) \/ QueryFails(g) \/ QueryAnswers(g) \/ OfferClosed(g) \/ PollDrop(g)
    BY <2>1 DEF PollTick, QueryFails, QueryAnswers, OfferClosed, PollDrop, pipelineVars
  <2>2. CASE PollDone(g)
    BY <2>2 DEF PollDone, FieldsInv
  <2>3. CASE Offer(g)
    <3>1. statsCh \in Gens
      BY <2>3 DEF Offer, FieldsInv
    <3>2. queue' \in [Gens -> 0 .. StatsBufferSize]
      BY <2>3, <3>1 DEF Offer
    <3> QED BY <2>3, <3>2 DEF Offer
  <2> QED BY <1>5, <2>1, <2>2, <2>3 DEF PollerStep
<1>6. ASSUME NEW g \in Gens, ShipperStep(g) PROVE ChannelTypeOK'
  <2>1. CASE Take(g)
    <3>1. shipper[g].ch \in Gens
      BY <2>1 DEF Take, FieldsInv, ShipperTypeOK
    <3>2. queue' \in [Gens -> 0 .. StatsBufferSize]
      BY <2>1, <3>1 DEF Take
    <3> QED BY <2>1, <3>2 DEF Take
  <2>2. CASE ~Take(g)
    BY <1>6, <2>2 DEF ShipperStep, OpenLog, Write, CountDrained, ShipperExit
  <2> QED BY <2>1, <2>2
<1> QED BY <1>1, <1>2, <1>3, <1>4, <1>5, <1>6 DEF PoolNext, CallerStep

(* A step moves one poller, or none, and leaves it one of the fields'
   channels to wait on. *)
LEMMA PollerMoves ==
    ASSUME PoolInv, NEW g \in Gens, NEW p \in PollerStates, Poller(g, p)
    PROVE  /\ PollerTypeOK' /\ poller'[g].pc = p
           /\ \A h \in Gens : h # g => poller'[h] = poller[h]
BY DEF PoolInv, PoolTypeOK, PollerTypeOK, Poller

LEMMA PollerReturns ==
    ASSUME PoolInv, NEW g \in Gens, PollerWaits(g)
    PROVE  /\ PollerTypeOK' /\ poller'[g].pc = "wait"
           /\ \A h \in Gens : h # g => poller'[h] = poller[h]
BY DEF PoolInv, PoolTypeOK, PollerTypeOK, ChannelTypeOK, PollerWaits, PollerStates

LEMMA PollerSteps ==
    ASSUME PoolInv, NEW g \in Gens, PollerStep(g)
    PROVE  /\ PollerTypeOK'
           /\ \A h \in Gens : h # g => poller'[h] = poller[h]
           /\ poller[g].pc \notin {"none", "exit"} /\ poller'[g].pc # "none"
           /\ poller'[g].pc # "exit"  \/ PollDone(g)
<1> USE PollerMoves, PollerReturns DEF PollerStates
<1>1. CASE PollTick(g)
  BY <1>1 DEF PollTick
<1>2. CASE PollDone(g)
  BY <1>2 DEF PollDone
<1>3. CASE QueryFails(g)
  BY <1>3 DEF QueryFails
<1>4. CASE QueryAnswers(g)
  BY <1>4 DEF QueryAnswers
<1>5. CASE Offer(g)
  BY <1>5 DEF Offer
<1>6. CASE OfferClosed(g)
  BY <1>6 DEF OfferClosed, pipelineVars, PoolInv, PoolTypeOK, PollerTypeOK
<1>7. CASE PollDrop(g)
  BY <1>7 DEF PollDrop
<1> QED BY <1>1, <1>2, <1>3, <1>4, <1>5, <1>6, <1>7 DEF PollerStep

LEMMA PollerTypeStep ==
    ASSUME PoolInv, PoolNext
    PROVE  PollerTypeOK'
<1>1. CASE StartConfirm
  <2>1. Cardinality(Started) \in Gens
    BY <1>1, LastSpawned DEF HeldInv, StartConfirm, PoolInv
  <2> QED BY <1>1, <2>1 DEF StartConfirm, PoolInv, PoolTypeOK, PollerTypeOK, PollerStates
<1>2. CASE UNCHANGED poller
  BY <1>2 DEF PoolInv, PoolTypeOK, PollerTypeOK
<1>3. CASE StartSpawn \/ StopPipeline \/ StopWaited \/ StopSignal
  BY <1>2, <1>3 DEF StartSpawn, StopPipeline, StopWaited, StopSignal, pipelineVars
<1>4. ASSUME NEW g \in Gens, Exit(g) \/ ReaperStep(g) PROVE PollerTypeOK'
  BY <1>2, <1>4 DEF Exit, ReaperStep, ReaperWait, ReaperClear, pipelineVars
<1>5. ASSUME NEW g \in Gens, PollerStep(g) PROVE PollerTypeOK'
  BY <1>5, PollerSteps
<1>6. ASSUME NEW g \in Gens, ShipperStep(g) PROVE PollerTypeOK'
  BY <1>2, <1>6 DEF ShipperStep, OpenLog, Take, Write, CountDrained, ShipperExit
<1> QED BY <1>1, <1>3, <1>4, <1>5, <1>6 DEF PoolNext, CallerStep

(* The same for shippers: once a shipper has a channel it keeps it. *)
LEMMA ShipperMoves ==
    ASSUME PoolInv, NEW g \in Gens, NEW p \in ShipperStates, Shipper(g, p)
    PROVE  /\ ShipperTypeOK' /\ shipper'[g].pc = p /\ shipper'[g].ch = shipper[g].ch
           /\ \A h \in Gens : h # g => shipper'[h] = shipper[h]
BY DEF PoolInv, PoolTypeOK, ShipperTypeOK, Shipper

LEMMA ShipperSteps ==
    ASSUME PoolInv, NEW g \in Gens, ShipperStep(g)
    PROVE  /\ ShipperTypeOK'
           /\ \A h \in Gens : h # g => shipper'[h] = shipper[h]
           /\ shipper[g].pc \notin {"none", "exit"} /\ shipper'[g].pc # "none"
           /\ shipper'[g].pc # "exit" \/ ShipperExit(g)
           /\ shipper'[g].ch = (IF shipper[g].pc = "open" THEN statsCh ELSE shipper[g].ch)
<1> USE ShipperMoves DEF ShipperStates
<1>1. CASE OpenLog(g)
  BY <1>1 DEF OpenLog, PoolInv, PoolTypeOK, ShipperTypeOK, ChannelTypeOK
<1>2. CASE Take(g)
  BY <1>2 DEF Take
<1>3. CASE Write(g)
  BY <1>3 DEF Write
<1>4. CASE CountDrained(g)
  BY <1>4 DEF CountDrained
<1>5. CASE ShipperExit(g)
  BY <1>5 DEF ShipperExit
<1> QED BY <1>1, <1>2, <1>3, <1>4, <1>5 DEF ShipperStep

LEMMA ShipperTypeStep ==
    ASSUME PoolInv, PoolNext
    PROVE  ShipperTypeOK'
<1>1. CASE StartConfirm
  <2>1. Cardinality(Started) \in Gens
    BY <1>1, LastSpawned DEF HeldInv, StartConfirm, PoolInv
  <2> QED BY <1>1, <2>1 DEF StartConfirm, PoolInv, PoolTypeOK, ShipperTypeOK, ShipperStates
<1>2. CASE UNCHANGED shipper
  BY <1>2 DEF PoolInv, PoolTypeOK, ShipperTypeOK
<1>3. CASE StartSpawn \/ StopPipeline \/ StopWaited \/ StopSignal
  BY <1>2, <1>3 DEF StartSpawn, StopPipeline, StopWaited, StopSignal, pipelineVars
<1>4. ASSUME NEW g \in Gens, Exit(g) \/ ReaperStep(g) PROVE ShipperTypeOK'
  BY <1>2, <1>4 DEF Exit, ReaperStep, ReaperWait, ReaperClear, pipelineVars
<1>5. ASSUME NEW g \in Gens, PollerStep(g) PROVE ShipperTypeOK'
  BY <1>2, <1>5 DEF PollerStep, PollTick, PollDone, QueryFails, QueryAnswers, Offer, OfferClosed,
                    PollDrop, pipelineVars
<1>6. ASSUME NEW g \in Gens, ShipperStep(g) PROVE ShipperTypeOK'
  BY <1>6, ShipperSteps
<1> QED BY <1>1, <1>3, <1>4, <1>5, <1>6 DEF PoolNext, CallerStep

LEMMA TallyTypeStep ==
    ASSUME PoolInv, PoolNext
    PROVE  TallyTypeOK'
<1> USE PoolAssumption DEF PoolInv, PoolTypeOK, TallyTypeOK
<1>1. CASE CallerStep
  BY <1>1 DEF CallerStep, StartSpawn, StartConfirm, StopPipeline, StopWaited, StopSignal, pipelineVars
<1>2. ASSUME NEW g \in Gens, Exit(g) \/ ReaperStep(g) PROVE TallyTypeOK'
  BY <1>2 DEF Exit, ReaperStep, ReaperWait, ReaperClear, pipelineVars
<1>3. ASSUME NEW g \in Gens, PollerStep(g) PROVE TallyTypeOK'
  <2>1. CASE QueryAnswers(g)
    BY <2>1 DEF QueryAnswers, Tally
  <2>2. CASE PollDrop(g)
    BY <2>2 DEF PollDrop, Tally
  <2>3. CASE PollTick(g) \/ PollDone(g) \/ QueryFails(g) \/ Offer(g) \/ OfferClosed(g)
    BY <2>3 DEF PollTick, PollDone, QueryFails, Offer, OfferClosed, pipelineVars
  <2> QED BY <1>3, <2>1, <2>2, <2>3 DEF PollerStep
<1>4. ASSUME NEW g \in Gens, ShipperStep(g) PROVE TallyTypeOK'
  <2>1. CASE Write(g)
    BY <2>1 DEF Write, Tally
  <2>2. CASE CountDrained(g)
    BY <2>2 DEF CountDrained, Tally
  <2>3. CASE OpenLog(g) \/ Take(g) \/ ShipperExit(g)
    BY <2>3 DEF OpenLog, Take, ShipperExit
  <2> QED BY <1>4, <2>1, <2>2, <2>3 DEF ShipperStep
<1> QED BY <1>1, <1>2, <1>3, <1>4 DEF PoolNext

---------------------------------------------------------------------------
(* Processes are spawned by Start only, one after the other, and one that
   was spawned never becomes "none" again. *)
LEMMA StartedStep ==
    ASSUME PoolInv, PoolNext
    PROVE  /\ SpawnInv'
           /\ StartSpawn \/ Started' = Started
<1> USE DEF PoolInv, PoolTypeOK, ProcessTypeOK, processVars
<1>1. CASE StartSpawn
  <2>1. Cardinality(Started) + 1 \in Gens /\ InOrder(Cardinality(Started))
    BY <1>1, NextSpawned DEF StartSpawn
  <2> DEFINE k == Cardinality(Started)
  <2>2. k \in Nat /\ \A g \in Gens : proc[g] # "none" <=> g <= k
    BY <2>1, CountStarted
  <2>3. \A g \in Gens : proc'[g] # "none" <=> g <= k + 1
    BY <1>1, <2>1, <2>2 DEF StartSpawn, Gens
  <2>4. Started' = 1 .. k + 1
    <3>1. k + 1 \in Nat /\ k + 1 <= MaxStarts
      BY <2>1, <2>2, PoolAssumption DEF Gens
    <3> HIDE DEF k
    <3>2. \A g : g \in Started' <=> g \in 1 .. k + 1
      BY <2>2, <2>3, <3>1, PoolAssumption DEF Started, Gens
    <3> QED BY <3>2
  <2>5. k + 1 \in 0 .. MaxStarts
    BY <2>1, <2>2 DEF Gens
  <2> QED BY <1>1, <2>4, <2>5 DEF SpawnInv, InOrder
<1>2. CASE Started' = Started
  BY <1>2 DEF SpawnInv, InOrder
<1>3. CASE StartConfirm \/ StopPipeline \/ StopWaited \/ StopSignal
  BY <1>2, <1>3 DEF StartConfirm, StopPipeline, StopWaited, StopSignal, Started
<1>4. ASSUME NEW g \in Gens, Exit(g) \/ ReaperStep(g) PROVE Started' = Started
  BY <1>4 DEF Exit, ReaperStep, ReaperWait, ReaperClear, Started
<1>5. ASSUME NEW g \in Gens, PollerStep(g) PROVE Started' = Started
  BY <1>5 DEF PollerStep, PollTick, PollDone, QueryFails, QueryAnswers, Offer, OfferClosed, PollDrop, Started
<1>6. ASSUME NEW g \in Gens, ShipperStep(g) PROVE Started' = Started
  BY <1>6 DEF ShipperStep, OpenLog, Take, Write, CountDrained, ShipperExit, Started
<1> QED BY <1>1, <1>2, <1>3, <1>4, <1>5, <1>6 DEF PoolNext, CallerStep

LEMMA FieldsStep ==
    ASSUME PoolInv, PoolNext
    PROVE  FieldsInv'
<1> USE DEF PoolInv, FieldsInv, processVars
<1>1. CASE StartConfirm
  <2>1. Cardinality(Started) \in Started
    <3>1. PICK k \in 0 .. MaxStarts : InOrder(k)
      BY DEF SpawnInv
    <3>2. Started # {}
      BY <1>1 DEF StartConfirm, HeldInv
    <3> QED BY <3>1, <3>2, CountStarted DEF InOrder
  <2>2. statsCh' # nil
    BY <1>1, <2>1 DEF StartConfirm, nil, Gens, Started
  <2>3. \A g \in Gens : poller'[g].pc # "none" => proc'[g] # "none"
    BY <1>1, <2>1 DEF StartConfirm, Started, PoolTypeOK, PollerTypeOK
  <2>4. \A g \in Gens : shipper'[g].pc \notin {"none", "open"} => shipper'[g] = shipper[g]
    BY <1>1 DEF StartConfirm, PoolTypeOK, ShipperTypeOK
  <2> QED BY <2>2, <2>3, <2>4
<1>2. CASE StartSpawn
  BY <1>2 DEF StartSpawn, pipelineVars, channelVars, PoolTypeOK, ProcessTypeOK
<1>3. CASE StopPipeline \/ StopWaited \/ StopSignal
  BY <1>3 DEF StopPipeline, StopWaited, StopSignal, pipelineVars, channelVars
<1>4. ASSUME NEW g \in Gens, Exit(g) \/ ReaperStep(g) PROVE FieldsInv'
  BY <1>4 DEF Exit, ReaperStep, ReaperWait, ReaperClear, pipelineVars, channelVars, PoolTypeOK, ProcessTypeOK
<1>5. ASSUME NEW g \in Gens, PollerStep(g) PROVE FieldsInv'
  <2>1. UNCHANGED <<proc, statsCh, shipper>>
    BY <1>5 DEF PollerStep, PollTick, PollDone, QueryFails, QueryAnswers, Offer, OfferClosed, PollDrop,
                channelVars, pipelineVars
  <2> QED BY <1>5, <2>1, PollerSteps
<1>6. ASSUME NEW g \in Gens, ShipperStep(g) PROVE FieldsInv'
  <2>1. UNCHANGED <<proc, statsCh, poller>>
    BY <1>6 DEF ShipperStep, OpenLog, Take, Write, CountDrained, ShipperExit, channelVars
  <2>2. shipper[g].pc # "none" /\ shipper'[g].ch # nil
    BY <1>6, ShipperSteps
  <2> QED BY <1>6, <2>1, <2>2, ShipperSteps
<1> QED BY <1>1, <1>2, <1>3, <1>4, <1>5, <1>6 DEF PoolNext, CallerStep

---------------------------------------------------------------------------
LEMMA SpawnCounts ==
    ASSUME PoolInv, StartSpawn
    PROVE  Cardinality(Started') = Cardinality(Started) + 1
<1> DEFINE n == Cardinality(Started) + 1
<1>1. n \in Gens /\ InOrder(Cardinality(Started))
  BY NextSpawned DEF StartSpawn, PoolInv
<1>2. proc[n] = "none"
  BY <1>1, CountStarted DEF Gens
<1>3. Started' = Started \cup {n} /\ n \notin Started
  BY <1>1, <1>2 DEF StartSpawn, Started, PoolInv, PoolTypeOK, ProcessTypeOK
<1>4. IsFiniteSet(Started)
  BY <1>1, CountStarted
<1> QED BY <1>3, <1>4, FS_AddElement

(* Only Start, Stop, the reapers and the kernel touch a process. *)
LEMMA HeldStep ==
    ASSUME PoolInv, PoolNext
    PROVE  HeldInv'
<1> USE DEF PoolInv, PoolTypeOK, ProcessTypeOK, HeldInv
<1>1. CASE StartSpawn
  <2> DEFINE n == Cardinality(Started) + 1
  <2>1. n \in Gens /\ InOrder(Cardinality(Started))
    BY <1>1, NextSpawned DEF StartSpawn
  <2>2. proc[n] = "none" /\ \A g \in Gens : proc[g] # "alive"
    BY <1>1, <2>1, CountStarted DEF StartSpawn, nil, Gens
  <2>3. SpawnInv' /\ Started' = Started \cup {n}
    BY <1>1, <2>1, StartedStep DEF StartSpawn, Started
  <2>4. Cardinality(Started') = n
    BY <1>1, SpawnCounts
  <2>5. poller[n].pc = "none"
    BY <2>1, <2>2 DEF FieldsInv
  <2>6. \A g \in Gens : reaper[g] \notin {"waiting", "locking"}
    BY <1>1 DEF StartSpawn, nil, Gens
  <2>7. \A g \in Gens : proc'[g] = "alive" <=> g = n
    BY <1>1, <2>1, <2>2 DEF StartSpawn
  <2>8. \A g \in Gens : reaper'[g] \notin {"waiting", "locking"}
    BY <1>1, <2>6 DEF StartSpawn
  <2>9. caller' = "starting" /\ cmd' = nil /\ UNCHANGED poller
    BY <1>1 DEF StartSpawn, pipelineVars
  <2> HIDE DEF n
  <2> QED BY <2>1, <2>3, <2>4, <2>5, <2>7, <2>8, <2>9
<1>2. CASE StartConfirm
  <2>1. Cardinality(Started) \in Gens
    BY <1>2, LastSpawned DEF StartConfirm
  <2>2. \A g \in Gens : reaper[g] \notin {"waiting", "locking"}
    BY <1>2 DEF StartConfirm, nil, Gens
  <2>3. \A g \in Gens : proc[g] = "alive" => g = Cardinality(Started)
    BY <1>2 DEF StartConfirm, nil, Gens
  <2> QED BY <1>2, <2>1, <2>2, <2>3 DEF StartConfirm
<1>3. CASE StopPipeline \/ StopWaited
  BY <1>3 DEF StopPipeline, StopWaited, processVars
<1>4. CASE StopSignal
  BY <1>4 DEF StopSignal
<1>5. ASSUME NEW g \in Gens, Exit(g) PROVE HeldInv'
  <2>1. Started' = Started
    BY <1>5 DEF Exit, Started
  <2> QED BY <1>5, <2>1 DEF Exit, pipelineVars
<1>6. ASSUME NEW g \in Gens, ReaperWait(g) PROVE HeldInv'
  <2>1. Started' = Started
    BY <1>6 DEF ReaperWait, Started
  <2> QED BY <1>6, <2>1 DEF ReaperWait, pipelineVars
<1>7. ASSUME NEW g \in Gens, ReaperClear(g) PROVE HeldInv'
  BY <1>7 DEF ReaperClear, MuFree, pipelineVars
<1>8. ASSUME NEW g \in Gens, PollerStep(g) PROVE HeldInv'
  <2>1. UNCHANGED <<caller, cmd, proc, reaper, Started>>
    BY <1>8 DEF PollerStep, PollTick, PollDone, QueryFails, QueryAnswers, Offer, OfferClosed, PollDrop,
                processVars, Started
  <2>2. caller = "starting" => \A h \in Gens : h = Cardinality(Started) => h # g
    BY <1>8, PollerSteps
  <2> QED BY <1>8, <2>1, <2>2, PollerSteps
<1>9. ASSUME NEW g \in Gens, ShipperStep(g) PROVE HeldInv'
  BY <1>9 DEF ShipperStep, OpenLog, Take, Write, CountDrained, ShipperExit, processVars, Started
<1> QED BY <1>1, <1>2, <1>3, <1>4, <1>5, <1>6, <1>7, <1>8, <1>9 DEF PoolNext, CallerStep, ReaperStep

---------------------------------------------------------------------------
LEMMA PanicStep ==
    ASSUME PoolInv, PoolNext
    PROVE  PanicInv'
<1> USE DEF PoolInv, PanicInv, PoolTypeOK
<1>1. OnlyOne' => OnlyOne
  BY StartedStep DEF OnlyOne, Started, StartSpawn, ProcessTypeOK
<1>2. CASE UNCHANGED <<panicked, closedCh, poller>>
  BY <1>1, <1>2
<1>3. CASE StartConfirm
  <2>1. Cardinality(Started) \in Gens /\ poller[Cardinality(Started)].pc = "none"
    BY <1>3, LastSpawned DEF StartConfirm, HeldInv
  <2>2. closedCh # {} => \E g \in Gens : poller'[g].pc = "exit"
    BY <1>3, <2>1 DEF StartConfirm, PollerTypeOK
  <2>3. ASSUME OnlyOne PROVE closedCh = {}
    <3>1. \A g \in Gens : poller[g].pc # "none" => g = 1
      BY <2>3 DEF OnlyOne, FieldsInv
    <3>2. Cardinality(Started) = 1
      <4>1. PICK k \in 0 .. MaxStarts : InOrder(k)
        BY DEF SpawnInv
      <4>2. Cardinality(Started) = k /\ proc[k] # "none"
        BY <2>1, <4>1, CountStarted
      <4> QED BY <2>1, <2>3, <4>2 DEF OnlyOne
    <3> QED BY <2>1, <3>1, <3>2
  <2> QED BY <1>1, <1>3, <2>2, <2>3 DEF StartConfirm
<1>4. CASE StartSpawn \/ StopPipeline \/ StopWaited \/ StopSignal
  BY <1>2, <1>4 DEF StartSpawn, StopPipeline, StopWaited, StopSignal, pipelineVars, channelVars
<1>5. ASSUME NEW g \in Gens, Exit(g) \/ ReaperStep(g) PROVE PanicInv'
  BY <1>2, <1>5 DEF Exit, ReaperStep, ReaperWait, ReaperClear, pipelineVars, channelVars
<1>6. ASSUME NEW g \in Gens, PollerStep(g) PROVE PanicInv'
  <2>1. OnlyOne => \A h \in Gens : h # g => poller[h].pc = "none"
    BY <1>6, PollerSteps DEF OnlyOne, FieldsInv
  <2>2. CASE PollDone(g)
    <3>1. poller'[g].pc = "exit"
      BY <2>2, PollerMoves DEF PollDone, PollerStates
    <3>2. OnlyOne => closedCh = {}
      BY <2>2 DEF PollDone
    <3>3. OnlyOne => ~panicked'
      BY <2>2, <3>2 DEF PollDone
    <3> QED BY <1>1, <1>6, <2>1, <3>1, <3>3, PollerSteps
  <2>3. CASE OfferClosed(g)
    <3>1. ~OnlyOne
      BY <2>3 DEF OfferClosed
    <3> QED BY <1>1, <2>3, <3>1 DEF OfferClosed, pipelineVars, channelVars
  <2>4. CASE PollTick(g) \/ QueryFails(g) \/ QueryAnswers(g) \/ Offer(g) \/ PollDrop(g)
    <3>1. UNCHANGED <<panicked, closedCh>> /\ poller[g].pc \notin {"none", "exit"}
      BY <2>4 DEF PollTick, QueryFails, QueryAnswers, Offer, PollDrop, channelVars
    <3> QED BY <1>1, <1>6, <3>1, PollerSteps
  <2> QED BY <1>6, <2>2, <2>3, <2>4 DEF PollerStep
<1>7. ASSUME NEW g \in Gens, ShipperStep(g) PROVE PanicInv'
  BY <1>2, <1>7 DEF ShipperStep, OpenLog, Take, Write, CountDrained, ShipperExit, channelVars
<1> QED BY <1>3, <1>4, <1>5, <1>6, <1>7 DEF PoolNext, CallerStep

---------------------------------------------------------------------------
LEMMA StepInv == PoolInv /\ [PoolNext]_poolVars => PoolInv'
<1> SUFFICES ASSUME PoolInv, [PoolNext]_poolVars PROVE PoolInv'
  OBVIOUS
<1>1. CASE PoolNext
  BY <1>1, ProcessTypeStep, ChannelTypeStep, PollerTypeStep, ShipperTypeStep, TallyTypeStep,
     StartedStep, FieldsStep, HeldStep, PanicStep DEF PoolInv, PoolTypeOK
<1>2. CASE UNCHANGED poolVars
  <2>1. Started' = Started
    BY <1>2 DEF poolVars, processVars, Started
  <2> USE <1>2, <2>1 DEF PoolInv, poolVars, processVars, pipelineVars, channelVars
  <2>2. PoolTypeOK'
    BY DEF PoolTypeOK, ProcessTypeOK, ChannelTypeOK, PollerTypeOK, ShipperTypeOK, TallyTypeOK
  <2>3. SpawnInv'
    BY DEF SpawnInv, InOrder
  <2>4. FieldsInv' /\ HeldInv'
    BY DEF FieldsInv, HeldInv
  <2>5. PanicInv'
    BY DEF PanicInv, OnlyOne
  <2> QED BY <2>2, <2>3, <2>4, <2>5
<1> QED BY <1>1, <1>2

LEMMA PoolInvHolds == PoolSpec => []PoolInv
BY InitInv, StepInv, PTL DEF PoolSpec

(* Type correctness of the supervisor and of its stats pipelines: no channel
   is ever fuller than its buffer, and every goroutine's fields name one. *)
THEOREM PoolTypeCorrect == PoolSpec => []PoolTypeOK
<1>1. PoolInv => PoolTypeOK
  BY DEF PoolInv
<1> QED BY <1>1, PoolInvHolds, PTL

(* However often PgBouncer dies and is started again, and whatever its
   reapers do late, no two of them compete for the port. *)
THEOREM OnePgBouncer == PoolSpec => []SinglePgBouncer
<1>1. ASSUME PoolInv PROVE SinglePgBouncer
  <2> DEFINE alive == {g \in Gens : proc[g] = "alive"}
  <2>1. CASE alive = {}
    BY <2>1, FS_EmptySet DEF SinglePgBouncer
  <2>2. CASE alive # {}
    <3>1. PICK g : g \in alive
      BY <2>2
    <3>2. alive = {g}
      BY <1>1, <3>1 DEF PoolInv, HeldInv
    <3> QED BY <3>2, FS_Singleton DEF SinglePgBouncer
  <2> QED BY <2>1, <2>2
<1> QED BY <1>1, PoolInvHolds, PTL

(* A panic of the pipeline takes a second Start: one Start and one Stop, in
   any interleaving with their goroutines, close no channel twice and send
   on none that is closed. *)
THEOREM PanicTakesTwoStarts == PoolSpec => []NoPanic
<1>1. ASSUME PoolInv, panicked PROVE Cardinality(Started) > 1
  <2>1. PICK k \in 0 .. MaxStarts : InOrder(k)
    BY <1>1 DEF PoolInv, SpawnInv
  <2>2. k \in Nat /\ Cardinality(Started) = k /\ \A g \in Gens : proc[g] # "none" <=> g <= k
    BY <2>1, CountStarted
  <2>3. PICK g \in Gens : proc[g] # "none" /\ g # 1
    BY <1>1 DEF PoolInv, PanicInv, OnlyOne
  <2> QED BY <2>2, <2>3 DEF Gens
<1> QED BY <1>1, PoolInvHolds, PTL DEF NoPanic
---------------------------------------------------------------------------
(* A pipeline's goroutines come together, with the Start of its process, and
   every channel with a sample, or with a shipper, is that of a Start. *)
PipelineInv ==
    /\ statsCh # nil => proc[statsCh] # "none"
    /\ \A g \in Gens :
         /\ queue[g] > 0 => proc[g] # "none"
         /\ poller[g].pc = "none" <=> shipper[g].pc = "none"
         /\ shipper[g].pc \notin {"none", "open"} => proc[shipper[g].ch] # "none"
         /\ proc[g] # "none" /\ poller[g].pc = "none" =>
              caller = "starting" /\ g = Cardinality(Started)
    /\ caller = "idle" /\ statsDone = nil => Started = {}

(* Nothing is closed before Stop, after which no Start replaces the fields:
   the pollers that exit all close the same channel, and the second panics. *)
ClosingInv ==
    /\ closedDone # {} => caller \in {"waiting", "signalling", "stopped"}
    /\ closedCh # {} => closedDone # {}
    /\ \A g \in Gens : poller[g].pc = "exit" => statsCh \in closedCh
    /\ ~panicked => \A g, h \in Gens : poller[g].pc = "exit" /\ poller[h].pc = "exit" => g = h
    /\ \A g \in Gens : shipper[g].pc = "exit" =>
         shipper[g].ch \in closedCh /\ queue[shipper[g].ch] = 0

DrainInv == PipelineInv /\ ClosingInv /\ Drained

(* What the goroutines leave alone. *)
LEMMA PollerLeaves ==
    ASSUME NEW g \in Gens, PollerStep(g)
    PROVE  UNCHANGED <<caller, cmd, proc, reaper, statsCh, statsDone, closedDone, shipper, Started>>
BY DEF PollerStep, PollTick, PollDone, QueryFails, QueryAnswers, Offer, OfferClosed, PollDrop,
       processVars, channelVars, pipelineVars, Started

LEMMA ShipperLeaves ==
    ASSUME NEW g \in Gens, ShipperStep(g)
    PROVE  UNCHANGED <<caller, cmd, proc, reaper, statsCh, statsDone, closedCh, closedDone, poller,
                       panicked, Started>>
BY DEF ShipperStep, OpenLog, Take, Write, CountDrained, ShipperExit, processVars, channelVars, Started

LEMMA ProcessLeaves ==
    ASSUME PoolInv, NEW g \in Gens, Exit(g) \/ ReaperStep(g)
    PROVE  UNCHANGED <<caller, pipelineVars, panicked, Started>>
<1>1. Started' = Started
  BY DEF Exit, ReaperStep, ReaperWait, ReaperClear, Started, PoolInv, PoolTypeOK, ProcessTypeOK
<1> QED BY <1>1 DEF Exit, ReaperStep, ReaperWait, ReaperClear

(* Who fills a channel and who empties it. *)
LEMMA PollerQueues ==
    ASSUME PoolInv, NEW g \in Gens, PollerStep(g), queue' # queue
    PROVE  /\ Offer(g) /\ statsCh \in Gens /\ statsCh \notin closedCh
           /\ queue[statsCh] < StatsBufferSize
           /\ queue' = [queue EXCEPT ![statsCh] = @ + 1]
           /\ poller[g].pc = "offer" /\ PollerWaits(g)
<1>1. CASE PollTick(g) \/ PollDone(g) \/ QueryFails(g) \/ QueryAnswers(g) \/ OfferClosed(g) \/ PollDrop(g)
  BY <1>1 DEF PollTick, PollDone, QueryFails, QueryAnswers, OfferClosed, PollDrop, channelVars, pipelineVars
<1>2. CASE Offer(g)
  BY <1>2 DEF Offer, PoolInv, PoolTypeOK, ChannelTypeOK, FieldsInv
<1> QED BY <1>1, <1>2 DEF PollerStep

LEMMA ShipperQueues ==
    ASSUME PoolInv, NEW g \in Gens, ShipperStep(g), queue' # queue
    PROVE  /\ Take(g) /\ shipper[g].ch \in Gens
           /\ queue[shipper[g].ch] > 0
           /\ queue' = [queue EXCEPT ![shipper[g].ch] = @ - 1]
<1>1. CASE OpenLog(g) \/ Write(g) \/ CountDrained(g) \/ ShipperExit(g)
  BY <1>1 DEF OpenLog, Write, CountDrained, ShipperExit, channelVars
<1>2. CASE Take(g)
  BY <1>2 DEF Take, PoolInv, PoolTypeOK, ShipperTypeOK, FieldsInv
<1> QED BY <1>1, <1>2 DEF ShipperStep

LEMMA PipelineStep ==
    ASSUME PoolInv, PoolInv', PipelineInv, PoolNext
    PROVE  PipelineInv'
<1> USE DEF PipelineInv
<1>0. /\ queue \in [Gens -> Nat] /\ (statsCh # nil => statsCh \in Gens)
      /\ \A g \in Gens : shipper[g].pc \notin {"none", "open"} => shipper[g].ch \in Gens
      /\ \A g \in Gens : proc[g] # "none" => proc'[g] # "none"
  <2>1. /\ queue \in [Gens -> Nat] /\ (statsCh # nil => statsCh \in Gens)
        /\ \A g \in Gens : shipper[g].pc \notin {"none", "open"} => shipper[g].ch \in Gens
    BY PoolAssumption DEF PoolInv, PoolTypeOK, ChannelTypeOK, ShipperTypeOK, FieldsInv
  <2>2. Started \subseteq Started'
    BY StartedStep DEF StartSpawn, Started, PoolInv, PoolTypeOK, ProcessTypeOK
  <2> QED BY <2>1, <2>2 DEF Started
<1>1. CASE StartConfirm
  <2> DEFINE n == Cardinality(Started)
  <2>1. n \in Gens /\ n # nil /\ Started' = Started
    BY <1>1, LastSpawned, StartedStep DEF StartConfirm, PoolInv, HeldInv, Gens, nil, Started
  <2>2. proc[n] # "none"
    BY <1>1 DEF StartConfirm, Confirms
  <2>3. /\ poller'[n].pc = "wait" /\ shipper'[n].pc = "open"
        /\ \A g \in Gens : g # n => poller'[g] = poller[g] /\ shipper'[g] = shipper[g]
    BY <1>1, <2>1 DEF StartConfirm, PoolInv, PoolTypeOK, PollerTypeOK, ShipperTypeOK
  <2>4. statsCh' = n /\ statsDone' = n /\ UNCHANGED <<proc, queue>>
    BY <1>1 DEF StartConfirm
  <2> HIDE DEF n
  <2>5. \A g \in Gens : proc[g] # "none" /\ poller[g].pc = "none" => g = n
    BY DEF n
  <2> QED BY <2>1, <2>2, <2>3, <2>4, <2>5
<1>2. CASE StartSpawn
  <2>1. /\ caller = "idle" /\ caller' = "starting" /\ UNCHANGED pipelineVars
        /\ \A g \in Gens : proc'[g] # "none" => proc[g] # "none" \/ g = Cardinality(Started) + 1
    BY <1>2 DEF StartSpawn, PoolInv, PoolTypeOK, ProcessTypeOK
  <2>2. \A g \in Gens : proc[g] # "none" => poller[g].pc # "none"
    BY <2>1
  <2>3. Cardinality(Started') = Cardinality(Started) + 1
    BY <1>2, SpawnCounts
  <2>4. \A g \in Gens : proc'[g] # "none" /\ poller[g].pc = "none" => g = Cardinality(Started')
    BY <2>1, <2>2, <2>3
  <2>5. UNCHANGED <<statsCh, statsDone, queue, poller, shipper>>
    BY <2>1 DEF pipelineVars, channelVars
  <2> QED BY <1>0, <2>1, <2>4, <2>5
<1>3. CASE StopPipeline \/ StopWaited \/ StopSignal
  <2>1. /\ UNCHANGED <<proc, statsCh, queue, poller, shipper, Started>>
        /\ caller # "starting" /\ caller' \notin {"idle", "starting"}
    BY <1>3 DEF StopPipeline, StopWaited, StopSignal, processVars, pipelineVars, channelVars, Started
  <2> QED BY <2>1
<1>4. ASSUME NEW g \in Gens, Exit(g) \/ ReaperStep(g) PROVE PipelineInv'
  <2>1. UNCHANGED <<caller, statsCh, statsDone, queue, poller, shipper, Started>>
    BY <1>4, ProcessLeaves DEF pipelineVars, channelVars
  <2>2. \A h \in Gens : proc'[h] # "none" => proc[h] # "none"
    BY <2>1 DEF Started
  <2> QED BY <1>0, <2>1, <2>2
<1>5. ASSUME NEW g \in Gens, PollerStep(g) PROVE PipelineInv'
  <2>1. UNCHANGED <<caller, proc, statsCh, statsDone, shipper, Started>>
    BY <1>5, PollerLeaves
  <2>2. \A h \in Gens : poller'[h].pc = "none" <=> poller[h].pc = "none"
    BY <1>5, PollerSteps
  <2>3. \A h \in Gens : queue'[h] > 0 => proc[h] # "none"
    <3>1. CASE UNCHANGED queue
      BY <3>1
    <3>2. CASE queue' # queue
      <4>1. statsCh \in Gens /\ queue' = [queue EXCEPT ![statsCh] = @ + 1]
        BY <1>5, <3>2, PollerQueues
      <4>2. proc[statsCh] # "none"
        BY <4>1, PoolAssumption DEF nil, Gens
      <4>3. \A h \in Gens : h # statsCh => queue'[h] = queue[h]
        BY <1>0, <4>1
      <4> QED BY <4>2, <4>3
    <3> QED BY <3>1, <3>2
  <2> QED BY <2>1, <2>2, <2>3
<1>6. ASSUME NEW g \in Gens, ShipperStep(g) PROVE PipelineInv'
  <2>1. UNCHANGED <<caller, proc, statsCh, statsDone, poller, Started>>
    BY <1>6, ShipperLeaves
  <2>2. \A h \in Gens : /\ shipper'[h].pc = "none" <=> shipper[h].pc = "none"
                        /\ h # g => shipper'[h] = shipper[h]
    BY <1>6, ShipperSteps
  <2>3. proc[shipper'[g].ch] # "none"
    BY <1>6, ShipperSteps DEF PoolInv, FieldsInv
  <2>4. \A h \in Gens : queue'[h] > 0 => queue[h] > 0
    BY <1>0, <1>6, ShipperQueues
  <2> QED BY <2>1, <2>2, <2>3, <2>4
<1> QED BY <1>1, <1>2, <1>3, <1>4, <1>5, <1>6 DEF PoolNext, CallerStep

LEMMA ClosingStep ==
    ASSUME PoolInv, PoolInv', ClosingInv, PoolNext
    PROVE  ClosingInv'
<1> USE DEF ClosingInv
<1>0. ~panicked
  BY DEF PoolNext
<1>1. CASE StartConfirm
  <2>1. closedCh = {} /\ closedDone = {} /\ UNCHANGED <<closedCh, closedDone>>
    BY <1>1 DEF StartConfirm
  <2>2. \A g \in Gens : poller'[g].pc # "exit" /\ shipper'[g].pc # "exit"
    BY <1>1, <2>1 DEF StartConfirm, PoolInv, PoolTypeOK, PollerTypeOK, ShipperTypeOK
  <2> QED BY <2>1, <2>2
<1>2. CASE StartSpawn \/ StopPipeline \/ StopWaited \/ StopSignal
  BY <1>0, <1>2 DEF StartSpawn, StopPipeline, StopWaited, StopSignal, pipelineVars, channelVars
<1>3. ASSUME NEW g \in Gens, Exit(g) \/ ReaperStep(g) PROVE ClosingInv'
  BY <1>0, <1>3, ProcessLeaves DEF pipelineVars, channelVars
<1>4. ASSUME NEW g \in Gens, PollerStep(g) PROVE ClosingInv'
  <2>1. UNCHANGED <<caller, statsCh, closedDone, shipper>>
    BY <1>4, PollerLeaves
  <2>2. \A h \in Gens : shipper[h].pc = "exit" => queue'[shipper[h].ch] = 0
    BY <1>4, PollerQueues DEF PoolInv, PoolTypeOK, ChannelTypeOK
  <2>3. CASE PollDone(g)
    <3>1. closedDone # {} /\ statsCh \in closedCh' /\ closedCh \subseteq closedCh'
      BY <2>3 DEF PollDone
    <3>2. ~panicked' => statsCh \notin closedCh
      BY <2>3 DEF PollDone, Panic
    <3>3. ~panicked' => \A h \in Gens : poller'[h].pc = "exit" => h = g
      BY <1>4, <3>2, PollerSteps
    <3> QED BY <2>1, <2>2, <3>1, <3>3
  <2>4. CASE ~PollDone(g)
    <3>1. UNCHANGED closedCh
      BY <1>4, <2>4 DEF PollerStep, PollTick, QueryFails, QueryAnswers, Offer, OfferClosed, PollDrop,
                        channelVars, pipelineVars
    <3>2. \A h \in Gens : poller'[h].pc = "exit" => poller[h].pc = "exit"
      BY <1>4, <2>4, PollerSteps
    <3> QED BY <1>0, <2>1, <2>2, <3>1, <3>2
  <2> QED BY <2>3, <2>4
<1>5. ASSUME NEW g \in Gens, ShipperStep(g) PROVE ClosingInv'
  <2>1. UNCHANGED <<caller, statsCh, closedCh, closedDone, poller, panicked>>
    BY <1>5, ShipperLeaves
  <2>2. \A h \in Gens : shipper[h].pc = "exit" => queue'[shipper[h].ch] = 0
    BY <1>5, ShipperQueues DEF PoolInv, PoolTypeOK, ChannelTypeOK
  <2>3. shipper'[g].pc = "exit" => shipper'[g].ch \in closedCh /\ queue'[shipper'[g].ch] = 0
    <3> SUFFICES ASSUME shipper'[g].pc = "exit"
                 PROVE  shipper'[g].ch \in closedCh /\ queue'[shipper'[g].ch] = 0
      OBVIOUS
    <3>1. ShipperExit(g)
      BY <1>5, ShipperSteps
    <3> QED BY <1>5, <3>1, ShipperSteps DEF ShipperExit, channelVars
  <2>4. \A h \in Gens : h # g => shipper'[h] = shipper[h]
    BY <1>5, ShipperSteps
  <2> QED BY <2>1, <2>2, <2>3, <2>4
<1> QED BY <1>1, <1>2, <1>3, <1>4, <1>5 DEF PoolNext, CallerStep

(* With nobody left, every Start had a poller that exited, so there was at
   most one, and its shipper emptied its channel before it went. *)
LEMMA NobodyLeft ==
    ASSUME PoolInv, PipelineInv, ClosingInv, ~panicked, caller # "starting",
           \A g \in Gens : ~Live(g)
    PROVE  \A g \in Gens : queue[g] = 0
<1> SUFFICES ASSUME NEW g \in Gens, queue[g] > 0 PROVE FALSE
  BY PoolAssumption DEF PoolInv, PoolTypeOK, ChannelTypeOK
<1>1. proc[g] # "none" /\ poller[g].pc = "exit" /\ shipper[g].pc = "exit"
  BY DEF PipelineInv, Live
<1>2. shipper[g].ch \in Gens /\ proc[shipper[g].ch] # "none" /\ queue[shipper[g].ch] = 0
  BY <1>1 DEF PipelineInv, ClosingInv, PoolInv, PoolTypeOK, ShipperTypeOK, FieldsInv
<1>3. poller[shipper[g].ch].pc = "exit"
  BY <1>2 DEF PipelineInv, Live
<1> QED BY <1>1, <1>2, <1>3 DEF ClosingInv

LEMMA DrainedStep ==
    ASSUME PoolInv, DrainInv, PoolNext
    PROVE  Drained'
<1> USE DEF DrainInv, Drained
<1>0. ~panicked
  BY DEF PoolNext
<1>1. CASE StartSpawn \/ StartConfirm
  BY <1>1 DEF StartSpawn, StartConfirm
<1>2. CASE StopPipeline
  <2> SUFFICES ASSUME statsDone = nil, UNCHANGED <<queue, poller, shipper>>
               PROVE  \A g \in Gens : ~Live(g)' /\ queue'[g] = 0
    BY <1>2 DEF StopPipeline
  <2>1. \A g \in Gens : proc[g] = "none"
    BY <1>2 DEF StopPipeline, PipelineInv, Started
  <2>2. \A g \in Gens : poller[g].pc = "none" /\ shipper[g].pc = "none"
    BY <2>1 DEF PipelineInv, PoolInv, FieldsInv
  <2>3. \A g \in Gens : queue[g] = 0
    BY <2>1, PoolAssumption DEF PipelineInv, PoolInv, PoolTypeOK, ChannelTypeOK
  <2> QED BY <2>2, <2>3 DEF Live
<1>3. CASE StopWaited
  BY <1>0, <1>3, NobodyLeft DEF StopWaited, Live
<1>4. CASE StopSignal
  BY <1>4 DEF StopSignal, pipelineVars, channelVars, Live
<1>5. ASSUME NEW g \in Gens, Exit(g) \/ ReaperStep(g) PROVE Drained'
  BY <1>5, ProcessLeaves DEF pipelineVars, channelVars, Live
<1>6. ASSUME NEW g \in Gens, PollerStep(g) PROVE Drained'
  BY <1>6, PollerLeaves, PollerSteps DEF Live
<1>7. ASSUME NEW g \in Gens, ShipperStep(g) PROVE Drained'
  BY <1>7, ShipperLeaves, ShipperSteps DEF Live
<1> QED BY <1>1, <1>2, <1>3, <1>4, <1>5, <1>6, <1>7 DEF PoolNext, CallerStep

LEMMA DrainInit == PoolInit => DrainInv
<1> SUFFICES ASSUME PoolInit PROVE DrainInv
  OBVIOUS
<1>1. Started = {}
  BY DEF PoolInit, Started
<1> QED BY <1>1 DEF PoolInit, DrainInv, PipelineInv, ClosingInv, Drained, nil

LEMMA DrainStep == PoolInv /\ PoolInv' /\ DrainInv /\ [PoolNext]_poolVars => DrainInv'
<1> SUFFICES ASSUME PoolInv, PoolInv', DrainInv, [PoolNext]_poolVars PROVE DrainInv'
  OBVIOUS
<1>1. CASE PoolNext
  BY <1>1, PipelineStep, ClosingStep, DrainedStep DEF DrainInv
<1>2. CASE UNCHANGED poolVars
  <2> USE <1>2 DEF poolVars, processVars, pipelineVars, channelVars
  <2>1. Started' = Started
    BY DEF Started
  <2>2. PipelineInv' /\ ClosingInv'
    BY <2>1 DEF DrainInv, PipelineInv, ClosingInv
  <2>3. Drained'
    BY DEF DrainInv, Drained, Live
  <2> QED BY <2>2, <2>3 DEF DrainInv
<1> QED BY <1>1, <1>2

LEMMA DrainInvHolds == PoolSpec => [](PoolInv /\ DrainInv)
BY PoolInvHolds, DrainInit, DrainStep, PTL DEF PoolSpec

(* cmd/pooltest/main.go:126: a Stop that gets as far as the process has left
   no goroutine running and no sample unread, also after a Start that left its
   pipeline behind. *)
THEOREM StopDrains == PoolSpec => []Drained
<1>1. DrainInv => Drained
  BY DEF DrainInv
<1> QED BY <1>1, DrainInvHolds, PTL

(* What StopReturns rests on: a Stop that waits has closed the channel that
   every poller waits on next, and when the pollers are gone every shipper is
   on a channel that was closed, or will open one: what is left in it is all
   that keeps the shipper. *)
StopIsHeard ==
    caller = "waiting" =>
        /\ statsDone \in closedDone
        /\ ~panicked /\ (\A g \in Gens : poller[g].pc \in {"none", "exit"}) =>
              \A g \in Gens : shipper[g].pc # "none" =>
                 (IF shipper[g].pc = "open" THEN statsCh ELSE shipper[g].ch) \in closedCh

SignalInv == caller = "waiting" => statsDone \in closedDone

LEMMA SignalStep ==
    ASSUME SignalInv, [PoolNext]_poolVars
    PROVE  SignalInv'
<1> USE DEF SignalInv
<1>1. CASE UNCHANGED poolVars
  BY <1>1 DEF poolVars, pipelineVars, channelVars
<1>2. CASE StopPipeline
  BY <1>2 DEF StopPipeline
<1>3. CASE StartSpawn \/ StartConfirm \/ StopWaited \/ StopSignal
  BY <1>3 DEF StartSpawn, StartConfirm, StopWaited, StopSignal
<1>4. ASSUME NEW g \in Gens, Exit(g) \/ ReaperStep(g) PROVE SignalInv'
  BY <1>4 DEF Exit, ReaperStep, ReaperWait, ReaperClear, pipelineVars, channelVars
<1>5. ASSUME NEW g \in Gens, PollerStep(g) PROVE SignalInv'
  BY <1>5, PollerLeaves
<1>6. ASSUME NEW g \in Gens, ShipperStep(g) PROVE SignalInv'
  BY <1>6, ShipperLeaves
<1> QED BY <1>1, <1>2, <1>3, <1>4, <1>5, <1>6 DEF PoolNext, CallerStep

LEMMA HeardFromInv ==
    ASSUME PoolInv, DrainInv, SignalInv
    PROVE  StopIsHeard
<1> SUFFICES ASSUME caller = "waiting", ~panicked,
                    \A g \in Gens : poller[g].pc \in {"none", "exit"},
                    NEW g \in Gens, shipper[g].pc # "none"
             PROVE  (IF shipper[g].pc = "open" THEN statsCh ELSE shipper[g].ch) \in closedCh
  BY DEF StopIsHeard, SignalInv
<1> USE DEF DrainInv, PipelineInv, ClosingInv
<1>1. \A h \in Gens : proc[h] # "none" => poller[h].pc = "exit" /\ h = g
  BY DEF PoolInv, FieldsInv
<1>2. statsCh \in closedCh /\ statsCh \in Gens /\ proc[statsCh] # "none"
  BY DEF PoolInv, PoolTypeOK, ChannelTypeOK, FieldsInv
<1>3. ASSUME shipper[g].pc # "open" PROVE shipper[g].ch = statsCh
  <2>1. shipper[g].ch \in Gens /\ proc[shipper[g].ch] # "none"
    BY <1>3 DEF PoolInv, PoolTypeOK, ShipperTypeOK, FieldsInv
  <2> QED BY <1>1, <1>2, <2>1
<1> QED BY <1>2, <1>3

(* In every interleaving, and also after a Start that replaced the fields a
   running pipeline reads, nothing but the mutex, a panic, a query that does not
   return or a sink that does not take its lines keeps Stop from returning. *)
THEOREM StopReachesEveryone == PoolSpec => []StopIsHeard
<1>1. PoolInit => SignalInv
  BY DEF PoolInit, SignalInv
<1> QED BY <1>1, DrainInvHolds, SignalStep, HeardFromInv, PTL DEF PoolSpec
---------------------------------------------------------------------------
(* Counting samples: a pipeline has finitely many hands and places. *)
LEMMA PlacesFinite ==
    ASSUME PoolTypeOK
    PROVE  /\ IsFiniteSet(Offering) /\ Cardinality(Offering) \in Nat
           /\ IsFiniteSet(Handling) /\ Cardinality(Handling) \in Nat
           /\ IsFiniteSet(Waiting) /\ Cardinality(Waiting) \in Nat
<1>1. IsFiniteSet(Gens) /\ IsFiniteSet(1 .. StatsBufferSize)
  BY PoolAssumption, FS_Interval DEF Gens
<1>2. IsFiniteSet(Gens \X (1 .. StatsBufferSize))
  BY <1>1, FS_Product
<1>3. Offering \subseteq Gens /\ Handling \subseteq Gens
  BY DEF Offering, Handling
<1>4. Waiting \subseteq Gens \X (1 .. StatsBufferSize)
  BY DEF Waiting
<1>5. IsFiniteSet(Offering) /\ IsFiniteSet(Handling) /\ IsFiniteSet(Waiting)
  BY <1>1, <1>2, <1>3, <1>4, FS_Subset
<1> QED BY <1>5, FS_CardinalityType

(* A goroutine takes a sample into its hands, or gives it away. *)
LEMMA HandFills ==
    ASSUME NEW S, NEW x, IsFiniteSet(S), x \notin S
    PROVE  Cardinality(S \cup {x}) = Cardinality(S) + 1
BY FS_AddElement

LEMMA HandEmpties ==
    ASSUME NEW S, NEW x, IsFiniteSet(S), x \in S
    PROVE  Cardinality(S \ {x}) = Cardinality(S) - 1
BY FS_RemoveElement

(* A poller that moves from holding nothing to holding a sample or back. *)
LEMMA PollerHands ==
    ASSUME PoolInv, NEW g \in Gens, PollerStep(g)
    PROVE  LET held == poller[g].pc \in {"offer", "drop"}
               holds == poller'[g].pc \in {"offer", "drop"}
           IN  Cardinality(Offering') = Cardinality(Offering)
                 + (IF held = holds THEN 0 ELSE IF holds THEN 1 ELSE -1)
<1> DEFINE held == poller[g].pc \in {"offer", "drop"}
           holds == poller'[g].pc \in {"offer", "drop"}
<1>1. IsFiniteSet(Offering) /\ Cardinality(Offering) \in Nat
  BY PlacesFinite DEF PoolInv
<1>2. \A h \in Gens : h # g => poller'[h] = poller[h]
  BY PollerSteps
<1>3. CASE held = holds
  <2>1. Offering' = Offering
    BY <1>2, <1>3 DEF Offering
  <2> QED BY <1>1, <1>3, <2>1
<1>4. CASE ~held /\ holds
  <2>1. Offering' = Offering \cup {g} /\ g \notin Offering
    BY <1>2, <1>4 DEF Offering
  <2> QED BY <1>1, <1>4, <2>1, HandFills
<1>5. CASE held /\ ~holds
  <2>1. Offering' = Offering \ {g} /\ g \in Offering
    BY <1>2, <1>5 DEF Offering
  <2> QED BY <1>1, <1>5, <2>1, HandEmpties
<1> QED BY <1>3, <1>4, <1>5

LEMMA ShipperHands ==
    ASSUME PoolInv, NEW g \in Gens, ShipperStep(g)
    PROVE  LET held == shipper[g].pc \in {"write", "count"}
               holds == shipper'[g].pc \in {"write", "count"}
           IN  Cardinality(Handling') = Cardinality(Handling)
                 + (IF held = holds THEN 0 ELSE IF holds THEN 1 ELSE -1)
<1> DEFINE held == shipper[g].pc \in {"write", "count"}
           holds == shipper'[g].pc \in {"write", "count"}
<1>1. IsFiniteSet(Handling) /\ Cardinality(Handling) \in Nat
  BY PlacesFinite DEF PoolInv
<1>2. \A h \in Gens : h # g => shipper'[h] = shipper[h]
  BY ShipperSteps
<1>3. CASE held = holds
  <2>1. Handling' = Handling
    BY <1>2, <1>3 DEF Handling
  <2> QED BY <1>1, <1>3, <2>1
<1>4. CASE ~held /\ holds
  <2>1. Handling' = Handling \cup {g} /\ g \notin Handling
    BY <1>2, <1>4 DEF Handling
  <2> QED BY <1>1, <1>4, <2>1, HandFills
<1>5. CASE held /\ ~holds
  <2>1. Handling' = Handling \ {g} /\ g \in Handling
    BY <1>2, <1>5 DEF Handling
  <2> QED BY <1>1, <1>5, <2>1, HandEmpties
<1> QED BY <1>3, <1>4, <1>5

(* One place more, or one less, of one channel is taken. *)
LEMMA PlaceTaken ==
    ASSUME PoolInv, NEW c \in Gens, queue[c] < StatsBufferSize,
           queue' = [queue EXCEPT ![c] = @ + 1]
    PROVE  Cardinality(Waiting') = Cardinality(Waiting) + 1
<1> DEFINE new == <<c, queue[c] + 1>>
<1>1. queue \in [Gens -> 0 .. StatsBufferSize] /\ StatsBufferSize \in Nat
  BY PoolAssumption DEF PoolInv, PoolTypeOK, ChannelTypeOK
<1>2. new \in Gens \X (1 .. StatsBufferSize) /\ new \notin Waiting
  BY <1>1 DEF Waiting
<1>3. ASSUME NEW place \in Gens \X (1 .. StatsBufferSize)
      PROVE  place[2] <= queue'[place[1]] <=> place[2] <= queue[place[1]] \/ place = new
  BY <1>1
<1>4. Waiting' = Waiting \cup {new}
  <2> HIDE DEF new
  <2> QED BY <1>2, <1>3 DEF Waiting
<1> QED BY <1>2, <1>4, PlacesFinite, HandFills DEF PoolInv

LEMMA PlaceFreed ==
    ASSUME PoolInv, NEW c \in Gens, queue[c] > 0,
           queue' = [queue EXCEPT ![c] = @ - 1]
    PROVE  Cardinality(Waiting') = Cardinality(Waiting) - 1
<1> DEFINE old == <<c, queue[c]>>
<1>1. queue \in [Gens -> 0 .. StatsBufferSize] /\ StatsBufferSize \in Nat
  BY PoolAssumption DEF PoolInv, PoolTypeOK, ChannelTypeOK
<1>2. old \in Waiting
  BY <1>1 DEF Waiting
<1>3. ASSUME NEW place \in Gens \X (1 .. StatsBufferSize)
      PROVE  place[2] <= queue'[place[1]] <=> place[2] <= queue[place[1]] /\ place # old
  BY <1>1
<1>4. Waiting' = Waiting \ {old}
  <2> HIDE DEF old
  <2> QED BY <1>2, <1>3 DEF Waiting
<1> QED BY <1>2, <1>4, PlacesFinite, HandEmpties DEF PoolInv

LEMMA TallyCounts ==
    ASSUME PoolInv, NEW field \in {"polled", "shipped", "dropped", "unwritten"}, Tally(field)
    PROVE  /\ tally'.polled = tally.polled + (IF field = "polled" THEN 1 ELSE 0)
           /\ tally'.shipped = tally.shipped + (IF field = "shipped" THEN 1 ELSE 0)
           /\ tally'.dropped = tally.dropped + (IF field = "dropped" THEN 1 ELSE 0)
           /\ tally'.unwritten = tally.unwritten + (IF field = "unwritten" THEN 1 ELSE 0)
BY DEF PoolInv, PoolTypeOK, TallyTypeOK, Tally

LEMMA AccountedStep ==
    ASSUME PoolInv, PipelineInv, Accounted, PoolNext
    PROVE  Accounted'
<1> USE DEF Accounted
<1>0. /\ tally.polled \in Nat /\ tally.shipped \in Nat /\ tally.dropped \in Nat /\ tally.unwritten \in Nat
      /\ Cardinality(Offering) \in Nat /\ Cardinality(Handling) \in Nat /\ Cardinality(Waiting) \in Nat
  BY PlacesFinite DEF PoolInv, PoolTypeOK, TallyTypeOK
<1>1. CASE UNCHANGED <<tally, queue, poller, shipper>>
  BY <1>1 DEF Offering, Handling, Waiting
<1>2. CASE StartSpawn \/ StopPipeline \/ StopWaited \/ StopSignal
  BY <1>1, <1>2 DEF StartSpawn, StopPipeline, StopWaited, StopSignal, pipelineVars, channelVars
<1>3. CASE StartConfirm
  <2> DEFINE n == Cardinality(Started)
  <2>1. n \in Gens /\ poller[n].pc = "none" /\ shipper[n].pc = "none"
    BY <1>3, LastSpawned DEF StartConfirm, PoolInv, HeldInv, PipelineInv
  <2>2. /\ poller'[n].pc = "wait" /\ shipper'[n].pc = "open" /\ UNCHANGED <<tally, queue>>
        /\ \A g \in Gens : g # n => poller'[g] = poller[g] /\ shipper'[g] = shipper[g]
    BY <1>3, <2>1 DEF StartConfirm, PoolInv, PoolTypeOK, PollerTypeOK, ShipperTypeOK
  <2> HIDE DEF n
  <2>3. Offering' = Offering /\ Handling' = Handling /\ Waiting' = Waiting
    BY <2>1, <2>2 DEF Offering, Handling, Waiting
  <2> QED BY <2>2, <2>3
<1>4. ASSUME NEW g \in Gens, Exit(g) \/ ReaperStep(g) PROVE Accounted'
  BY <1>1, <1>4, ProcessLeaves DEF pipelineVars, channelVars
<1>5. ASSUME NEW g \in Gens, PollerStep(g) PROVE Accounted'
  <2>1. UNCHANGED shipper /\ Handling' = Handling
    BY <1>5, PollerLeaves DEF Handling
  <2>2. UNCHANGED queue => Waiting' = Waiting
    BY DEF Waiting
  <2>3. CASE PollTick(g) \/ PollDone(g) \/ QueryFails(g)
    <3>1. /\ UNCHANGED <<tally, queue>>
          /\ poller[g].pc \notin {"offer", "drop"} /\ poller'[g].pc \notin {"offer", "drop"}
      BY <2>3, PollerMoves, PollerReturns DEF PollTick, PollDone, QueryFails, channelVars, PollerStates
    <3> QED BY <1>0, <1>5, <2>1, <2>2, <3>1, PollerHands
  <2>4. CASE OfferClosed(g)
    BY <1>1, <2>4 DEF OfferClosed, pipelineVars, channelVars
  <2>5. CASE QueryAnswers(g)
    <3>1. /\ UNCHANGED queue /\ Tally("polled")
          /\ poller[g].pc = "query" /\ poller'[g].pc = "offer"
      BY <2>5, PollerMoves DEF QueryAnswers, channelVars, PollerStates
    <3> QED BY <1>0, <1>5, <2>1, <2>2, <3>1, PollerHands, TallyCounts
  <2>6. CASE PollDrop(g)
    <3>1. /\ UNCHANGED queue /\ Tally("dropped")
          /\ poller[g].pc = "drop" /\ poller'[g].pc = "wait"
      BY <2>6, PollerReturns DEF PollDrop, channelVars
    <3> QED BY <1>0, <1>5, <2>1, <2>2, <3>1, PollerHands, TallyCounts
  <2>7. CASE Offer(g) /\ UNCHANGED queue
    <3>1. poller[g].pc = "offer" /\ poller'[g].pc = "drop" /\ UNCHANGED tally
      <4>1. ~(queue[statsCh] < StatsBufferSize)
        BY <2>7 DEF Offer, PoolInv, PoolTypeOK, ChannelTypeOK, FieldsInv
      <4> QED BY <2>7, <4>1, PollerMoves DEF Offer, PollerStates
    <3> QED BY <1>0, <1>5, <2>1, <2>2, <2>7, <3>1, PollerHands
  <2>8. CASE Offer(g) /\ queue' # queue
    <3>1. poller[g].pc = "offer" /\ poller'[g].pc = "wait" /\ UNCHANGED tally
      BY <1>5, <2>8, PollerQueues, PollerReturns DEF Offer
    <3>2. Cardinality(Waiting') = Cardinality(Waiting) + 1
      BY <1>5, <2>8, PollerQueues, PlaceTaken
    <3>3. Cardinality(Offering') = Cardinality(Offering) - 1
      BY <1>0, <1>5, <3>1, PollerHands
    <3> QED BY <1>0, <2>1, <3>1, <3>2, <3>3
  <2> QED BY <1>5, <2>3, <2>4, <2>5, <2>6, <2>7, <2>8 DEF PollerStep
<1>6. ASSUME NEW g \in Gens, ShipperStep(g) PROVE Accounted'
  <2>1. Offering' = Offering
    BY <1>6, ShipperLeaves DEF Offering
  <2>2. UNCHANGED queue => Waiting' = Waiting
    BY DEF Waiting
  <2>3. CASE OpenLog(g) \/ ShipperExit(g)
    <3>1. /\ UNCHANGED <<tally, queue>>
          /\ shipper[g].pc \notin {"write", "count"} /\ shipper'[g].pc \notin {"write", "count"}
      BY <2>3, ShipperMoves DEF OpenLog, ShipperExit, channelVars, ShipperStates, PoolInv, PoolTypeOK, ShipperTypeOK
    <3> QED BY <1>0, <1>6, <2>1, <2>2, <3>1, ShipperHands
  <2>4. CASE Take(g)
    <3>1. /\ shipper[g].pc \in {"ship", "drain"} /\ shipper'[g].pc \in {"write", "count"}
          /\ UNCHANGED tally
      BY <2>4, ShipperMoves DEF Take, ShipperStates
    <3>2. shipper[g].ch \in Gens
      BY <2>4 DEF Take, PoolInv, PoolTypeOK, ShipperTypeOK, FieldsInv
    <3>3. Cardinality(Waiting') = Cardinality(Waiting) - 1
      BY <2>4, <3>2, PlaceFreed DEF Take
    <3>4. Cardinality(Handling') = Cardinality(Handling) + 1
      BY <1>0, <1>6, <3>1, ShipperHands
    <3> QED BY <1>0, <2>1, <3>1, <3>3, <3>4
  <2>5. CASE Write(g)
    <3>1. /\ shipper[g].pc = "write" /\ shipper'[g].pc = "ship" /\ UNCHANGED queue
          /\ Tally("shipped") \/ Tally("unwritten")
      BY <2>5, ShipperMoves DEF Write, channelVars, ShipperStates
    <3>2. Cardinality(Handling') = Cardinality(Handling) - 1
      BY <1>0, <1>6, <3>1, ShipperHands
    <3> QED BY <1>0, <2>1, <2>2, <3>1, <3>2, TallyCounts
  <2>6. CASE CountDrained(g)
    <3>1. /\ shipper[g].pc = "count" /\ shipper'[g].pc = "drain" /\ UNCHANGED queue
          /\ Tally("dropped")
      BY <2>6, ShipperMoves DEF CountDrained, channelVars, ShipperStates
    <3> QED BY <1>0, <1>6, <2>1, <2>2, <3>1, ShipperHands, TallyCounts
  <2> QED BY <1>6, <2>3, <2>4, <2>5, <2>6 DEF ShipperStep
<1> QED BY <1>2, <1>3, <1>4, <1>5, <1>6 DEF PoolNext, CallerStep

LEMMA AccountedInit == PoolInit => Accounted
<1> SUFFICES ASSUME PoolInit PROVE Accounted
  OBVIOUS
<1>1. Offering = {} /\ Handling = {} /\ Waiting = {}
  BY DEF PoolInit, Offering, Handling, Waiting
<1> QED BY <1>1, FS_EmptySet DEF PoolInit, Accounted

(* pool.go:208: every sample that was polled is offered, waiting, handled,
   written, reported as unwritable or counted as dropped, exactly once, for
   any number of Starts, samples and leftovers of earlier pipelines. *)
THEOREM SamplesAccounted == PoolSpec => []Accounted
<1>1. PoolInv /\ DrainInv /\ Accounted /\ [PoolNext]_poolVars => Accounted'
  <2>1. ASSUME Accounted, UNCHANGED poolVars PROVE Accounted'
    BY <2>1 DEF poolVars, pipelineVars, channelVars, Accounted, Offering, Handling, Waiting
  <2> QED BY <2>1, AccountedStep DEF DrainInv
<1> QED BY <1>1, AccountedInit, DrainInvHolds, PTL DEF PoolSpec
=============================================================================
