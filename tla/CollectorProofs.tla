-------------------------- MODULE CollectorProofs --------------------------
(***************************************************************************)
(* Proofs about the circular buffer and about the collector that fills it, *)
(* for any channel, window size and set of snapshots.  The buffer: its     *)
(* indices stay in range and consistent, and it implements the abstract    *)
(* window the engine reads.  The collector: its types, that Shutdown never *)
(* closes a channel under a sender, that the drain goroutine keeps the     *)
(* buffer that window, and that the snapshots stay in order.               *)
(***************************************************************************)
EXTENDS Collector, SequenceTheorems, TLAPS

---------------------------------------------------------------------------
(* The circular buffer. *)

(* The write position advances by one and wraps at the end of the slice
   (window.go, Push). *)
LEMMA HeadAdvances ==
    ASSUME NEW h \in Slots
    PROVE  (h + 1) % WindowSize = IF h + 1 = WindowSize THEN 0 ELSE h + 1
  BY SizeAssumption DEF Slots

(* The newest slot is the one before head, wrapping at the start (window.go,
   CurrentRole and Latest). *)
LEMMA SlotBeforeHead ==
    ASSUME NEW h \in Slots
    PROVE  (h - 1 + WindowSize) % WindowSize = IF h = 0 THEN WindowSize - 1 ELSE h - 1
  BY SizeAssumption DEF Slots

(* The inductive invariant: the types, the consistency of head, count and
   full, and that every slot within the copied range was written by a Push. *)
Written == \A i \in 1 .. RingLen : buf[SlotOf(i)] \in Snapshots
RingInv == RingTypeOK /\ IndexInv /\ Written

LEMMA RingInvInit == RingInit => RingInv
  <1> SUFFICES ASSUME RingInit PROVE RingInv
    OBVIOUS
  <1>1. RingTypeOK
    <2>1. buf \in [Slots -> Snapshots \cup {ZeroSnapshot}]
      BY DEF RingInit
    <2>2. head \in Slots /\ count \in 0 .. WindowSize
      BY SizeAssumption DEF RingInit, Slots
    <2>3. full \in BOOLEAN
      BY DEF RingInit
    <2> QED BY <2>1, <2>2, <2>3 DEF RingTypeOK
  <1>2. IndexInv
    BY SizeAssumption DEF RingInit, IndexInv
  <1>3. Written
    BY DEF RingInit, Written, RingLen
  <1> QED BY <1>1, <1>2, <1>3 DEF RingInv

(* A push leaves the indices in range: the bounds checks of the slice
   accesses in window.go can never fail. *)
LEMMA PushTypeOK ==
    ASSUME RingInv, NEW snap \in Snapshots, RingPush(snap)
    PROVE  RingTypeOK' /\ IndexInv'
  <1> USE SizeAssumption
  <1>1. buf' \in [Slots -> Snapshots \cup {ZeroSnapshot}]
    BY DEF RingInv, RingTypeOK, RingPush
  <1>2. head' = IF head + 1 = WindowSize THEN 0 ELSE head + 1
    BY HeadAdvances DEF RingInv, RingTypeOK, RingPush
  <1>3. count' = IF count < WindowSize THEN count + 1 ELSE count
    BY DEF RingPush, CountUp
  <1>4. full' <=> full \/ count' >= WindowSize
    BY DEF RingPush
  <1>5. RingTypeOK'
    BY <1>1, <1>2, <1>3, RingPush(snap) DEF RingInv, RingTypeOK, RingPush, Slots
  <1>6. IndexInv'
    BY <1>2, <1>3, <1>4 DEF RingInv, RingTypeOK, IndexInv, Slots
  <1> QED BY <1>5, <1>6

(* What a push does to the copied sequence: it appends the snapshot, after
   dropping the oldest one if the window was full. *)
LEMMA PushAppends ==
    ASSUME RingInv, NEW snap \in Snapshots, RingPush(snap)
    PROVE  /\ RingLen' = IF full THEN WindowSize ELSE RingLen + 1
           /\ \A i \in 1 .. RingLen' :
                 buf'[SlotOf(i)'] = IF i = RingLen' THEN snap
                                    ELSE IF full THEN buf[SlotOf(i + 1)]
                                    ELSE buf[SlotOf(i)]
  <1> USE SizeAssumption
  <1> DEFINE next == IF head + 1 = WindowSize THEN 0 ELSE head + 1
  <1>1. head' = next
    BY HeadAdvances DEF RingInv, RingTypeOK, RingPush
  <1>2. count' = IF count < WindowSize THEN count + 1 ELSE count
    BY DEF RingPush, CountUp
  <1>3. full' <=> full \/ count' >= WindowSize
    BY DEF RingPush
  <1>4. /\ head \in 0 .. WindowSize - 1
        /\ count \in 0 .. WindowSize
        /\ full \in BOOLEAN
        /\ full <=> count = WindowSize
        /\ ~full => head = count
    BY DEF RingInv, RingTypeOK, IndexInv, Slots
  <1>5. \A k \in 0 .. WindowSize - 1 : buf'[k] = IF k = head THEN snap ELSE buf[k]
    BY DEF RingInv, RingTypeOK, RingPush, Slots
  <1>6. RingLen' = IF full THEN WindowSize ELSE RingLen + 1
    BY <1>2, <1>3, <1>4 DEF RingLen
  <1>7. ASSUME NEW i \in 1 .. RingLen'
        PROVE  buf'[SlotOf(i)'] = IF i = RingLen' THEN snap
                                  ELSE IF full THEN buf[SlotOf(i + 1)]
                                  ELSE buf[SlotOf(i)]
    <2>1. RingLen' \in 1 .. WindowSize /\ i \in 1 .. WindowSize
      <3>1. CASE full
        BY <3>1, <1>6
      <3>2. CASE ~full
        <4>1. RingLen' = count + 1
          BY <3>2, <1>6 DEF RingLen
        <4>2. count \in 0 .. WindowSize /\ count # WindowSize
          BY <3>2, <1>4
        <4> QED BY <4>1, <4>2
      <3> QED BY <3>1, <3>2
    <2>2. CASE full
      <3>1. full' /\ RingLen' = WindowSize
        BY <2>2, <1>3, <1>6
      <3>2. SlotOf(i)' = IF next + i - 1 < WindowSize THEN next + i - 1
                         ELSE next + i - 1 - WindowSize
        BY <3>1, <1>1 DEF SlotOf
      <3>3. CASE i = WindowSize
        <4>1. SlotOf(i)' = head
          BY <3>2, <3>3, <1>4
        <4> QED BY <4>1, <3>1, <3>3, <1>4, <1>5
      <3>4. CASE i # WindowSize
        <4>1. SlotOf(i)' = SlotOf(i + 1) /\ SlotOf(i)' \in 0 .. WindowSize - 1 /\ SlotOf(i)' # head
          BY <3>2, <3>4, <2>1, <2>2, <1>4 DEF SlotOf
        <4> QED BY <4>1, <3>1, <3>4, <2>2, <1>5
      <3> QED BY <3>3, <3>4
    <2>3. CASE ~full
      <3>1. RingLen' = count + 1 /\ count' = count + 1 /\ head = count /\ RingLen = count
        BY <2>3, <1>2, <1>4, <1>6 DEF RingLen
      <3>2. SlotOf(i)' = i - 1
        BY <3>1, <2>1, <2>3, <1>1, <1>3, <1>4 DEF SlotOf
      <3>3. i - 1 \in 0 .. WindowSize - 1
        BY <2>1
      <3> QED BY <3>1, <3>2, <3>3, <2>1, <2>3, <1>4, <1>5 DEF SlotOf
    <2> QED BY <2>2, <2>3, <1>4
  <1> QED BY <1>6, <1>7

(* The slots the copy reads after a push were all written by a push. *)
LEMMA PushWritten ==
    ASSUME RingInv, NEW snap \in Snapshots, RingPush(snap)
    PROVE  Written'
  <1>1. SUFFICES ASSUME NEW i \in 1 .. RingLen'
                 PROVE  buf'[SlotOf(i)'] \in Snapshots
    BY DEF Written
  <1>2. RingLen' = (IF full THEN WindowSize ELSE RingLen + 1) /\ RingLen \in Nat
    <2>1. RingLen' = IF full THEN WindowSize ELSE RingLen + 1
      BY PushAppends
    <2>2. count \in 0 .. WindowSize
      BY DEF RingInv, RingTypeOK
    <2>3. RingLen \in Nat
      BY <2>2, SizeAssumption DEF RingLen
    <2> QED BY <2>1, <2>3
  <1>3. buf'[SlotOf(i)'] = IF i = RingLen' THEN snap
                           ELSE IF full THEN buf[SlotOf(i + 1)]
                           ELSE buf[SlotOf(i)]
    BY PushAppends
  <1>4. CASE i = RingLen'
    BY <1>3, <1>4
  <1>5. CASE i # RingLen' /\ full
    <2>1. i + 1 \in 1 .. RingLen
      BY <1>2, <1>5, SizeAssumption DEF RingLen
    <2> QED BY <2>1, <1>3, <1>5 DEF RingInv, Written
  <1>6. CASE i # RingLen' /\ ~full
    <2>1. i \in 1 .. RingLen
      BY <1>2, <1>6
    <2> QED BY <2>1, <1>3, <1>6 DEF RingInv, Written
  <1> QED BY <1>4, <1>5, <1>6

LEMMA RingInvNext == RingInv /\ [RingNext]_ringVars => RingInv'
  <1> SUFFICES ASSUME RingInv, [RingNext]_ringVars PROVE RingInv'
    OBVIOUS
  <1>1. ASSUME NEW snap \in Snapshots, RingPush(snap) PROVE RingInv'
    BY <1>1, PushTypeOK, PushWritten DEF RingInv
  <1>2. CASE UNCHANGED ringVars
    BY <1>2 DEF RingInv, RingTypeOK, IndexInv, Written, RingLen, SlotOf, ringVars
  <1> QED BY <1>1, <1>2 DEF RingNext

(* What the theorem of the invariant gives its readers: the newest snapshot
   read through head - 1 is the last of the copy. *)
LEMMA NewestFromInv == RingInv => NewestAgrees
  <1> SUFFICES ASSUME RingInv PROVE NewestAgrees
    OBVIOUS
  <1> USE SizeAssumption
  <1>1. head \in Slots /\ count \in 0 .. WindowSize
    BY DEF RingInv, RingTypeOK
  <1>2. (full <=> count = WindowSize) /\ (~full => head = count)
    BY DEF RingInv, IndexInv
  <1>3. Retained \in Seq(Snapshots) /\ Len(Retained) = RingLen /\ RingLen \in Nat
    <2>1. RingLen \in Nat
      BY <1>1 DEF RingLen
    <2> QED BY <2>1 DEF Retained, RingInv, Written
  <1>4. RingHasLatest <=> RingLen # 0
    BY <1>1, <1>2 DEF RingHasLatest, RingLen
  <1>5. RingHasLatest <=> Retained # <<>>
    BY <1>3, <1>4
  <1>6. ASSUME RingHasLatest PROVE RingLatest = Retained[RingLen]
    <2>1. RingLen \in 1 .. RingLen
      BY <1>3, <1>4, <1>6
    <2>2. SlotOf(RingLen) = IF head = 0 THEN WindowSize - 1 ELSE head - 1
      <3>1. CASE full
        BY <3>1, <1>1 DEF SlotOf, RingLen, Slots
      <3>2. CASE ~full
        <4>1. RingLen = count /\ head = count /\ count # 0
          BY <3>2, <1>2, <1>4, <1>6 DEF RingLen
        <4> QED BY <4>1, <3>2, <1>1 DEF SlotOf
      <3> QED BY <3>1, <3>2
    <2> QED BY <2>1, <2>2, <1>1, SlotBeforeHead DEF RingLatest, Retained
  <1>7. \A i \in 1 .. RingLen : Retained[i] \in Snapshots
    BY DEF Retained, RingInv, Written
  <1> QED BY <1>5, <1>6, <1>7 DEF NewestAgrees

(* For every capacity the indices of the buffer are in range and agree, so
   the role and the averages the engine takes come from the same, really
   pushed snapshots (window.go, all readers). *)
THEOREM RingCorrect == RingSpec => [](RingTypeOK /\ IndexInv /\ NewestAgrees)
  <1>1. RingInv => RingTypeOK /\ IndexInv /\ NewestAgrees
    BY NewestFromInv DEF RingInv
  <1> QED BY <1>1, RingInvInit, RingInvNext, PTL DEF RingSpec

(* The initial buffer is the empty abstract window. *)
LEMMA RingInitMaps == RingInit => RW!WindowInit
  BY DEF RingInit, RW!WindowInit, Retained, RingLen

(* A push on the buffer is a push on the abstract window: it appends, and it
   drops the oldest snapshot when, and only when, the window is full. *)
LEMMA PushMaps ==
    ASSUME RingInv, NEW snap \in Snapshots, RingPush(snap)
    PROVE  RW!Push(snap)
  <1> DEFINE n == RingLen
             m == RingLen'
             after == [i \in 1 .. m |-> buf'[SlotOf(i)']]
  <1> USE SizeAssumption
  <1>1. Retained' = after
    BY DEF Retained
  <1>2. m = IF full THEN WindowSize ELSE n + 1
    BY PushAppends
  <1>3. ASSUME NEW i \in 1 .. m
        PROVE  buf'[SlotOf(i)'] = IF i = m THEN snap
                                  ELSE IF full THEN buf[SlotOf(i + 1)]
                                  ELSE buf[SlotOf(i)]
    BY PushAppends
  <1>4. n \in 0 .. WindowSize /\ (full => n = WindowSize) /\ (~full => n < WindowSize)
    <2>1. count \in 0 .. WindowSize /\ (full <=> count = WindowSize)
      BY DEF RingInv, RingTypeOK, IndexInv
    <2>2. CASE full
      BY <2>2 DEF RingLen
    <2>3. CASE ~full
      <3>1. n = count /\ count # WindowSize
        BY <2>1, <2>3 DEF RingLen
      <3>2. count \in 0 .. WindowSize
        BY <2>1
      <3> QED BY <3>1, <3>2, <2>3
    <2> QED BY <2>2, <2>3
  <1>5. Retained \in Seq(Snapshots) /\ Len(Retained) = n
    BY <1>4 DEF Retained, RingInv, Written
  <1>6. ASSUME NEW i \in 1 .. n PROVE Retained[i] = buf[SlotOf(i)]
    BY DEF Retained
  <1>7. CASE full
    <2>1. n = WindowSize /\ m = WindowSize
      BY <1>2, <1>4, <1>7
    <2> DEFINE t == Append(Tail(Retained), snap)
    <2>2. after = t
      <3>1. Tail(Retained) \in Seq(Snapshots) /\ Len(Tail(Retained)) = n - 1
        BY <1>5, <2>1
      <3>2. ASSUME NEW i \in 1 .. n - 1 PROVE Tail(Retained)[i] = buf[SlotOf(i + 1)]
        BY <1>5, <1>6, <2>1
      <3>3. ASSUME NEW i \in 1 .. n PROVE after[i] = t[i]
        <4>1. CASE i = n
          BY <4>1, <1>3, <1>7, <2>1, <3>1
        <4>2. CASE i # n
          BY <4>2, <1>3, <1>7, <2>1, <3>1, <3>2
        <4> QED BY <4>1, <4>2
      <3>4. t \in Seq(Snapshots) /\ Len(t) = n
        BY <3>1, <2>1
      <3> HIDE DEF t
      <3>5. t = [i \in 1 .. n |-> t[i]]
        BY <3>4
      <3> QED BY <3>5, <3>3, <2>1
    <2>3. ~(Len(Retained) < WindowSize)
      BY <1>5, <2>1
    <2> HIDE DEF after
    <2> QED BY <1>1, <2>2, <2>3 DEF RW!Push
  <1>8. CASE ~full
    <2>1. m = n + 1 /\ n < WindowSize
      BY <1>2, <1>4, <1>8
    <2> DEFINE t == Append(Retained, snap)
    <2>2. t \in Seq(Snapshots) /\ Len(t) = n + 1
      BY <1>5
    <2>3. ASSUME NEW i \in 1 .. m PROVE after[i] = t[i]
      <3>1. CASE i = m
        BY <3>1, <1>3, <1>5, <2>1
      <3>2. CASE i # m
        <4>1. i \in 1 .. n
          BY <3>2, <2>1, <1>4
        <4> QED BY <4>1, <3>2, <1>3, <1>5, <1>6, <1>8
      <3> QED BY <3>1, <3>2
    <2>4. after = t
      <3> HIDE DEF t
      <3>1. t = [i \in 1 .. n + 1 |-> t[i]]
        BY <2>2
      <3> QED BY <3>1, <2>3, <2>1
    <2> QED BY <1>1, <1>5, <2>1, <2>4 DEF RW!Push
  <1> QED BY <1>7, <1>8

(* The circular buffer implements the abstract window, for every capacity:
   overwriting at head and copying from head are, together, "append and drop
   the oldest" (window.go, Push and snapshots). *)
THEOREM RingRefinesRecentWindow == RingSpec => ImplementsRecentWindow
  <1>1. RingInv /\ [RingNext]_ringVars => [RW!WindowNext]_Retained
    <2> SUFFICES ASSUME RingInv, [RingNext]_ringVars
                 PROVE  [RW!WindowNext]_Retained
      OBVIOUS
    <2>1. ASSUME NEW snap \in Snapshots, RingPush(snap) PROVE RW!WindowNext
      BY <2>1, PushMaps DEF RW!WindowNext
    <2>2. CASE UNCHANGED ringVars
      BY <2>2 DEF ringVars, Retained, RingLen, SlotOf
    <2> QED BY <2>1, <2>2 DEF RingNext
  <1> QED
    BY <1>1, RingInitMaps, RingInvInit, RingInvNext, PTL
    DEF RingSpec, ImplementsRecentWindow, RW!WindowSpec

---------------------------------------------------------------------------
(* The collector. *)

(* The channels are closed only when the poll loop is gone. *)
ClosedInv == ~panicked /\ ((snapshotsOpen /\ errorsOpen) \/ poller.pc = "gone")

CollectorInv == CollectorTypeOK /\ ClosedInv /\ RingInv

(* The type invariant without the window's part. *)
LoopTypeOK ==
    /\ up \subseteq Sources /\ role \in NodeRoles /\ cancelled \in BOOLEAN
    /\ poller \in [pc : {"wait", "push", "gone"} \cup Sources, role : NodeRoles]
    /\ accepted \in 0 .. Modulus - 1
    /\ snapshotsOpen \in BOOLEAN /\ errorsOpen \in BOOLEAN /\ panicked \in BOOLEAN
    /\ Errors \in 0 .. ChannelSize
    /\ errDrainer \in {"receive", "gone"}
    /\ shutdown \in {"idle", "waiting", "returned"}

ChannelTypeOK ==
    /\ snapshotsCh \in Seq(Readings) /\ Len(snapshotsCh) <= ChannelSize
    /\ drainer \in [pc : {"receive", "push", "gone"}, held : Seq(Readings)]
    /\ drainer.pc = "push" => Len(drainer.held) = 1

LEMMA TypeParts == CollectorTypeOK <=> LoopTypeOK /\ ChannelTypeOK /\ RingTypeOK
BY DEF CollectorTypeOK, LoopTypeOK, ChannelTypeOK

LEMMA ModulusNat == Modulus \in Nat \ {0} /\ \A n \in 0 .. Modulus - 1 : Next1(n) \in 0 .. Modulus - 1
BY CollectorAssumption DEF Next1

LEMMA ReadingsAreSnapshots == Readings \subseteq Snapshots
BY CollectorAssumption

LEMMA LoopTypeStep ==
    ASSUME LoopTypeOK, [CollectorNext]_collectorVars
    PROVE  LoopTypeOK'
<1> USE CollectorAssumption, ModulusNat DEF LoopTypeOK, envVars, channelVars, drainVars
<1>1. CASE UNCHANGED collectorVars
  BY <1>1 DEF collectorVars
<1>2. CASE SourceChanges \/ RoleChanges \/ Cancel
  BY <1>2 DEF SourceChanges, RoleChanges, Cancel
<1>3. CASE Tick \/ LoopEnds \/ FetchPatroni \/ FetchPgStats \/ DropSnapshot
  <2>1. poller' \in [pc : {"wait", "push", "gone"} \cup Sources, role : NodeRoles]
    <3>1. CASE Tick
      BY <3>1 DEF Tick, Sources
    <3>2. CASE LoopEnds
      BY <3>2 DEF LoopEnds
    <3>3. CASE FetchPatroni
      BY <3>3 DEF FetchPatroni, Sources
    <3>4. CASE FetchPgStats
      BY <3>4 DEF FetchPgStats
    <3>5. CASE DropSnapshot
      BY <3>5 DEF DropSnapshot
    <3> QED BY <1>3, <3>1, <3>2, <3>3, <3>4, <3>5
  <2>2. UNCHANGED <<envVars, channelVars, drainVars, shutdown, panicked>>
    BY <1>3 DEF Tick, LoopEnds, FetchPatroni, FetchPgStats, DropSnapshot
  <2> QED BY <2>1, <2>2
<1>4. CASE FetchFails
  <2>1. Errors' \in 0 .. ChannelSize
    <3>1. Errors' \in {Errors, Errors + 1} /\ (Errors' = Errors + 1 => Errors < ChannelSize)
      BY <1>4 DEF FetchFails
    <3> QED BY <3>1
  <2>2. panicked' \in BOOLEAN
    BY <1>4, Zenon DEF FetchFails
  <2>3. poller' \in [pc : {"wait", "push", "gone"} \cup Sources, role : NodeRoles]
    BY <1>4 DEF FetchFails
  <2>4. UNCHANGED <<envVars, accepted, snapshotsOpen, errorsOpen, errDrainer, shutdown>>
    BY <1>4 DEF FetchFails
  <2> QED BY <2>1, <2>2, <2>3, <2>4
<1>5. CASE PushSnapshot
  <2>1. accepted' \in 0 .. Modulus - 1
    BY <1>5, ModulusNat DEF PushSnapshot
  <2>2. poller' \in [pc : {"wait", "push", "gone"} \cup Sources, role : NodeRoles]
    BY <1>5 DEF PushSnapshot
  <2>3. panicked' \in BOOLEAN
    BY <1>5 DEF PushSnapshot
  <2> QED BY <1>5, <2>1, <2>2, <2>3 DEF PushSnapshot
<1>6. CASE Receive \/ PushToWindow \/ DrainerEnds \/ LogError \/ ErrDrainerEnds
  BY <1>6 DEF Receive, PushToWindow, DrainerEnds, LogError, ErrDrainerEnds
<1>7. CASE BeginShutdown \/ CloseChannels
  BY <1>7 DEF BeginShutdown, CloseChannels
<1> QED BY <1>1, <1>2, <1>3, <1>4, <1>5, <1>6, <1>7 DEF CollectorNext, PollStep

LEMMA ChannelTypeStep ==
    ASSUME LoopTypeOK, ChannelTypeOK, [CollectorNext]_collectorVars
    PROVE  ChannelTypeOK'
<1> USE CollectorAssumption DEF ChannelTypeOK, envVars, channelVars, drainVars
<1>1. CASE UNCHANGED <<snapshotsCh, drainer>>
  BY <1>1
<1>2. CASE PushSnapshot
  <2>1. CASE UNCHANGED snapshotsCh
    BY <1>2, <2>1 DEF PushSnapshot
  <2>2. ASSUME NEW load \in Loads, Queue(Reading(poller.role, load, accepted))
        PROVE  ChannelTypeOK'
    <3>1. Reading(poller.role, load, accepted) \in Readings
      BY DEF LoopTypeOK, Readings
    <3>2. snapshotsCh' \in Seq(Readings) /\ Len(snapshotsCh') = Len(snapshotsCh) + 1
          /\ Len(snapshotsCh) < ChannelSize
      BY <2>2, <3>1 DEF Queue
    <3> QED BY <1>2, <3>2 DEF PushSnapshot
  <2> QED BY <1>2, <2>1, <2>2 DEF PushSnapshot
<1>3. CASE Receive
  BY <1>3 DEF Receive
<1>4. CASE PushToWindow
  BY <1>4 DEF PushToWindow
<1>5. CASE DrainerEnds
  BY <1>5 DEF DrainerEnds
<1>6. CASE \/ SourceChanges \/ RoleChanges \/ Cancel \/ Tick \/ LoopEnds
           \/ FetchPatroni \/ FetchPgStats \/ FetchFails \/ DropSnapshot
           \/ LogError \/ ErrDrainerEnds \/ BeginShutdown \/ CloseChannels
  <2>1. UNCHANGED <<snapshotsCh, drainer>>
    BY <1>6 DEF SourceChanges, RoleChanges, Cancel, Tick, LoopEnds, FetchPatroni, FetchPgStats,
         FetchFails, DropSnapshot, LogError, ErrDrainerEnds, BeginShutdown, CloseChannels
  <2> QED BY <2>1, <1>1
<1>7. CASE UNCHANGED collectorVars
  BY <1>1, <1>7 DEF collectorVars
<1> QED BY <1>2, <1>3, <1>4, <1>5, <1>6, <1>7 DEF CollectorNext, PollStep

(* Only the drainer touches the window, one push at a time. *)
LEMMA WindowSteps ==
    ASSUME ChannelTypeOK, [CollectorNext]_collectorVars
    PROVE  [RingNext]_ringVars
<1>1. CASE PushToWindow
  <2>1. Head(drainer.held) \in Snapshots
    BY <1>1, ReadingsAreSnapshots DEF PushToWindow, ChannelTypeOK
  <2> QED BY <1>1, <2>1 DEF PushToWindow, RingNext
<1>2. CASE \/ SourceChanges \/ RoleChanges \/ Cancel \/ Tick \/ LoopEnds
           \/ FetchPatroni \/ FetchPgStats \/ FetchFails \/ PushSnapshot \/ DropSnapshot
           \/ Receive \/ DrainerEnds
           \/ LogError \/ ErrDrainerEnds \/ BeginShutdown \/ CloseChannels
  BY <1>2 DEF SourceChanges, RoleChanges, Cancel, Tick, LoopEnds, FetchPatroni, FetchPgStats,
     FetchFails, PushSnapshot, DropSnapshot, Receive, DrainerEnds, LogError, ErrDrainerEnds,
     BeginShutdown, CloseChannels, drainVars
<1>3. CASE UNCHANGED collectorVars
  BY <1>3 DEF collectorVars, drainVars
<1> QED BY <1>1, <1>2, <1>3 DEF CollectorNext, PollStep

LEMMA ClosedStep ==
    ASSUME LoopTypeOK, ClosedInv, [CollectorNext]_collectorVars
    PROVE  ClosedInv'
<1> USE DEF ClosedInv, LoopTypeOK, envVars, channelVars, drainVars
<1>1. CASE UNCHANGED collectorVars
  BY <1>1 DEF collectorVars
<1>2. CASE SourceChanges \/ RoleChanges \/ Cancel
  BY <1>2 DEF SourceChanges, RoleChanges, Cancel
<1>3. CASE Tick \/ LoopEnds \/ FetchPatroni \/ FetchPgStats \/ DropSnapshot
  BY <1>3 DEF Tick, LoopEnds, FetchPatroni, FetchPgStats, DropSnapshot, Sources
<1>4. CASE FetchFails \/ PushSnapshot
  BY <1>4 DEF FetchFails, PushSnapshot, Sources
<1>5. CASE Receive \/ PushToWindow \/ DrainerEnds \/ LogError \/ ErrDrainerEnds
  BY <1>5 DEF Receive, PushToWindow, DrainerEnds, LogError, ErrDrainerEnds
<1>6. CASE BeginShutdown \/ CloseChannels
  BY <1>6 DEF BeginShutdown, CloseChannels
<1> QED BY <1>1, <1>2, <1>3, <1>4, <1>5, <1>6 DEF CollectorNext, PollStep

LEMMA CollectorInvInit == CollectorInit => CollectorInv
<1> SUFFICES ASSUME CollectorInit PROVE CollectorInv
  OBVIOUS
<1>1. RingInv
  BY RingInvInit DEF CollectorInit
<1>2. LoopTypeOK /\ ClosedInv
  <2>1. poller \in [pc : {"wait", "push", "gone"} \cup Sources, role : NodeRoles]
    BY DEF CollectorInit, Sources
  <2>2. accepted \in 0 .. Modulus - 1 /\ Errors \in 0 .. ChannelSize
    BY CollectorAssumption, ModulusNat DEF CollectorInit
  <2> QED BY <2>1, <2>2 DEF CollectorInit, LoopTypeOK, ClosedInv
<1>3. ChannelTypeOK
  BY CollectorAssumption DEF CollectorInit, ChannelTypeOK
<1> QED BY <1>1, <1>2, <1>3, TypeParts DEF CollectorInv, RingInv

LEMMA CollectorInvStep == CollectorInv /\ [CollectorNext]_collectorVars => CollectorInv'
<1> SUFFICES ASSUME CollectorInv, [CollectorNext]_collectorVars PROVE CollectorInv'
  OBVIOUS
<1>1. LoopTypeOK /\ ChannelTypeOK /\ ClosedInv /\ RingInv
  BY TypeParts DEF CollectorInv
<1>2. LoopTypeOK' /\ ChannelTypeOK' /\ ClosedInv'
  BY <1>1, LoopTypeStep, ChannelTypeStep, ClosedStep
<1>3. RingInv'
  BY <1>1, WindowSteps, RingInvNext
<1>4. RingTypeOK'
  BY <1>3 DEF RingInv
<1> QED BY <1>2, <1>3, <1>4 DEF CollectorInv, CollectorTypeOK, LoopTypeOK, ChannelTypeOK

---------------------------------------------------------------------------
(* Type correctness of the collector: no channel is ever over its capacity,
   and the window's indices stay on its slice. *)
THEOREM CollectorTypeCorrect == CollectorSpec => []CollectorTypeOK
<1>1. CollectorInv => CollectorTypeOK
  BY DEF CollectorInv
<1> QED BY <1>1, CollectorInvInit, CollectorInvStep, PTL DEF CollectorSpec

(* The poll loop never sends on a channel Shutdown has closed. *)
THEOREM NeverSendsOnClosed == CollectorSpec => []NoSendOnClosed
<1>1. CollectorInv => NoSendOnClosed
  BY DEF CollectorInv, ClosedInv, NoSendOnClosed
<1> QED BY <1>1, CollectorInvInit, CollectorInvStep, PTL DEF CollectorSpec

(* Whatever the collector does to it, the slot the engine takes the role from
   is the newest snapshot of the window. *)
THEOREM CollectorKeepsNewest == CollectorSpec => []NewestAgrees
<1>1. CollectorInv => NewestAgrees
  BY NewestFromInv DEF CollectorInv
<1> QED BY <1>1, CollectorInvInit, CollectorInvStep, PTL DEF CollectorSpec

(* With the drainer as its only writer the circular buffer implements the
   abstract window. *)
THEOREM CollectorKeepsWindow == CollectorSpec => ImplementsRecentWindow
<1>1. CollectorInit => RW!WindowInit
  BY RingInitMaps DEF CollectorInit
<1>2. CollectorInv /\ [CollectorNext]_collectorVars => [RW!WindowNext]_Retained
  <2> SUFFICES ASSUME CollectorInv, [CollectorNext]_collectorVars
               PROVE  [RW!WindowNext]_Retained
    OBVIOUS
  <2>1. RingInv /\ [RingNext]_ringVars
    BY WindowSteps, TypeParts DEF CollectorInv
  <2>2. ASSUME NEW snap \in Snapshots, RingPush(snap) PROVE RW!WindowNext
    BY <2>1, <2>2, PushMaps DEF RW!WindowNext
  <2>3. CASE UNCHANGED ringVars
    BY <2>3 DEF ringVars, Retained, RingLen, SlotOf
  <2> QED BY <2>1, <2>2, <2>3 DEF RingNext
<1> QED BY <1>1, <1>2, CollectorInvInit, CollectorInvStep, PTL
        DEF CollectorSpec, ImplementsRecentWindow, RW!WindowSpec

---------------------------------------------------------------------------
(* The order of the snapshots, from the channel to the window. *)

(* What is on its way to the engine, or has arrived: oldest first. *)
InFlight == (Retained \o drainer.held) \o snapshotsCh

(* Snapshots with numbers that follow each other, up to the one before n. *)
Numbered(s, n) ==
    /\ \A i \in 1 .. Len(s) - 1 : s[i + 1].number = Next1(s[i].number)
    /\ s # <<>> => Next1(s[Len(s)].number) = n

OrderInv == (drainer.pc # "push" => drainer.held = <<>>) /\ Numbered(InFlight, accepted)

(* The drain goroutine ends when the channel is closed and empty, and then
   there is nobody left to fill it. *)
DrainedInv ==
    drainer.pc = "gone" => /\ drainer.held = <<>> /\ snapshotsCh = <<>>
                           /\ ~snapshotsOpen /\ poller.pc = "gone"

LEMMA AppendNumbered ==
    ASSUME NEW s \in Seq(Snapshots), NEW e \in Snapshots, Numbered(s, e.number)
    PROVE  Numbered(Append(s, e), Next1(e.number))
<1> DEFINE t == Append(s, e)
<1>1. /\ t \in Seq(Snapshots) /\ Len(t) = Len(s) + 1 /\ Len(s) \in Nat
      /\ t[Len(s) + 1] = e /\ \A i \in 1 .. Len(s) : t[i] = s[i]
  BY AppendProperties
<1> HIDE DEF t
<1>2. ASSUME NEW i \in 1 .. Len(t) - 1 PROVE t[i + 1].number = Next1(t[i].number)
  <2>1. CASE i = Len(s)
    <3>1. s # <<>> /\ t[i] = s[Len(s)]
      BY <1>1, <1>2, <2>1
    <3> QED BY <1>1, <2>1, <3>1 DEF Numbered
  <2>2. CASE i # Len(s)
    <3>1. i \in 1 .. Len(s) - 1 /\ i \in 1 .. Len(s) /\ i + 1 \in 1 .. Len(s)
      BY <1>1, <1>2, <2>2
    <3> QED BY <1>1, <3>1 DEF Numbered
  <2> QED BY <2>1, <2>2
<1>3. Next1(t[Len(t)].number) = Next1(e.number)
  BY <1>1
<1> QED BY <1>2, <1>3 DEF Numbered, t

LEMMA TailNumbered ==
    ASSUME NEW s \in Seq(Snapshots), s # <<>>, NEW n, Numbered(s, n)
    PROVE  Numbered(Tail(s), n)
<1> DEFINE t == Tail(s)
<1>1. /\ t \in Seq(Snapshots) /\ Len(t) = Len(s) - 1 /\ Len(s) \in Nat \ {0}
      /\ \A i \in 1 .. Len(t) : t[i] = s[i + 1]
  BY HeadTailProperties
<1> HIDE DEF t
<1>2. ASSUME NEW i \in 1 .. Len(t) - 1 PROVE t[i + 1].number = Next1(t[i].number)
  <2>1. i \in 1 .. Len(t) /\ i + 1 \in 1 .. Len(t) /\ i + 1 \in 1 .. Len(s) - 1
    BY <1>1, <1>2
  <2> QED BY <1>1, <2>1 DEF Numbered
<1>3. ASSUME t # <<>> PROVE Next1(t[Len(t)].number) = n
  <2>1. Len(t) \in 1 .. Len(t) /\ Len(t) + 1 = Len(s)
    BY <1>1, <1>3
  <2> QED BY <1>1, <2>1 DEF Numbered
<1> QED BY <1>2, <1>3 DEF Numbered, t

LEMMA RetainedSequence == RingInv => Retained \in Seq(Snapshots)
<1> SUFFICES ASSUME RingInv PROVE Retained \in Seq(Snapshots)
  OBVIOUS
<1>1. RingLen \in Nat
  BY SizeAssumption DEF RingInv, RingTypeOK, RingLen
<1> QED BY <1>1 DEF Retained, RingInv, Written

LEMMA InFlightSequence ==
    ASSUME CollectorInv
    PROVE  /\ Retained \in Seq(Snapshots) /\ drainer.held \in Seq(Snapshots)
           /\ snapshotsCh \in Seq(Snapshots)
           /\ Retained \o drainer.held \in Seq(Snapshots) /\ InFlight \in Seq(Snapshots)
<1>1. Retained \in Seq(Snapshots)
  BY RetainedSequence DEF CollectorInv
<1>2. drainer.held \in Seq(Snapshots) /\ snapshotsCh \in Seq(Snapshots)
  <2>1. ASSUME NEW s \in Seq(Readings) PROVE s \in Seq(Snapshots)
    BY <2>1, ReadingsAreSnapshots
  <2>2. drainer.held \in Seq(Readings) /\ snapshotsCh \in Seq(Readings)
    BY DEF CollectorInv, CollectorTypeOK
  <2> QED BY <2>1, <2>2
<1> QED BY <1>1, <1>2, ConcatProperties DEF InFlight

(* What the channel takes comes last. *)
LEMMA PushOrdered ==
    ASSUME CollectorInv, OrderInv, PushSnapshot
    PROVE  OrderInv'
<1> DEFINE ahead == Retained \o drainer.held
<1>0. PICK load \in Loads : Queue(Reading(poller.role, load, accepted))
  BY DEF PushSnapshot, CollectorInv, ClosedInv
<1> DEFINE snap == Reading(poller.role, load, accepted)
<1>1. UNCHANGED <<Retained, drainer>> /\ accepted' = Next1(accepted)
      /\ snapshotsCh' = Append(snapshotsCh, snap)
  <2>1. UNCHANGED <<buf, head, count, full, drainer>>
    BY DEF PushSnapshot, drainVars, ringVars
  <2> QED BY <1>0, <2>1 DEF PushSnapshot, Queue, Retained, RingLen, SlotOf
<1>2. snap \in Snapshots /\ snap.number = accepted
  <2>1. snap \in Readings
    BY <1>0 DEF CollectorInv, CollectorTypeOK, Readings
  <2> QED BY <2>1, ReadingsAreSnapshots DEF Reading
<1> HIDE DEF snap
<1>3. ahead \o Append(snapshotsCh, snap) = Append(ahead \o snapshotsCh, snap)
  <2>1. ahead \in Seq(Snapshots) /\ snapshotsCh \in Seq(Snapshots) /\ <<snap>> \in Seq(Snapshots)
        /\ ahead \o snapshotsCh \in Seq(Snapshots)
    BY <1>2, InFlightSequence DEF InFlight
  <2> HIDE DEF ahead
  <2>2. (ahead \o snapshotsCh) \o <<snap>> = ahead \o (snapshotsCh \o <<snap>>)
    BY <2>1, ConcatAssociative
  <2> QED BY <1>2, <2>1, <2>2, AppendIsConcat
<1>4. InFlight' = Append(InFlight, snap)
  BY <1>1, <1>3 DEF InFlight
<1> QED BY <1>1, <1>2, <1>4, InFlightSequence, AppendNumbered DEF OrderInv

(* The drainer takes the oldest snapshot of the channel. *)
LEMMA ReceiveOrdered ==
    ASSUME CollectorInv, OrderInv, Receive
    PROVE  OrderInv'
<1> DEFINE first == Head(snapshotsCh)
           rest == Tail(snapshotsCh)
<1>1. /\ UNCHANGED <<Retained, accepted>> /\ snapshotsCh # <<>> /\ drainer.held = <<>>
      /\ drainer'.pc = "push" /\ drainer'.held = <<first>> /\ snapshotsCh' = rest
  BY DEF Receive, OrderInv, ringVars, Retained, RingLen, SlotOf
<1>2. first \in Snapshots /\ rest \in Seq(Snapshots) /\ snapshotsCh = <<first>> \o rest
  <2>1. snapshotsCh \in Seq(Snapshots)
    BY InFlightSequence
  <2>2. first \in Snapshots /\ rest \in Seq(Snapshots)
    BY <1>1, <2>1, HeadTailProperties
  <2>3. <<first>> \in Seq(Snapshots) /\ Len(<<first>>) = 1
    BY <2>2
  <2>4. snapshotsCh = <<first>> \o rest
    BY <1>1, <2>1
  <2> QED BY <2>2, <2>4
<1> HIDE DEF first, rest
<1>3. <<first>> \in Seq(Snapshots) /\ Retained \in Seq(Snapshots)
  BY <1>2, InFlightSequence
<1>4. (Retained \o <<first>>) \o rest = (Retained \o <<>>) \o snapshotsCh
  BY <1>2, <1>3, ConcatAssociative, ConcatEmptySeq
<1>5. InFlight' = InFlight
  BY <1>1, <1>4 DEF InFlight
<1> QED BY <1>1, <1>5 DEF OrderInv

(* The window takes the snapshot the drainer holds behind all it has, and
   gives up at most its oldest one. *)
LEMMA WindowOrdered ==
    ASSUME CollectorInv, OrderInv, PushToWindow
    PROVE  OrderInv'
<1> DEFINE e == Head(drainer.held)
<1>1. /\ drainer.held = <<e>> /\ e \in Snapshots /\ RingPush(e)
      /\ drainer' = [pc |-> "receive", held |-> <<>>] /\ UNCHANGED <<snapshotsCh, accepted>>
  <2>1. drainer.held \in Seq(Snapshots) /\ Len(drainer.held) = 1
    BY InFlightSequence DEF PushToWindow, CollectorInv, CollectorTypeOK
  <2>2. e \in Snapshots /\ drainer.held = <<e>>
    BY <2>1
  <2> QED BY <2>2 DEF PushToWindow, channelVars
<1> HIDE DEF e
<1>2. Retained \in Seq(Snapshots) /\ snapshotsCh \in Seq(Snapshots)
      /\ Append(Retained, e) \in Seq(Snapshots) /\ Append(Retained, e) # <<>>
      /\ Retained \o <<e>> = Append(Retained, e)
  BY <1>1, InFlightSequence, AppendProperties, AppendIsConcat
<1>3. Retained' = Append(Retained, e) \/ Retained' = Tail(Append(Retained, e))
  <2>1. Retained' = IF Len(Retained) < WindowSize THEN Append(Retained, e) ELSE Append(Tail(Retained), e)
    BY <1>1, PushMaps DEF CollectorInv, RW!Push
  <2>2. ~(Len(Retained) < WindowSize) => Retained # <<>>
    BY <1>2, SizeAssumption
  <2> QED BY <1>2, <2>1, <2>2, HeadTailAppend
<1>4. InFlight = Append(Retained, e) \o snapshotsCh /\ InFlight \in Seq(Snapshots) /\ InFlight # <<>>
  BY <1>1, <1>2, ConcatEqualIffEmpty, InFlightSequence DEF InFlight
<1>5. InFlight' = Retained' \o snapshotsCh
  <2>1. Retained' \in Seq(Snapshots)
    BY <1>2, <1>3, HeadTailProperties
  <2> QED BY <1>1, <2>1, ConcatEmptySeq DEF InFlight
<1>6. Tail(Append(Retained, e)) \o snapshotsCh = Tail(Append(Retained, e) \o snapshotsCh)
  <2> DEFINE a == Append(Retained, e)
             lhs == Tail(a) \o snapshotsCh
             rhs == Tail(a \o snapshotsCh)
  <2>1. a \in Seq(Snapshots) /\ a # <<>> /\ snapshotsCh \in Seq(Snapshots)
    BY <1>2
  <2> HIDE DEF a
  <2>2. /\ Tail(a) \in Seq(Snapshots) /\ Len(Tail(a)) = Len(a) - 1 /\ Len(a) \in Nat \ {0}
        /\ \A i \in 1 .. Len(Tail(a)) : Tail(a)[i] = a[i + 1]
    BY <2>1, HeadTailProperties
  <2>3. /\ a \o snapshotsCh \in Seq(Snapshots) /\ Len(a \o snapshotsCh) = Len(a) + Len(snapshotsCh)
        /\ \A i \in 1 .. Len(a) + Len(snapshotsCh) :
              (a \o snapshotsCh)[i] = IF i <= Len(a) THEN a[i] ELSE snapshotsCh[i - Len(a)]
        /\ Len(snapshotsCh) \in Nat
    BY <2>1, ConcatProperties
  <2>4. a \o snapshotsCh # <<>>
    BY <2>2, <2>3
  <2>5. /\ rhs \in Seq(Snapshots) /\ Len(rhs) = Len(a) + Len(snapshotsCh) - 1
        /\ \A i \in 1 .. Len(rhs) : rhs[i] = (a \o snapshotsCh)[i + 1]
    BY <2>3, <2>4, HeadTailProperties
  <2>6. /\ lhs \in Seq(Snapshots) /\ Len(lhs) = Len(a) - 1 + Len(snapshotsCh)
        /\ \A i \in 1 .. Len(a) - 1 + Len(snapshotsCh) :
              lhs[i] = IF i <= Len(a) - 1 THEN Tail(a)[i] ELSE snapshotsCh[i - (Len(a) - 1)]
    BY <2>1, <2>2, ConcatProperties
  <2> HIDE DEF lhs, rhs
  <2>7. ASSUME NEW i \in 1 .. Len(lhs) PROVE lhs[i] = rhs[i]
    <3>1. i \in 1 .. Len(a) - 1 + Len(snapshotsCh) /\ i \in 1 .. Len(rhs)
          /\ i + 1 \in 1 .. Len(a) + Len(snapshotsCh)
      BY <2>2, <2>3, <2>5, <2>6
    <3>2. CASE i <= Len(a) - 1
      BY <2>2, <2>3, <2>5, <2>6, <3>1, <3>2
    <3>3. CASE ~(i <= Len(a) - 1)
      <4>1. ~(i + 1 <= Len(a)) /\ i + 1 - Len(a) = i - (Len(a) - 1)
        BY <2>2, <3>1, <3>3
      <4> QED BY <2>3, <2>5, <2>6, <3>1, <3>3, <4>1
    <3> QED BY <3>2, <3>3
  <2>8. lhs = rhs
    BY <2>2, <2>3, <2>5, <2>6, <2>7, SeqEqual
  <2> QED BY <2>8 DEF lhs, rhs, a
<1>7. InFlight' = InFlight \/ InFlight' = Tail(InFlight)
  BY <1>3, <1>4, <1>5, <1>6
<1>8. Numbered(InFlight, accepted)'
  BY <1>1, <1>4, <1>7, TailNumbered DEF OrderInv
<1> QED BY <1>1, <1>8 DEF OrderInv

LEMMA OrderStep ==
    ASSUME CollectorInv, OrderInv, [CollectorNext]_collectorVars
    PROVE  OrderInv'
<1>1. ASSUME UNCHANGED <<accepted, snapshotsCh, ringVars>>, drainer'.held = drainer.held,
             drainer.pc = "push" => drainer'.pc = "push"
      PROVE  OrderInv'
  <2>1. Retained' = Retained /\ InFlight' = InFlight
    BY <1>1 DEF ringVars, Retained, RingLen, SlotOf, InFlight
  <2>2. Numbered(InFlight, accepted)'
    BY <1>1, <2>1 DEF OrderInv
  <2> QED BY <1>1, <2>2 DEF OrderInv
<1>2. CASE DrainerEnds
  BY <1>1, <1>2 DEF DrainerEnds, channelVars, OrderInv, CollectorInv, CollectorTypeOK
<1>3. CASE \/ SourceChanges \/ RoleChanges \/ Cancel \/ Tick \/ LoopEnds
           \/ FetchPatroni \/ FetchPgStats \/ FetchFails \/ DropSnapshot
           \/ LogError \/ ErrDrainerEnds \/ BeginShutdown \/ CloseChannels \/ UNCHANGED collectorVars
  <2>1. UNCHANGED <<accepted, snapshotsCh, ringVars, drainer>>
    BY <1>3 DEF SourceChanges, RoleChanges, Cancel, Tick, LoopEnds, FetchPatroni, FetchPgStats,
       FetchFails, DropSnapshot, LogError, ErrDrainerEnds, BeginShutdown, CloseChannels,
       collectorVars, channelVars, drainVars
  <2> QED BY <1>1, <2>1 DEF OrderInv
<1> QED BY <1>2, <1>3, PushOrdered, ReceiveOrdered, WindowOrdered DEF CollectorNext, PollStep

LEMMA OrderInit == CollectorInit => OrderInv
<1> SUFFICES ASSUME CollectorInit PROVE OrderInv
  OBVIOUS
<1>1. Retained = <<>> /\ drainer.held = <<>> /\ snapshotsCh = <<>> /\ drainer.pc = "receive"
  BY DEF CollectorInit, RingInit, Retained, RingLen
<1>2. InFlight = <<>>
  BY <1>1 DEF InFlight
<1> QED BY <1>1, <1>2 DEF OrderInv, Numbered

LEMMA DrainedStep ==
    ASSUME CollectorInv, OrderInv, DrainedInv, [CollectorNext]_collectorVars
    PROVE  DrainedInv'
<1>1. CASE DrainerEnds
  <2>1. drainer.held = <<>> /\ snapshotsCh = <<>> /\ ~snapshotsOpen /\ poller.pc = "gone"
    BY <1>1 DEF DrainerEnds, OrderInv, CollectorInv, ClosedInv
  <2>2. drainer'.held = drainer.held
    BY <1>1 DEF DrainerEnds, CollectorInv, CollectorTypeOK
  <2> QED BY <1>1, <2>1, <2>2 DEF DrainerEnds, channelVars, DrainedInv
<1>2. CASE Receive
  BY <1>2 DEF Receive, DrainedInv
<1>3. CASE PushToWindow
  BY <1>3 DEF PushToWindow, DrainedInv
<1>4. CASE Tick \/ LoopEnds \/ PollStep
  <2>1. poller.pc # "gone" /\ UNCHANGED drainer
    BY <1>4, CollectorAssumption DEF Tick, LoopEnds, PollStep, FetchPatroni, FetchPgStats,
       FetchFails, PushSnapshot, DropSnapshot, Sources, drainVars
  <2> QED BY <2>1 DEF DrainedInv
<1>5. CASE \/ SourceChanges \/ RoleChanges \/ Cancel \/ LogError \/ ErrDrainerEnds
           \/ BeginShutdown \/ CloseChannels \/ UNCHANGED collectorVars
  <2>1. UNCHANGED <<drainer, snapshotsCh, poller>> /\ (snapshotsOpen' => snapshotsOpen)
    BY <1>5 DEF SourceChanges, RoleChanges, Cancel, LogError, ErrDrainerEnds, BeginShutdown,
       CloseChannels, collectorVars, channelVars, drainVars
  <2> QED BY <2>1 DEF DrainedInv
<1> QED BY <1>1, <1>2, <1>3, <1>4, <1>5 DEF CollectorNext

LEMMA InOrderFromInv ==
    ASSUME CollectorInv, OrderInv, DrainedInv
    PROVE  InOrder
<1>1. drainer.pc = "gone" => InFlight = Retained
  BY InFlightSequence, ConcatEmptySeq DEF InFlight, DrainedInv
<1> QED BY <1>1 DEF InOrder, OrderInv, DrainedInv, Numbered, InFlight, Last

(* Whatever fails, is dropped or is full, and for any size of the channel and
   of the window, the snapshots the engine reads were taken one after the
   other, with nothing missing between them and nothing twice; and the drain
   goroutine, when it ends, has handed over every one of them. *)
THEOREM SnapshotsInOrder == CollectorSpec => []InOrder
<1>1. CollectorInv /\ OrderInv /\ [CollectorNext]_collectorVars => OrderInv'
  BY OrderStep
<1>2. CollectorInv /\ OrderInv /\ DrainedInv /\ [CollectorNext]_collectorVars => DrainedInv'
  BY DrainedStep
<1>3. CollectorInit => DrainedInv
  BY DEF CollectorInit, DrainedInv
<1>4. CollectorInv /\ OrderInv /\ DrainedInv => InOrder
  BY InOrderFromInv
<1> QED BY <1>1, <1>2, <1>3, <1>4, OrderInit, CollectorInvInit, CollectorInvStep, PTL
        DEF CollectorSpec
=============================================================================
