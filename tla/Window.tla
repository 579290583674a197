------------------------------ MODULE Window ------------------------------
(***************************************************************************)
(* The rolling window of internal/signals/window.go as it is written: a    *)
(* circular buffer with a write position, a count and a full flag.         *)
(* Retained is what snapshots() copies out of it; the module shows that it *)
(* is the RecentWindow the decision engine is entitled to read.            *)
(***************************************************************************)
EXTENDS Integers, Sequences

CONSTANTS WindowSize, Snapshots

ASSUME SizeAssumption == WindowSize \in Nat \ {0}
ASSUME RingSnapshotsAssumption ==
    \A snap \in Snapshots : snap.role \in STRING /\ snap.active \in Nat /\ snap.max \in Nat

VARIABLES buf,    \* the backing slice, indexed from 0
          head,   \* next write position
          count,  \* snapshots written, saturating at WindowSize
          full    \* count has reached the size

ringVars == <<buf, head, count, full>>

(* The zero LoadSnapshot a fresh slice is made of; the readers never
   deliver one that was not pushed. *)
ZeroSnapshot == [role |-> "", active |-> 0, max |-> 0]
Slots == 0 .. WindowSize - 1

RingInit ==
    /\ buf = [i \in Slots |-> ZeroSnapshot]
    /\ head = 0
    /\ count = 0
    /\ full = FALSE

(* The code's count grows without bound but is compared with size only:
   past size nothing tells its values apart. *)
CountUp(c) == IF c < WindowSize THEN c + 1 ELSE c

\* Variant: the write position stays where it is once the slice is full.
RingPushStuckWhenFull(snap) ==
    /\ buf' = [buf EXCEPT ![head] = snap]
    /\ head' = IF full THEN head ELSE (head + 1) % WindowSize
    /\ count' = CountUp(count)
    /\ full' = (full \/ count' >= WindowSize)

RingPush(snap) ==
    /\ buf' = [buf EXCEPT ![head] = snap]
    /\ head' = (head + 1) % WindowSize
    /\ count' = CountUp(count)
    /\ full' = (full \/ count' >= WindowSize)

RingNext == \E snap \in Snapshots : RingPush(snap)
RingSpec == RingInit /\ [][RingNext]_ringVars

---------------------------------------------------------------------------
RingLen == IF full THEN WindowSize ELSE count

(* The slot of the i-th oldest snapshot: when full the copy runs from head
   to the end of the slice and then from its start up to head. *)
SlotOf(i) ==
    IF ~full THEN i - 1
    ELSE IF head + i - 1 < WindowSize THEN head + i - 1
    ELSE head + i - 1 - WindowSize

Retained == [i \in 1 .. RingLen |-> buf[SlotOf(i)]]

(* CurrentRole and Latest do not copy: they read the slot before head. *)
RingHasLatest == full \/ count > 0
\* Variant: the slot at the write position.
RingLatestAtHead == buf[head]
RingLatest    == buf[(head - 1 + WindowSize) % WindowSize]

---------------------------------------------------------------------------
RingTypeOK ==
    /\ buf \in [Slots -> Snapshots \cup {ZeroSnapshot}]
    /\ head \in Slots
    /\ count \in 0 .. WindowSize
    /\ full \in BOOLEAN

(* Head, count and full describe one position: the buffer is full exactly
   when WindowSize pushes were counted, and until then head is the count. *)
IndexInv ==
    /\ full <=> count = WindowSize
    /\ ~full => head = count

(* The role the engine acts on (head - 1) is the newest element of the copy
   the averages are taken from (tail, then head), and a slot nobody wrote is
   never delivered: the two index computations of window.go agree. *)
NewestAgrees ==
    /\ RingHasLatest <=> Retained # <<>>
    /\ RingHasLatest => RingLatest = Retained[RingLen]
    /\ \A i \in 1 .. RingLen : Retained[i] \in Snapshots

(* The circular buffer is a RecentWindow: every Push drops the oldest
   snapshot, and only when the window was full. *)
RW == INSTANCE RecentWindow WITH win <- Retained
ImplementsRecentWindow == RW!WindowSpec
=============================================================================
