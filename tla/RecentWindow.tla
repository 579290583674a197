--------------------------- MODULE RecentWindow ---------------------------
(***************************************************************************)
(* What internal/signals/window.go promises its readers: the window is the *)
(* sequence of the snapshots pushed last, oldest first, at most WindowSize *)
(* of them.  Window.tla shows that the circular buffer implements it, and  *)
(* Engine.tla reads its load signals from it.  Every method holds the      *)
(* window's lock from beginning to end, so each is one atomic step.        *)
(***************************************************************************)
EXTENDS Integers, Sequences, SequencesExt

CONSTANTS WindowSize,   \* snapshots retained (DefaultWindowSize = 30)
          Snapshots     \* LoadSnapshots the collector can deliver

(* NewWindow replaces a size that is not positive by the default one. *)
ASSUME WindowSizeAssumption == WindowSize \in Nat \ {0}

(* The fields the readers use: MaxConns is what SHOW max_connections
   answers, ActiveConns a count, Role whatever Patroni reports. *)
ASSUME SnapshotsAssumption ==
    \A snap \in Snapshots : snap.role \in STRING /\ snap.active \in Nat /\ snap.max \in Nat

(* The roles a reader can meet: those reported, and the empty one. *)
Roles == {"", "primary"} \cup {snap.role : snap \in Snapshots}

VARIABLE win            \* the snapshots in the window, oldest first

WindowInit == win = <<>>

Push(snap) ==
    win' = IF Len(win) < WindowSize
             THEN Append(win, snap)
             ELSE Append(Tail(win), snap)

WindowNext == \E snap \in Snapshots : Push(snap)
WindowSpec == WindowInit /\ [][WindowNext]_win

---------------------------------------------------------------------------
(* The readers.  A window that holds nothing answers role "", and Latest
   answers ok = FALSE: here HasLatest. *)
HasLatest   == win # <<>>
Latest      == win[Len(win)]
CurrentRole == IF HasLatest THEN Latest.role ELSE ""

(* AvgActiveConns is SumActive(w) / Len(w); it is kept as the pair so that
   thresholds compare integers. *)
SumActive(w) == FoldSeq(LAMBDA snap, sum : snap.active + sum, 0, w)

WindowTypeOK == win \in Seq(Snapshots) /\ Len(win) <= WindowSize
=============================================================================
