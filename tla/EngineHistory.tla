--------------------------- MODULE EngineHistory ---------------------------
(***************************************************************************)
(* Engine with a history variable that the code does not have: how many    *)
(* consecutive ticks were evaluated above, and below, the load thresholds. *)
(* A tick that finds the node not primary, and a new process, end a run.   *)
(***************************************************************************)
EXTENDS Engine

VARIABLE run     \* [high, low]: consecutive ticks, saturating

historyVars == <<engineVars, run>>

NoRun == [high |-> 0, low |-> 0]
RunCap == IF UpTicks > DownTicks THEN UpTicks ELSE DownTicks   \* longer runs are not told apart
Extend(n) == IF n < RunCap THEN n + 1 ELSE n

HistoryInit == EngineInit /\ run = NoRun

HistoryNext ==
    /\ EngineNext
    /\ run' = IF pc = "evaluate" /\ pc' = "save"
                THEN [high |-> IF tick.zone = "high" THEN Extend(run.high) ELSE 0,
                      low  |-> IF tick.zone = "low"  THEN Extend(run.low)  ELSE 0]
              ELSE IF pc' = "down" \/ (pc = "decide" /\ Halting(tick.role)) THEN NoRun
              ELSE run

HistorySpec == HistoryInit /\ [][HistoryNext]_historyVars

(* engine.go:24-27: a pool is made smaller only on the last of DownTicks
   consecutive ticks above the threshold, and larger only on the last of
   UpTicks consecutive ticks below half load, as long as no command failed. *)
NoCommandFailed == faults.kinds \cap {"refused", "lost"} = {}
ResizesAfterRun ==
    [][pc = "evaluate" /\ pc' = "save" /\ NoCommandFailed
         => /\ st'.size < st.size => run'.high >= DownTicks
            /\ st'.size > st.size => run'.low >= UpTicks]_historyVars
=============================================================================
