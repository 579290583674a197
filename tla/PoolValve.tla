----------------------------- MODULE PoolValve -----------------------------
(***************************************************************************)
(* What the decision engine promises to the clients of PgBouncer: the pool *)
(* is a valve that is either open or halted.  While it is halted its size  *)
(* is 0 and stays 0; it opens again only to a size a halted pool may be    *)
(* restored to; and while it is open it moves by at most one step at a     *)
(* time, never below the floor, never above what the server accepts.  A     *)
(* valve that went astray keeps only the last of these promises.           *)
(***************************************************************************)
EXTENDS Integers

CONSTANTS Floor, Step, MaxConnections

VARIABLES mode,   \* "open", "halted" or "astray"
          size    \* the pool size clients get

valve == <<mode, size>>
Sizes == Floor .. MaxConnections

ValveInit == mode = "open" /\ size \in Sizes

HaltPool   == mode = "open" /\ mode' = "halted" /\ size' = 0
ReopenPool == mode = "halted" /\ mode' = "open" /\ size' \in Sizes
ResizePool == /\ mode = "open" /\ UNCHANGED mode
              /\ size' \in Sizes /\ size' - size \in -Step .. Step
GoAstray   == mode' = "astray" /\ size' \in Sizes \cup {0}

ValveNext == HaltPool \/ ReopenPool \/ ResizePool \/ GoAstray
ValveSpec == ValveInit /\ [][ValveNext]_valve
=============================================================================
