--------------------------- MODULE PatroniProofs ---------------------------
(***************************************************************************)
(* Proofs that the manager never loses a Patroni that is alive, and that   *)
(* somebody notices when it ends, for any number of commands, processes    *)
(* and faults.                                                             *)
(***************************************************************************)
EXTENDS Patroni, TLAPS

(* Who has reaped a process knows that it is gone; nothing is known of a
   process before it is started; Stop has a process in its hands, and only
   one Stop at a time has. *)
ReapedInv ==
    /\ \A g \in Gens : reaper[g] \in {"watch", "lock", "gone"} => proc[g] = "reaped"
    /\ \A g \in Gens : waiter[g] \in {"watch", "sent"} => proc[g] = "reaped"
FreshInv == \A g \in Gens : g > starts => proc[g] = "none"
StopInv ==
    /\ \A c \in Commands : pc[c] = "stopping" => cmd \in Gens
    /\ \A c, d \in Commands : pc[c] = "stopping" /\ pc[d] = "stopping" => c = d

SupInv == PatroniTypeOK /\ ReapedInv /\ FreshInv /\ StopInv /\ Supervised

LEMMA GensNat ==
    /\ Gens \subseteq Nat \ {0} /\ 0 \notin Gens /\ 1 \in Gens
    /\ \A g \in 0 .. MaxStarts : g = 0 \/ g \in Gens
    /\ \A g \in Gens : g \in 0 .. MaxStarts
    /\ 0 \in 0 .. MaxStarts
<1>1. MaxStarts \in Nat /\ MaxStarts >= 1
  BY PatroniAssumption
<1> QED BY <1>1 DEF Gens

LEMMA PatroniTypeInit == PatroniInit => PatroniTypeOK
<1> SUFFICES ASSUME PatroniInit PROVE PatroniTypeOK
  OBVIOUS
<1> USE GensNat DEF PatroniInit
<1>1. cmd \in 0 .. MaxStarts /\ starts \in Gens /\ watch \subseteq Gens
  OBVIOUS
<1>2. /\ proc \in [Gens -> {"none", "alive", "ended", "reaped"}]
      /\ reaper \in [Gens -> {"none", "wait", "watch", "lock", "gone"}]
      /\ waiter \in [Gens -> {"none", "begin", "wait", "watch", "sent"}]
  OBVIOUS
<1>3. /\ pc \in [Commands -> {"idle"}]
      /\ seen \in [Commands -> {"?", "replica", "master"}]
  OBVIOUS
<1> QED BY <1>1, <1>2, <1>3 DEF PatroniTypeOK

(* The type invariant is inductive. *)
LEMMA PatroniTypeStep ==
    ASSUME PatroniTypeOK, [PatroniNext]_patroniVars
    PROVE  PatroniTypeOK'
<1> USE GensNat DEF PatroniTypeOK
<1>1. CASE UNCHANGED patroniVars
  BY <1>1 DEF patroniVars, procVars, waitVars, worldVars, handlerVars
<1>2. CASE World
  <2>1. CASE FailsOver \/ Hang \/ AnswersAgain
    BY <2>1 DEF FailsOver, Hang, AnswersAgain, procVars, waitVars, handlerVars
  <2>2. ASSUME NEW g \in Gens, Ends(g)
        PROVE  PatroniTypeOK'
    BY <2>2 DEF Ends, waitVars, handlerVars
  <2> QED BY <1>2, <2>1, <2>2 DEF World, Crash, ObeyTerm
<1>3. ASSUME NEW g \in Gens, ReaperStep(g) \/ WaiterStep(g)
      PROVE  PatroniTypeOK'
  <2>1. CASE ReaperWaits(g)
    BY <2>1 DEF ReaperWaits, worldVars, handlerVars
  <2>2. CASE ReaperHears(g)
    BY <2>2 DEF ReaperHears, procVars, worldVars, handlerVars
  <2>3. CASE ReaperForgets(g)
    BY <2>3 DEF ReaperForgets, worldVars, handlerVars
  <2>4. CASE WaiterBegins(g)
    BY <2>4 DEF WaiterBegins, procVars, worldVars, handlerVars
  <2>5. CASE WaiterWaits(g)
    BY <2>5 DEF WaiterWaits, worldVars, handlerVars
  <2>6. CASE WaiterHears(g)
    BY <2>6 DEF WaiterHears, procVars, worldVars, handlerVars
  <2> QED BY <1>3, <2>1, <2>2, <2>3, <2>4, <2>5, <2>6 DEF ReaperStep, WaiterStep
<1>4. ASSUME NEW c \in Commands, Handle(c) \/ StopStep(c)
      PROVE  PatroniTypeOK'
  <2>1. CASE Handle(c)
    <3>1. \E p \in Asking \cup {"stop", "store"} : pc' = [pc EXCEPT ![c] = p]
      <4>1. CASE c \in Restarts
        BY <2>1, <4>1, PatroniAssumption DEF Handle, Go
      <4>2. CASE c \in Reconciles
        BY <2>1, <4>2, PatroniAssumption DEF Handle, Go
      <4>3. CASE c \in Promotes
        BY <2>1, <4>3, PatroniAssumption DEF Handle, Go, Asking
      <4> QED BY <4>1, <4>2, <4>3 DEF Commands
    <3> QED BY <2>1, <3>1 DEF Handle, procVars, waitVars, worldVars
  <2>2. CASE StopBegins(c)
    <3>1. /\ waiter' \in [Gens -> {"none", "begin", "wait", "watch", "sent"}]
          /\ \E p \in {"boot", "stopping", "record"} : pc' = [pc EXCEPT ![c] = p]
      <4>1. CASE cmd = 0
        BY <2>2, <4>1 DEF StopBegins, Go
      <4>2. CASE cmd \in Gens /\ Signalable(cmd)
        BY <2>2, <4>2 DEF StopBegins, Go
      <4>3. CASE cmd # 0 /\ ~Signalable(cmd)
        BY <2>2, <4>3 DEF StopBegins, Go
      <4> QED BY <4>1, <4>2, <4>3
    <3> QED BY <2>2, <3>1 DEF StopBegins, procVars, worldVars
  <2>3. CASE StopEnds(c)
    BY <2>3 DEF StopEnds, Go, waitVars, worldVars
  <2>4. CASE StopTimesOut(c)
    BY <2>4 DEF StopTimesOut, Killed, Go, waitVars
  <2> QED BY <1>4, <2>1, <2>2, <2>3, <2>4 DEF StopStep
<1>5. ASSUME NEW c \in Commands, AgentStep(c) \/ WebStep(c)
      PROVE  PatroniTypeOK'
  <2>1. CASE AgentStep(c)
    BY <2>1 DEF AgentStep, StoreDesiredState, RecordResult, Go, Asking,
         procVars, waitVars, worldVars
  <2>2. CASE Ask(c)
    BY <2>2 DEF Ask, After, Go, Asking, procVars, waitVars, worldVars
  <2>3. CASE Post(c)
    BY <2>3 DEF Post, Go, procVars, waitVars
  <2> QED BY <1>5, <2>1, <2>2, <2>3 DEF WebStep
<1>6. ASSUME NEW c \in Commands, OtherStep(c) \/ Checks(c)
      PROVE  PatroniTypeOK'
  <2>1. CASE Boot(c)
    <3>1. /\ cmd' \in 0 .. MaxStarts /\ starts' \in Gens /\ watch' \subseteq Gens
          /\ proc' \in [Gens -> {"none", "alive", "ended", "reaped"}]
          /\ reaper' \in [Gens -> {"none", "wait", "watch", "lock", "gone"}]
          /\ waiter' = waiter
      <4>1. CASE NewProcess
        BY <4>1 DEF NewProcess
      <4>2. CASE cmd' = 0 /\ UNCHANGED <<starts, proc, waitVars>>
        BY <4>2 DEF waitVars
      <4>3. CASE UNCHANGED <<procVars, waitVars>>
        BY <4>3 DEF procVars, waitVars
      <4> QED BY <2>1, <4>1, <4>2, <4>3 DEF Boot
    <3> QED BY <2>1, <3>1 DEF Boot, Go, worldVars
  <2>2. CASE Cache(c)
    BY <2>2 DEF Cache, After, Go, Asking, procVars, waitVars, worldVars
  <2>3. CASE Checks(c) \/ UpdatePatroniConfig(c)
    BY <2>3 DEF Checks, UpdatePatroniConfig, Go, Asking, procVars, waitVars, worldVars
  <2> QED BY <1>6, <2>1, <2>2, <2>3 DEF OtherStep
<1>7. CASE CheckBegins \/ CheckStep \/ CheckEnds
  BY <1>7 DEF CheckBegins, CheckStep, CheckAsks, CheckCaches, CheckEnds,
       procVars, waitVars, worldVars, handlerVars
<1> QED BY <1>1, <1>2, <1>3, <1>4, <1>5, <1>6, <1>7 DEF PatroniNext

LEMMA SupInvInit == PatroniInit => SupInv
<1> SUFFICES ASSUME PatroniInit PROVE SupInv
  OBVIOUS
<1>1. PatroniTypeOK
  BY PatroniTypeInit
<1>2. ReapedInv /\ FreshInv /\ StopInv /\ Supervised
  BY GensNat DEF PatroniInit, ReapedInv, FreshInv, StopInv, Supervised
<1> QED BY <1>1, <1>2 DEF SupInv

(* What nobody but the actions on processes and handles can disturb. *)
LEMMA HandlerOnly ==
    ASSUME SupInv, UNCHANGED <<procVars, waitVars>>,
           \A c \in Commands : pc'[c] = "stopping" => pc[c] = "stopping"
    PROVE  ReapedInv' /\ FreshInv' /\ StopInv' /\ Supervised'
BY DEF SupInv, ReapedInv, FreshInv, StopInv, Supervised, procVars, waitVars

LEMMA SupInvStep ==
    ASSUME SupInv, [PatroniNext]_patroniVars
    PROVE  SupInv'
<1>1. PatroniTypeOK /\ PatroniTypeOK'
  BY PatroniTypeStep DEF SupInv
<1> USE <1>1, GensNat DEF PatroniTypeOK
<1> SUFFICES ReapedInv' /\ FreshInv' /\ StopInv' /\ Supervised'
  BY <1>1 DEF SupInv
<1>2. CASE UNCHANGED patroniVars
  BY <1>2, HandlerOnly DEF patroniVars, handlerVars
<1>3. CASE World
  <2>1. CASE FailsOver \/ Hang \/ AnswersAgain
    BY <2>1, HandlerOnly DEF FailsOver, Hang, AnswersAgain, handlerVars
  <2>2. ASSUME NEW g \in Gens, Ends(g)
        PROVE  ReapedInv' /\ FreshInv' /\ StopInv' /\ Supervised'
    BY <2>2 DEF Ends, SupInv, ReapedInv, FreshInv, StopInv, Supervised, waitVars, handlerVars
  <2> QED BY <1>3, <2>1, <2>2 DEF World, Crash, ObeyTerm
<1>4. ASSUME NEW g \in Gens, ReaperStep(g)
      PROVE  ReapedInv' /\ FreshInv' /\ StopInv' /\ Supervised'
  <2>1. CASE ReaperWaits(g)
    BY <2>1 DEF ReaperWaits, Reapable, SupInv, ReapedInv, FreshInv, StopInv, Supervised, handlerVars
  <2>2. CASE ReaperHears(g)
    BY <2>2 DEF ReaperHears, SupInv, ReapedInv, FreshInv, StopInv, Supervised, procVars, handlerVars
  <2>3. CASE ReaperForgets(g)
    BY <2>3 DEF ReaperForgets, PatroniMuFree, SupInv, ReapedInv, FreshInv, StopInv, Supervised,
         handlerVars
  <2> QED BY <1>4, <2>1, <2>2, <2>3 DEF ReaperStep
<1>5. ASSUME NEW g \in Gens, WaiterStep(g)
      PROVE  ReapedInv' /\ FreshInv' /\ StopInv' /\ Supervised'
  <2>1. CASE WaiterBegins(g)
    BY <2>1 DEF WaiterBegins, SupInv, ReapedInv, FreshInv, StopInv, Supervised, procVars, handlerVars
  <2>2. CASE WaiterWaits(g)
    BY <2>2 DEF WaiterWaits, Reapable, SupInv, ReapedInv, FreshInv, StopInv, Supervised, handlerVars
  <2>3. CASE WaiterHears(g)
    BY <2>3 DEF WaiterHears, SupInv, ReapedInv, FreshInv, StopInv, Supervised, procVars, handlerVars
  <2> QED BY <1>5, <2>1, <2>2, <2>3 DEF WaiterStep
<1>6. ASSUME NEW c \in Commands, StopStep(c)
      PROVE  ReapedInv' /\ FreshInv' /\ StopInv' /\ Supervised'
  <2>1. CASE StopBegins(c)
    BY <2>1 DEF StopBegins, Signalable, Go, PatroniMuFree, SupInv, ReapedInv, FreshInv, StopInv,
         Supervised, procVars
  <2>2. CASE StopEnds(c)
    BY <2>2 DEF StopEnds, Go, SupInv, ReapedInv, FreshInv, StopInv, Supervised, waitVars
  <2>3. CASE StopTimesOut(c)
    BY <2>3 DEF StopTimesOut, Killed, Go, SupInv, ReapedInv, FreshInv, StopInv, Supervised, waitVars
  <2> QED BY <1>6, <2>1, <2>2, <2>3 DEF StopStep
<1>7. ASSUME NEW c \in Commands, Boot(c)
      PROVE  ReapedInv' /\ FreshInv' /\ StopInv' /\ Supervised'
  <2> USE <1>7
  <2>1. CASE Running
    BY <2>1, HandlerOnly DEF Boot, Go
  <2>2. CASE ~Running
    <3>1. \A g \in Gens : proc[g] # "alive"
      BY <2>2 DEF Running, Signalable, SupInv, Supervised
    <3>2. CASE NewProcess
      BY <3>1, <3>2 DEF Boot, Go, NewProcess, PatroniMuFree, SupInv, ReapedInv, FreshInv, StopInv,
           Supervised
    <3>3. CASE cmd' = 0 /\ UNCHANGED <<starts, proc, waitVars>>
      BY <3>1, <3>3 DEF Boot, Go, PatroniMuFree, SupInv, ReapedInv, FreshInv, StopInv,
           Supervised, waitVars
    <3> QED BY <2>2, <3>2, <3>3 DEF Boot
  <2> QED BY <2>1, <2>2
<1>8. ASSUME NEW c \in Commands,
             Handle(c) \/ AgentStep(c) \/ WebStep(c) \/ Cache(c) \/ Checks(c) \/ UpdatePatroniConfig(c)
      PROVE  ReapedInv' /\ FreshInv' /\ StopInv' /\ Supervised'
  <2>1. UNCHANGED <<procVars, waitVars>>
    BY <1>8 DEF Handle, AgentStep, StoreDesiredState, RecordResult, WebStep, Ask, Post, Cache,
         Checks, UpdatePatroniConfig
  <2>2. \A d \in Commands : pc'[d] = "stopping" => pc[d] = "stopping"
    <3>1. CASE Handle(c) \/ AgentStep(c) \/ Post(c) \/ Checks(c) \/ UpdatePatroniConfig(c)
      BY <3>1 DEF Handle, AgentStep, StoreDesiredState, RecordResult, Post, Checks,
           UpdatePatroniConfig, Go, Commands
    <3>2. CASE Ask(c) \/ Cache(c)
      BY <3>2 DEF Ask, Cache, After, Go, Asking
    <3> QED BY <1>8, <3>1, <3>2 DEF WebStep
  <2> QED BY <2>1, <2>2, HandlerOnly
<1>9. CASE CheckBegins \/ CheckStep \/ CheckEnds
  BY <1>9, HandlerOnly DEF CheckBegins, CheckStep, CheckAsks, CheckCaches, CheckEnds, handlerVars
<1> QED BY <1>2, <1>3, <1>4, <1>5, <1>6, <1>7, <1>8, <1>9 DEF PatroniNext, OtherStep

(* Type correctness of the Patroni manager. *)
THEOREM PatroniTypeCorrect == PatroniSpec => []PatroniTypeOK
BY PatroniTypeInit, PatroniTypeStep, PTL DEF PatroniSpec

(* There is never a Patroni alive that the manager does not hold: no restart,
   reconcile, crash, slow stop or late reaper leaves a second one behind. *)
THEOREM NeverTwoPatronis == PatroniSpec => []Supervised
<1>1. SupInv => Supervised
  BY DEF SupInv
<1> QED BY <1>1, SupInvInit, SupInvStep, PTL DEF PatroniSpec

---------------------------------------------------------------------------
(* What GoneIsNoticed and CommandsEnd rest on: nobody waits for something
   that will not come.  A process that is held and has ended has its reaper on
   the way to the handle, or a Stop that will drop it; and a Stop has a
   goroutine that goes on, or has answered, or hears nothing any more and has
   the timer. *)
SomebodyNotices ==
    /\ \A g \in Gens : cmd = g /\ proc[g] # "alive" =>
         \/ reaper[g] = "wait" /\ Reapable(g)
         \/ reaper[g] = "watch" /\ g \in watch
         \/ reaper[g] = "lock"
         \/ \E c \in Commands : pc[c] = "stopping"
    /\ \A c \in Commands : pc[c] = "stopping" =>
         \/ waiter[cmd] = "begin" /\ (proc[cmd] = "reaped" \/ reaper[cmd] # "lock")
         \/ waiter[cmd] = "wait" /\ (proc[cmd] = "alive" \/ Reapable(cmd))
         \/ waiter[cmd] = "watch" /\ (cmd \in watch \/ Expires(cmd))
         \/ waiter[cmd] = "sent"

(* The report of the context watcher is there until somebody hears it, and
   nobody but the reaper hears it before Stop sends a waiter; that Stop is the
   last one this process has.  A process that was not started has no
   goroutines yet. *)
HeldInv ==
    \A g \in Gens : cmd = g =>
        /\ proc[g] # "none" /\ reaper[g] \in {"wait", "watch", "lock"}
        /\ reaper[g] # "lock" => g \in watch \/ waiter[g] # "none"
        /\ waiter[g] # "none" => \E c \in Commands : pc[c] = "stopping"
HeardInv == \A c \in Commands : pc[c] = "stopping" => waiter[cmd] # "none"
UnstartedInv ==
    /\ cmd <= starts
    /\ \A g \in Gens : g > starts => reaper[g] = "none" /\ waiter[g] = "none"

NoticeInv == HeldInv /\ HeardInv /\ UnstartedInv

LEMMA NoticeInit == PatroniInit => NoticeInv
BY GensNat DEF PatroniInit, NoticeInv, HeldInv, HeardInv, UnstartedInv

LEMMA NoticeMeans == SupInv /\ NoticeInv => SomebodyNotices
<1> SUFFICES ASSUME SupInv, NoticeInv PROVE SomebodyNotices
  OBVIOUS
<1> USE DEF NoticeInv, HeldInv, HeardInv, SupInv, PatroniTypeOK, ReapedInv, StopInv
<1>1. ASSUME NEW g \in Gens, cmd = g, proc[g] # "alive",
             ~ \E c \in Commands : pc[c] = "stopping"
      PROVE  \/ reaper[g] = "wait" /\ Reapable(g)
             \/ reaper[g] = "watch" /\ g \in watch
             \/ reaper[g] = "lock"
  BY <1>1 DEF Reapable
<1>2. ASSUME NEW c \in Commands, pc[c] = "stopping"
      PROVE  \/ waiter[cmd] = "begin" /\ (proc[cmd] = "reaped" \/ reaper[cmd] # "lock")
             \/ waiter[cmd] = "wait" /\ (proc[cmd] = "alive" \/ Reapable(cmd))
             \/ waiter[cmd] = "watch" /\ (cmd \in watch \/ Expires(cmd))
             \/ waiter[cmd] = "sent"
  <2>1. cmd \in Gens /\ proc[cmd] # "none" /\ waiter[cmd] # "none"
    BY <1>2
  <2>2. waiter[cmd] \in {"begin", "wait", "watch", "sent"}
    BY <2>1
  <2>3. reaper[cmd] = "lock" => proc[cmd] = "reaped"
    BY <2>1
  <2> QED BY <2>1, <2>2, <2>3 DEF Reapable, Expires
<1> QED BY <1>1, <1>2 DEF SomebodyNotices

(* What leaves the goroutines and the handle alone. *)
LEMMA NoticeOnly ==
    ASSUME NoticeInv, UNCHANGED <<procVars, waitVars>>,
           \A c \in Commands : pc'[c] = "stopping" <=> pc[c] = "stopping"
    PROVE  NoticeInv'
BY DEF NoticeInv, HeldInv, HeardInv, UnstartedInv, procVars, waitVars

LEMMA NoticeStep ==
    ASSUME SupInv, SupInv', NoticeInv, [PatroniNext]_patroniVars
    PROVE  NoticeInv'
<1> USE GensNat DEF SupInv, PatroniTypeOK
<1>2. CASE UNCHANGED patroniVars
  BY <1>2, NoticeOnly DEF patroniVars, handlerVars
<1>3. CASE World
  <2>1. CASE FailsOver \/ Hang \/ AnswersAgain
    BY <2>1, NoticeOnly DEF FailsOver, Hang, AnswersAgain, handlerVars
  <2>2. ASSUME NEW g \in Gens, Ends(g)
        PROVE  NoticeInv'
    BY <2>2 DEF Ends, NoticeInv, HeldInv, HeardInv, UnstartedInv, waitVars, handlerVars
  <2> QED BY <1>3, <2>1, <2>2 DEF World, Crash, ObeyTerm
<1>4. ASSUME NEW g \in Gens, ReaperStep(g)
      PROVE  NoticeInv'
  <2> USE DEF NoticeInv, HeldInv, HeardInv, UnstartedInv
  <2>1. CASE ReaperWaits(g)
    BY <2>1 DEF ReaperWaits, Reapable, ReapedInv, FreshInv, worldVars, handlerVars
  <2>2. CASE ReaperHears(g)
    BY <2>2 DEF ReaperHears, ReapedInv, FreshInv, procVars, worldVars, handlerVars
  <2>3. CASE ReaperForgets(g)
    BY <2>3 DEF ReaperForgets, PatroniMuFree, handlerVars
  <2> QED BY <1>4, <2>1, <2>2, <2>3 DEF ReaperStep
<1>5. ASSUME NEW g \in Gens, WaiterStep(g)
      PROVE  NoticeInv'
  <2> USE DEF NoticeInv, HeldInv, HeardInv, UnstartedInv
  <2>1. CASE WaiterBegins(g)
    <3>1. \A h \in Gens : waiter'[h] # "none" <=> waiter[h] # "none"
      BY <2>1 DEF WaiterBegins
    <3>2. UNCHANGED <<procVars, watch, reaper, pc>>
      BY <2>1 DEF WaiterBegins, handlerVars
    <3>3. HeldInv'
      BY <3>1, <3>2 DEF procVars
    <3>4. HeardInv'
      BY <3>1, <3>2 DEF procVars, StopInv
    <3>5. UnstartedInv'
      BY <3>1, <3>2 DEF procVars
    <3> QED BY <3>3, <3>4, <3>5
  <2>2. CASE WaiterWaits(g)
    BY <2>2 DEF WaiterWaits, Reapable, handlerVars
  <2>3. CASE WaiterHears(g)
    BY <2>3 DEF WaiterHears, procVars, handlerVars
  <2> QED BY <1>5, <2>1, <2>2, <2>3 DEF WaiterStep
<1>6. ASSUME NEW c \in Commands, StopStep(c)
      PROVE  NoticeInv'
  <2> USE DEF NoticeInv, HeldInv, HeardInv, UnstartedInv
  <2>1. CASE StopBegins(c)
    BY <2>1 DEF StopBegins, Signalable, Go, PatroniMuFree, StopInv, FreshInv, procVars
  <2>2. CASE StopEnds(c)
    BY <2>2 DEF StopEnds, Go, StopInv, waitVars
  <2>3. CASE StopTimesOut(c)
    BY <2>3 DEF StopTimesOut, Go, StopInv, waitVars
  <2> QED BY <1>6, <2>1, <2>2, <2>3 DEF StopStep
<1>7. ASSUME NEW c \in Commands, Boot(c)
      PROVE  NoticeInv'
  <2> USE <1>7
  <2>0. /\ \A d \in Commands : pc[d] # "stopping" /\ pc'[d] # "stopping"
    BY DEF Boot, Go, PatroniMuFree
  <2>1. CASE UNCHANGED <<procVars, waitVars>>
    BY <2>0, <2>1, NoticeOnly
  <2>2. CASE NewProcess
    BY <2>0, <2>2 DEF NewProcess, NoticeInv, HeldInv, HeardInv, UnstartedInv
  <2>3. CASE cmd' = 0 /\ UNCHANGED <<starts, proc, waitVars>>
    BY <2>0, <2>3 DEF NoticeInv, HeldInv, HeardInv, UnstartedInv, waitVars
  <2> QED BY <2>1, <2>2, <2>3 DEF Boot
<1>8. ASSUME NEW c \in Commands,
             Handle(c) \/ AgentStep(c) \/ WebStep(c) \/ Cache(c) \/ Checks(c) \/ UpdatePatroniConfig(c)
      PROVE  NoticeInv'
  <2>1. UNCHANGED <<procVars, waitVars>>
    BY <1>8 DEF Handle, AgentStep, StoreDesiredState, RecordResult, WebStep, Ask, Post, Cache,
         Checks, UpdatePatroniConfig
  <2>2. \A d \in Commands : pc'[d] = "stopping" <=> pc[d] = "stopping"
    <3>1. CASE Handle(c) \/ AgentStep(c) \/ Post(c) \/ Checks(c) \/ UpdatePatroniConfig(c)
      BY <3>1 DEF Handle, AgentStep, StoreDesiredState, RecordResult, Post, Checks,
           UpdatePatroniConfig, Go, Commands
    <3>2. CASE Ask(c) \/ Cache(c)
      BY <3>2 DEF Ask, Cache, After, Go, Asking
    <3> QED BY <1>8, <3>1, <3>2 DEF WebStep
  <2> QED BY <2>1, <2>2, NoticeOnly
<1>9. CASE CheckBegins \/ CheckStep \/ CheckEnds
  BY <1>9, NoticeOnly DEF CheckBegins, CheckStep, CheckAsks, CheckCaches, CheckEnds, handlerVars
<1> QED BY <1>2, <1>3, <1>4, <1>5, <1>6, <1>7, <1>8, <1>9 DEF PatroniNext, OtherStep

(* However the two waits for one process, the watcher that reports once and
   the timer of Stop interleave, no end of Patroni goes unnoticed and no Stop
   is left waiting for a report that somebody else has heard. *)
THEOREM EndIsNoticed == PatroniSpec => []SomebodyNotices
BY SupInvInit, SupInvStep, NoticeInit, NoticeStep, NoticeMeans, PTL DEF PatroniSpec
=============================================================================
