---------------------------- MODULE AgentProofs -----------------------------
(***************************************************************************)
(* Proofs about what main sets up itself: the backup configuration, for    *)
(* any number of handlers, fields and settings, and the life of the agent  *)
(* from one process to the next.                                           *)
(***************************************************************************)
EXTENDS Manifest, Lifecycle, TLAPS

PCs == {"idle", "guard", "copy", "update", "generate", "writing", "up"}

LEMMA MergeType ==
    ASSUME NEW new \in Partial, NEW old \in Settled
    PROVE  Merge(new, old) \in Settled
BY DEF Partial, Settled, Merge

LEMMA PartialFacts ==
    /\ Nothing \in Partial
    /\ Settled \subseteq Partial
    /\ Nothing \notin Settled
    /\ Defaults \in Settled
BY ManifestAssumption DEF Partial, Settled, Nothing, Defaults

LEMMA ManifestTypeInit == ManifestInit => ManifestTypeOK
BY PartialFacts DEF ManifestInit, ManifestTypeOK, Writers

LEMMA CopyType ==
    ASSUME ManifestTypeOK, NEW h \in Handlers, NEW f \in Fields
    PROVE  [g \in DOMAIN copy[h] \cup {f} |-> IF g = f THEN Config[f] ELSE copy[h][g]] \in Partial
<1>1. copy[h] \in Partial /\ Config \in Settled
  BY DEF ManifestTypeOK
<1>2. PICK F \in SUBSET Fields : copy[h] \in [F -> Settings]
  BY <1>1 DEF Partial
<1>3. F \cup {f} \in SUBSET Fields
  BY <1>2
<1>4. [g \in F \cup {f} |-> IF g = f THEN Config[f] ELSE copy[h][g]] \in [F \cup {f} -> Settings]
  BY <1>1, <1>2 DEF Settled
<1> QED BY <1>2, <1>3, <1>4 DEF Partial

(* The type invariant is inductive. *)
LEMMA ManifestTypeStep ==
    ASSUME ManifestTypeOK, [ManifestNext]_manifestVars
    PROVE  ManifestTypeOK'
<1> USE PartialFacts DEF ManifestTypeOK
<1>1. CASE UNCHANGED manifestVars
  BY <1>1 DEF manifestVars, bmVars
<1>2. ASSUME NEW h \in Handlers, Receive(h)
      PROVE  ManifestTypeOK'
  BY <1>2 DEF Receive, Go, bmVars, Writers
<1>3. ASSUME NEW h \in Handlers, Defer(h) \/ Pass(h) \/ InSync(h)
      PROVE  ManifestTypeOK'
  BY <1>3 DEF Defer, Pass, InSync, Go, Forget, bmVars, Writers
<1>4. ASSUME NEW h \in Handlers, CopyField(h)
      PROVE  ManifestTypeOK'
  BY <1>4, CopyType DEF CopyField, bmVars
<1>5. ASSUME NEW h \in Handlers, Differs(h)
      PROVE  ManifestTypeOK'
  <2>1. copy[h] \in Settled
    BY <1>5 DEF Differs, Copied, Partial, Settled
  <2>2. Merge(manifest[h], copy[h]) \in Settled
    BY <2>1, MergeType
  <2> QED BY <1>5, <2>2 DEF Differs, Go, bmVars, Writers
<1>6. ASSUME NEW h \in Handlers, Update(h)
      PROVE  ManifestTypeOK'
  BY <1>6 DEF Update, Go, Writers
<1>7. ASSUME NEW w \in Writers, Truncate(w)
      PROVE  ManifestTypeOK'
  BY <1>7 DEF Truncate, Go, Writers
<1>8. ASSUME NEW w \in Writers, CannotOpen(w) \/ Write(w) \/ CannotWrite(w)
      PROVE  ManifestTypeOK'
  <2>1. CASE w = Main
    BY <1>8, <2>1, ManifestAssumption DEF CannotOpen, Write, CannotWrite, Done, Afterwards, Go, Writers
  <2>2. CASE w # Main
    <3>1. w \in Handlers
      BY <2>2 DEF Writers
    <3>2. /\ Config' = Config /\ file' \in {file, Config} /\ failed' \in BOOLEAN
          /\ Done(w)
      BY <1>8 DEF CannotOpen, Write, CannotWrite
    <3>3. pc' = [pc EXCEPT ![w] = Afterwards(w)] /\ Afterwards(w) \in {"up", "idle"}
      BY <3>2 DEF Done, Go, Afterwards
    <3>4. w # Main => Forget(w)
      BY <2>2, <3>2 DEF Done
    <3>5. /\ manifest' \in [Handlers -> Partial] /\ copy' \in [Handlers -> Partial]
          /\ \A h \in Handlers : h # w => copy'[h] = copy[h]
          /\ stale' \subseteq Handlers
      BY <3>1, <3>2, <3>4 DEF Done, Forget
    <3>6. \A h \in Handlers : pc'[h] = "update" => h # w /\ pc[h] = "update"
      BY <3>3 DEF Writers
    <3> QED BY <3>2, <3>3, <3>5, <3>6
  <2> QED BY <2>1, <2>2
<1>9. CASE Restart
  BY <1>9, ManifestAssumption DEF Restart, Writers
<1> QED BY <1>1, <1>2, <1>3, <1>4, <1>5, <1>6, <1>7, <1>8, <1>9 DEF ManifestNext, Generate

---------------------------------------------------------------------------
(* The file. *)
LEMMA FileInit == ManifestInit => FileFollowsConfig
BY DEF ManifestInit, FileFollowsConfig, Quiet, Writers

(* Only who changes the configuration or the file can disturb the agreement,
   and it is then about to write the file. *)
LEMMA FileStep ==
    ASSUME ManifestTypeOK, FileFollowsConfig, [ManifestNext]_manifestVars
    PROVE  FileFollowsConfig'
<1> USE DEF ManifestTypeOK
<1>1. CASE UNCHANGED manifestVars
  BY <1>1 DEF manifestVars, bmVars, FileFollowsConfig, Quiet
<1>2. ASSUME NEW h \in Handlers,
             \/ Receive(h) \/ Defer(h) \/ Pass(h) \/ InSync(h) \/ CopyField(h) \/ Differs(h)
      PROVE  FileFollowsConfig'
  <2>1. UNCHANGED bmVars /\ (Quiet' => Quiet)
    BY <1>2 DEF Receive, Defer, Pass, InSync, CopyField, Differs, Copied, Go, Quiet, Writers
  <2> QED BY <2>1 DEF FileFollowsConfig, bmVars
<1>3. ASSUME NEW h \in Handlers, Update(h)
      PROVE  FileFollowsConfig'
  BY <1>3 DEF Update, Go, FileFollowsConfig, Quiet, Writers
<1>4. ASSUME NEW w \in Writers, Generate(w)
      PROVE  FileFollowsConfig'
  BY <1>4 DEF Generate, Truncate, CannotOpen, Write, CannotWrite, Done, Go, FileFollowsConfig, Quiet
<1>5. CASE Restart
  BY <1>5 DEF Restart, FileFollowsConfig, Quiet, Writers
<1> QED BY <1>1, <1>2, <1>3, <1>4, <1>5 DEF ManifestNext

---------------------------------------------------------------------------
(* A copy that no update has overtaken still agrees with the configuration. *)
CopyInv ==
    \A h \in Handlers \ stale :
        /\ pc[h] \in {"idle", "guard"} => copy[h] = Nothing
        /\ pc[h] = "copy" => \A f \in DOMAIN copy[h] : copy[h][f] = Config[f]
        /\ pc[h] = "update" => copy[h] = Merge(manifest[h], Config)

LEMMA CopyInit == ManifestInit => CopyInv
BY DEF ManifestInit, CopyInv, Writers, Nothing

(* Equal fields make equal configurations. *)
LEMMA WholeCopy ==
    ASSUME ManifestTypeOK, NEW h \in Handlers, DOMAIN copy[h] = Fields,
           \A f \in DOMAIN copy[h] : copy[h][f] = Config[f]
    PROVE  copy[h] = Config
BY DEF ManifestTypeOK, Partial, Settled

(* A step that leaves the configuration alone and moves one handler on. *)
LEMMA OneMoves ==
    ASSUME ManifestTypeOK, CopyInv, NEW w \in Writers,
           Config' = Config, stale \ {w} \subseteq stale',
           \A h \in Handlers \ {w} :
               pc'[h] = pc[h] /\ manifest'[h] = manifest[h] /\ copy'[h] = copy[h],
           w \in Handlers \ stale' =>
               /\ pc'[w] \in {"idle", "guard"} => copy'[w] = Nothing
               /\ pc'[w] = "copy" => \A f \in DOMAIN copy'[w] : copy'[w][f] = Config[f]
               /\ pc'[w] = "update" => copy'[w] = Merge(manifest'[w], Config)
    PROVE  CopyInv'
BY DEF CopyInv, Merge

LEMMA CopyStep ==
    ASSUME ManifestTypeOK, CopyInv, [ManifestNext]_manifestVars
    PROVE  CopyInv'
<1> USE DEF ManifestTypeOK
<1>1. CASE UNCHANGED manifestVars
  BY <1>1 DEF manifestVars, bmVars, CopyInv, Merge
<1>2. ASSUME NEW h \in Handlers, Receive(h) \/ Defer(h) \/ Pass(h) \/ InSync(h)
      PROVE  CopyInv'
  BY <1>2, OneMoves DEF Receive, Defer, Pass, InSync, Go, Forget, CopyInv, Writers, bmVars, Nothing
<1>3. ASSUME NEW h \in Handlers, CopyField(h)
      PROVE  CopyInv'
  BY <1>3, OneMoves, CopyType DEF CopyField, CopyInv, Writers, bmVars
<1>4. ASSUME NEW h \in Handlers, Differs(h)
      PROVE  CopyInv'
  <2>1. h \notin stale => copy[h] = Config
    BY <1>4, WholeCopy DEF Differs, Copied, CopyInv
  <2> QED BY <1>4, <2>1, OneMoves DEF Differs, Go, Writers, bmVars
<1>5. ASSUME NEW h \in Handlers, Update(h)
      PROVE  CopyInv'
  <2> SUFFICES ASSUME NEW g \in Handlers, g \notin stale'
               PROVE  /\ pc'[g] \in {"idle", "guard"} => copy'[g] = Nothing
                      /\ pc'[g] = "copy" => \A f \in DOMAIN copy'[g] : copy'[g][f] = Config'[f]
                      /\ pc'[g] = "update" => copy'[g] = Merge(manifest'[g], Config')
    BY DEF CopyInv
  <2>1. CASE g = h
    BY <1>5, <2>1 DEF Update, Go, Writers
  <2>2. CASE g # h
    <3>1. copy[g] = Nothing /\ pc'[g] = pc[g] /\ copy'[g] = copy[g] /\ g \notin stale
      BY <1>5, <2>2 DEF Update, Go, Holding, Writers
    <3>2. pc[g] # "update"
      BY <3>1, PartialFacts
    <3> QED BY <3>1, <3>2 DEF Nothing
  <2> QED BY <2>1, <2>2
<1>6. ASSUME NEW w \in Writers, Truncate(w)
      PROVE  CopyInv'
  BY <1>6, OneMoves DEF Truncate, Go, Writers
<1>7. ASSUME NEW w \in Writers, CannotOpen(w) \/ Write(w) \/ CannotWrite(w)
      PROVE  CopyInv'
  <2>1. CASE w = Main
    BY <1>7, <2>1, OneMoves, ManifestAssumption
       DEF CannotOpen, Write, CannotWrite, Done, Afterwards, Go, Writers
  <2>2. CASE w # Main
    BY <1>7, <2>2, OneMoves
       DEF CannotOpen, Write, CannotWrite, Done, Afterwards, Forget, Go, Writers
  <2> QED BY <2>1, <2>2
<1>8. CASE Restart
  BY <1>8, ManifestAssumption DEF Restart, CopyInv, Writers, Nothing
<1> QED BY <1>1, <1>2, <1>3, <1>4, <1>5, <1>6, <1>7, <1>8 DEF ManifestNext, Generate

---------------------------------------------------------------------------
(* Type correctness of the backup configuration. *)
THEOREM ManifestTypeCorrect == ManifestSpec => []ManifestTypeOK
BY ManifestTypeInit, ManifestTypeStep, PTL DEF ManifestSpec

(* The file ends up with the configuration in memory, however many handlers
   update and write at once, and however often the agent restarts. *)
THEOREM FileNeverStale == ManifestSpec => []FileFollowsConfig
BY ManifestTypeInit, ManifestTypeStep, FileInit, FileStep, PTL DEF ManifestSpec

(* An update from a copy nobody overtook changes what its manifest names and
   nothing else. *)
THEOREM UpdatesOnlyMerge == ManifestSpec => UpdatesMerge
<1>1. ASSUME CopyInv, NEW h \in Handlers, Update(h), h \notin stale
      PROVE  Config' = Merge(manifest[h], Config)
  BY <1>1 DEF CopyInv, Update
<1>2. CopyInv /\ [ManifestNext]_manifestVars
      => [\A h \in Handlers :
             Update(h) /\ h \notin stale => Config' = Merge(manifest[h], Config)]_manifestVars
  BY <1>1
<1> QED BY <1>2, ManifestTypeInit, ManifestTypeStep, CopyInit, CopyStep, PTL
        DEF ManifestSpec, UpdatesMerge

(* A handler that calls the backup configuration in sync is right about the
   file, unless its copy was overtaken or a write is under way or failed. *)
THEOREM InSyncTold == ManifestSpec => InSyncIsTrue
<1> DEFINE Told(h) == \/ h \in stale \/ failed \/ ~Quiet
                      \/ \A f \in DOMAIN manifest[h] : file[f] = manifest[h][f]
<1>1. ASSUME ManifestTypeOK, CopyInv, FileFollowsConfig, NEW h \in Handlers, InSync(h)
      PROVE  Told(h)
  <2> SUFFICES ASSUME h \notin stale, ~failed, Quiet, NEW f \in DOMAIN manifest[h]
               PROVE  file[f] = manifest[h][f]
    OBVIOUS
  <2>1. file = Config
    BY <1>1 DEF FileFollowsConfig
  <2>2. copy[h] = Config
    BY <1>1, WholeCopy DEF InSync, Copied, CopyInv
  <2>3. f \in Fields
    BY <1>1 DEF ManifestTypeOK, Partial
  <2>4. Merge(manifest[h], copy[h])[f] = manifest[h][f]
    BY <2>3 DEF Merge
  <2> QED BY <1>1, <2>1, <2>2, <2>4 DEF InSync
<1>2. ManifestTypeOK /\ CopyInv /\ FileFollowsConfig /\ [ManifestNext]_manifestVars
      => [\A h \in Handlers : InSync(h) => Told(h)]_manifestVars
  BY <1>1
<1> QED BY <1>2, ManifestTypeInit, ManifestTypeStep, CopyInit, CopyStep, FileInit, FileStep, PTL
        DEF ManifestSpec, InSyncIsTrue, Told

---------------------------------------------------------------------------
(* The agent's life.  Every step that ends the process is an Exit. *)
ProcessEnds == Fatal \/ MainReturns \/ Kill \/ SignalAtStart \/ StopPanics

LEMMA EndsInExit == ProcessEnds => Exit
BY DEF ProcessEnds, Fatal, MainReturns, Kill, SignalAtStart, StopPanics

(* A Start, whether it comes off or not, stays within the types. *)
LEMMA StartEither ==
    ASSUME LifecycleTypeOK, StartComesOff \/ StartFails
    PROVE  child' \in {"none", "alive", "dead", "told"} /\ pipelines' \in 0 .. 2
<1>1. child \in {"none", "alive", "dead", "told"} /\ pipelines \in 0 .. 2
  BY DEF LifecycleTypeOK
<1>2. CASE StartComesOff
  BY <1>2 DEF StartComesOff
<1>3. CASE StartFails
  BY <1>1, <1>3 DEF StartFails
<1> QED BY <1>2, <1>3

LEMMA LifecycleTypeInit == LifecycleInit => LifecycleTypeOK
<1>1. 0 \in 0 .. 2
  OBVIOUS
<1> QED BY <1>1 DEF LifecycleInit, LifecycleTypeOK

LEMMA LifecycleTypeStep ==
    ASSUME LifecycleTypeOK, [LifecycleNext]_lifecycleVars
    PROVE  LifecycleTypeOK'
<1> USE DEF LifecycleTypeOK
<1>0. 0 \in 0 .. 2
  OBVIOUS
<1>1. CASE ProcessEnds
  BY <1>0, <1>1, EndsInExit DEF Exit
<1>2. CASE Launch \/ InitDB \/ Listen
  BY <1>2 DEF Launch, InitDB, Listen, poolVars
<1>9. CASE StartPool
  BY <1>9, StartEither DEF StartPool
(* The server returns only when GracefulStop has seen the last stream go. *)
<1>3. CASE ServeReturns
  <2>1. ~streams
    BY <1>3 DEF ServeReturns
  <2> QED BY <1>3, <2>1 DEF ServeReturns, poolVars
<1>4. CASE Signal \/ SignalStep
  <2>1. CASE Signal
    BY <2>1 DEF Signal, poolVars
  <2>2. CASE TakeSignal
    BY <2>2 DEF TakeSignal, poolVars
  <2>3. CASE GracefulStop
    BY <2>3 DEF GracefulStop, poolVars
  <2>4. CASE Cancel
    BY <2>4 DEF Cancel, poolVars
  <2> QED BY <1>4, <2>1, <2>2, <2>3, <2>4 DEF SignalStep
<1>5. CASE StreamOpens \/ StreamCloses
  BY <1>5 DEF StreamOpens, StreamCloses, agentVars, poolVars
<1>6. CASE RunStep
  <2>1. CASE RunStartsPool
    BY <2>1, StartEither DEF RunStartsPool
  <2>2. CASE ChecksBegin \/ PatroniAnswers \/ ChecksEnd
    BY <2>2 DEF ChecksBegin, PatroniAnswers, ChecksEnd, RunGoes
  <2>3. CASE CheckPool
    BY <2>3, StartEither DEF CheckPool, RunGoes
  <2>4. CASE RunEnds
    BY <2>4 DEF RunEnds, RunGoes
  <2>5. CASE StopSignals
    BY <2>5 DEF StopSignals, RunGoes
  <2>6. CASE StopPanics
    BY <1>1, <2>6 DEF ProcessEnds
  <2> QED BY <1>6, <2>1, <2>2, <2>3, <2>4, <2>5, <2>6 DEF RunStep, CheckStep
<1>7. CASE PgBouncerDies \/ ReaperNotices
  <2>1. CASE PgBouncerDies
    BY <2>1 DEF PgBouncerDies, agentVars
  <2>2. CASE ReaperNotices
    BY <2>2 DEF ReaperNotices, agentVars
  <2> QED BY <1>7, <2>1, <2>2
<1>8. CASE UNCHANGED lifecycleVars
  BY <1>8 DEF lifecycleVars, agentVars, poolVars
<1> QED
  BY <1>1, <1>2, <1>3, <1>4, <1>5, <1>6, <1>7, <1>8, <1>9 DEF LifecycleNext, MainStep, ProcessEnds

(* main's start-up and end, the goroutine of the signal and Run keep to their
   order, in every process there is: no client is served before main listens,
   and none is cut off when main goes on to close the store. *)
THEOREM LifecycleInOrder == LifecycleSpec => []LifecycleTypeOK
BY LifecycleTypeInit, LifecycleTypeStep, PTL DEF LifecycleSpec

(* Only three steps start a PgBouncer, each of them before Run is over; only
   the end of a process makes an orphan of one; and Run comes to its end with
   a promise only through a Stop that signals. *)
LEMMA StopsStep ==
    ASSUME LifecycleTypeOK, StopsWhatItRegistered, [LifecycleNext]_lifecycleVars
    PROVE  StopsWhatItRegistered'
<1> USE DEF StopsWhatItRegistered
<1>1. CASE ProcessEnds
  BY <1>1, EndsInExit DEF Exit
<1>2. CASE StartPool \/ RunStartsPool \/ CheckPool
  <2>1. child' = "alive" => child = "alive" \/ ~orphan
    BY <1>2 DEF StartPool, RunStartsPool, CheckPool, StartComesOff, StartFails
  <2>2. run' # "gone"
    BY <1>2 DEF StartPool, RunStartsPool, CheckPool, RunGoes, LifecycleTypeOK
  <2>3. orphan' = orphan
    BY <1>2 DEF StartPool, RunStartsPool, CheckPool, RunGoes
  <2> QED BY <2>1, <2>2, <2>3
<1>3. CASE ChecksBegin \/ PatroniAnswers \/ ChecksEnd
  BY <1>3 DEF ChecksBegin, PatroniAnswers, ChecksEnd, RunGoes
<1>4. CASE RunEnds
  BY <1>4 DEF RunEnds, RunGoes
<1>5. CASE StopSignals
  BY <1>5 DEF StopSignals, RunGoes
<1>6. CASE PgBouncerDies \/ ReaperNotices
  BY <1>6 DEF PgBouncerDies, ReaperNotices, agentVars
<1>7. CASE \/ Launch \/ InitDB \/ Listen \/ ServeReturns \/ Signal \/ SignalStep
           \/ StreamOpens \/ StreamCloses \/ UNCHANGED lifecycleVars
  <2>1. UNCHANGED poolVars /\ (run' = "gone" => run = "gone")
    BY <1>7 DEF Launch, InitDB, Listen, ServeReturns, Signal, SignalStep, TakeSignal, GracefulStop,
                Cancel, StreamOpens, StreamCloses, lifecycleVars, agentVars
  <2> QED BY <2>1 DEF poolVars
<1> QED
  BY <1>1, <1>2, <1>3, <1>4, <1>5, <1>6, <1>7
     DEF LifecycleNext, MainStep, RunStep, CheckStep, ProcessEnds

(* Over any number of launches, crashes, signals and orphans: one PgBouncer
   has the port, and a Run that returned with a Stop promised has told the
   one PgBouncer it ever started to end. *)
THEOREM RunLeavesNoPgBouncer == LifecycleSpec => []StopsWhatItRegistered
<1>1. LifecycleInit => StopsWhatItRegistered
  BY DEF LifecycleInit, StopsWhatItRegistered
<1> QED BY <1>1, StopsStep, LifecycleInOrder, PTL DEF LifecycleSpec
=============================================================================
