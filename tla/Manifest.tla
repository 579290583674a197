----------------------------- MODULE Manifest ------------------------------
(***************************************************************************)
(* The backup section of a desired-state manifest: how concurrent          *)
(* reconcile commands (reconcile.go) change the configuration the backup   *)
(* manager holds and the pgbackrest.conf it writes from it (backup.go).    *)
(*                                                                         *)
(* A reconcile copies the configuration without the manager's mutex, which *)
(* a writer may hold while it assigns the struct: the copy can mix fields  *)
(* of two configurations.  UpdateConfig stores the whole struct under the  *)
(* mutex, lets go of it and takes it again to write the file in place.     *)
(* When the agent starts, its main writes the file from the defaults.      *)
(***************************************************************************)
EXTENDS Naturals

CONSTANTS Handlers,    \* the goroutines that handle reconcile commands
          Main,        \* the agent's main goroutine, which writes the file at start
          Fields,      \* of BackupConfig: retention_full, retention_diff, repo_type, s3_bucket
          Settings     \* what a field can be set to

ASSUME ManifestAssumption == Main \notin Handlers /\ Fields # {} /\ 0 \in Settings

VARIABLES
    Config,     \* bm.Config
    file,       \* pgbackrest.conf: the settings in it, or Torn
    failed,     \* the last attempt to write the file failed
    pc,         \* where main and each handler are
    manifest,   \* the backup section each handler was given: some fields
    copy,       \* newCfg of each handler: the fields copied or set so far
    stale       \* the handlers whose copy another UpdateConfig has overtaken

bmVars       == <<Config, file, failed>>
manifestVars == <<bmVars, pc, manifest, copy, stale>>

Writers == Handlers \cup {Main}

Settled   == [Fields -> Settings]
Defaults  == [f \in Fields |-> 0]
Nothing   == [f \in {} |-> 0]
Partial   == UNION {[F -> Settings] : F \in SUBSET Fields}
Torn      == [torn |-> TRUE]      \* truncated, or cut short

Merge(new, old) == [f \in Fields |-> IF f \in DOMAIN new THEN new[f] ELSE old[f]]

(* bm.mu is held across steps by whoever writes the file. *)
ConfigMuFree == \A w \in Writers : pc[w] # "writing"

Go(w, p) == pc' = [pc EXCEPT ![w] = p]

(* After GenerateConfig the handler reports its command as reconciled,
   whatever came of it; main goes on starting the agent. *)
Afterwards(w) == IF w = Main THEN "up" ELSE "idle"

Forget(h) ==
    /\ manifest' = [manifest EXCEPT ![h] = Nothing]
    /\ copy' = [copy EXCEPT ![h] = Nothing]
    /\ stale' = stale \ {h}

ManifestInit ==
    /\ Config = Defaults /\ file = Torn /\ failed = FALSE
    /\ pc = [w \in Writers |-> IF w = Main THEN "generate" ELSE "idle"]
    /\ manifest = [h \in Handlers |-> Nothing]
    /\ copy = [h \in Handlers |-> Nothing]
    /\ stale = {}

---------------------------------------------------------------------------
(* Reconcile up to its backup section.  The manifest is remembered and saved
   for a later start of the agent, which loads it and never reads it; the
   load guard may defer the command, which is then over. *)
Receive(h) ==
    /\ pc[Main] = "up" /\ pc[h] = "idle"
    /\ \E m \in Partial : manifest' = [manifest EXCEPT ![h] = m]
    /\ Go(h, "guard")
    /\ UNCHANGED <<bmVars, copy, stale>>

Defer(h) ==
    /\ pc[h] = "guard" /\ Go(h, "idle") /\ Forget(h)
    /\ UNCHANGED bmVars

Pass(h) ==
    /\ pc[h] = "guard" /\ Go(h, "copy")
    /\ UNCHANGED <<bmVars, manifest, copy, stale>>

(* newCfg := a.backup.Config, without the mutex. *)
CopyField(h) ==
    /\ pc[h] = "copy"
    /\ \E f \in Fields \ DOMAIN copy[h] :
           copy' = [copy EXCEPT ![h] = [g \in DOMAIN @ \cup {f} |->
                                            IF g = f THEN Config[f] ELSE @[g]]]
    /\ UNCHANGED <<bmVars, pc, manifest, stale>>

Copied(h) == pc[h] = "copy" /\ DOMAIN copy[h] = Fields

\* Variant: one field that agrees is enough.
InSyncEarly(h) ==
    /\ Copied(h) /\ \E f \in DOMAIN manifest[h] : manifest[h][f] = copy[h][f]
    /\ Go(h, "idle") /\ Forget(h)
    /\ UNCHANGED bmVars

(* The diff finds nothing to change: the log says the backup configuration
   is in sync, and the command is over. *)
InSync(h) ==
    /\ Copied(h) /\ Merge(manifest[h], copy[h]) = copy[h]
    /\ Go(h, "idle") /\ Forget(h)
    /\ UNCHANGED bmVars

\* Variant: what the manifest leaves out is reset.
DiffersFromDefaults(h) ==
    /\ Copied(h) /\ Merge(manifest[h], copy[h]) # copy[h]
    /\ copy' = [copy EXCEPT ![h] = Merge(manifest[h], Defaults)]
    /\ Go(h, "update")
    /\ UNCHANGED <<bmVars, manifest, stale>>

Differs(h) ==
    /\ Copied(h) /\ Merge(manifest[h], copy[h]) # copy[h]
    /\ copy' = [copy EXCEPT ![h] = Merge(manifest[h], @)]
    /\ Go(h, "update")
    /\ UNCHANGED <<bmVars, manifest, stale>>

---------------------------------------------------------------------------
(* UpdateConfig and GenerateConfig. *)
Holding(h) == copy[h] # Nothing

Update(h) ==
    /\ pc[h] = "update" /\ ConfigMuFree
    /\ Config' = copy[h]
    /\ stale' = stale \cup {g \in Handlers \ {h} : Holding(g)}
    /\ Go(h, "generate")
    /\ UNCHANGED <<file, failed, manifest, copy>>

Done(w) ==
    /\ Go(w, Afterwards(w))
    /\ IF w = Main THEN UNCHANGED <<manifest, copy, stale>> ELSE Forget(w)

Truncate(w) ==
    /\ pc[w] = "generate" /\ ConfigMuFree
    /\ file' = Torn /\ Go(w, "writing")
    /\ UNCHANGED <<Config, failed, manifest, copy, stale>>

CannotOpen(w) ==
    /\ pc[w] = "generate" /\ ConfigMuFree
    /\ failed' = TRUE /\ Done(w)
    /\ UNCHANGED <<Config, file>>

\* Variant: each handler writes the configuration it made itself.
WriteOwn(w) ==
    /\ pc[w] = "writing"
    /\ file' = (IF w = Main THEN Config ELSE copy[w]) /\ failed' = FALSE
    /\ Done(w) /\ UNCHANGED Config

Write(w) ==
    /\ pc[w] = "writing"
    /\ file' = Config /\ failed' = FALSE
    /\ Done(w) /\ UNCHANGED Config

CannotWrite(w) ==
    /\ pc[w] = "writing"
    /\ failed' = TRUE /\ Done(w)
    /\ UNCHANGED <<Config, file>>

(* The agent stops wherever it is and starts again: only the file is left,
   and main writes it from the defaults. *)
Restart ==
    /\ Config' = Defaults
    /\ pc' = [w \in Writers |-> IF w = Main THEN "generate" ELSE "idle"]
    /\ manifest' = [h \in Handlers |-> Nothing]
    /\ copy' = [h \in Handlers |-> Nothing]
    /\ stale' = {}
    /\ UNCHANGED <<file, failed>>

---------------------------------------------------------------------------
Generate(w) == Truncate(w) \/ CannotOpen(w) \/ Write(w) \/ CannotWrite(w)

ManifestNext ==
    \/ \E h \in Handlers : \/ Receive(h) \/ Defer(h) \/ Pass(h) \/ CopyField(h)
                           \/ InSync(h) \/ Differs(h) \/ Update(h)
    \/ \E w \in Writers : Generate(w)
    \/ Restart

ManifestSpec == ManifestInit /\ [][ManifestNext]_manifestVars

---------------------------------------------------------------------------
(* Type invariant of the backup configuration and its handlers: what is
   stored is a whole configuration. *)
ManifestTypeOK ==
    /\ Config \in Settled /\ file \in Settled \cup {Torn} /\ failed \in BOOLEAN
    /\ pc \in [Writers -> {"idle", "guard", "copy", "update", "generate", "writing", "up"}]
    /\ manifest \in [Handlers -> Partial] /\ copy \in [Handlers -> Partial]
    /\ \A h \in Handlers : pc[h] = "update" => copy[h] \in Settled
    /\ stale \subseteq Handlers

Quiet == \A w \in Writers : pc[w] \notin {"generate", "writing"}

(* When nobody is about to write it and the last write succeeded, the file
   holds the configuration in memory: two commands that update it at once
   never leave the older of their configurations in the file, and a restart
   never leaves a file that was cut short. *)
FileFollowsConfig == Quiet /\ ~failed => file = Config

(* An update changes the fields its manifest names and no other, unless the
   configuration was changed while the handler was making it. *)
UpdatesMerge ==
    [][\A h \in Handlers :
           Update(h) /\ h \notin stale => Config' = Merge(manifest[h], Config)]_manifestVars

(* A handler that finds the configuration in sync is right about the file
   too: it already has the fields of the manifest, unless it is still being
   written, could not be written, or was changed during the diff. *)
InSyncIsTrue ==
    [][\A h \in Handlers :
           InSync(h) => \/ h \in stale \/ failed \/ ~Quiet
                        \/ \A f \in DOMAIN manifest[h] : file[f] = manifest[h][f]]_manifestVars
=============================================================================
