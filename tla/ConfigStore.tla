----------------------------- MODULE ConfigStore -----------------------------
(***************************************************************************)
(* The configuration file.  Saves run one after the other through a queue; *)
(* loads run beside them.  Each is a chain of awaited file operations, and *)
(* other operations run between any two of them: the check for a missing   *)
(* or empty file, the read, the truncation that opens a write, the write.  *)
(*                                                                         *)
(* A configuration is its sync section and its runtime settings.           *)
(***************************************************************************)
EXTENDS Sequences

CONSTANTS
    Loaders,        \* who loads: the scheduler, a settings page
    Savers,         \* who saves: the sync settings page, the runtime settings
    SectionOf,      \* SectionOf[w]: the section that saver w changes
    SyncSettings,   \* values of the sync section
    Runtime,        \* values of the runtime settings
    Default,        \* the configuration bundled with the application
    Missing, Empty, Garbled     \* what the file is when it is no configuration

Sections == {"sync", "runtime"}
Configs == [sync : SyncSettings, runtime : Runtime]

ASSUME SectionsAssumption == SectionOf \in [Savers -> Sections]
ASSUME LoadersAssumption == Loaders \cap Savers = {}
ASSUME DefaultAssumption == Default \in Configs
ASSUME FileAssumption ==
    /\ Missing # Empty /\ Missing # Garbled /\ Empty # Garbled
    /\ Configs \cap {Missing, Empty, Garbled} = {}

VARIABLES
    file,       \* the file: a configuration, Missing, Empty or Garbled
    queue,      \* _saveQueue: the savers whose operations have not finished
    op,         \* op[p]: the operation of p
    saved,      \* the configuration that the completed saves amount to
    defaulted   \* the default was written over a configuration

configVars == <<file, queue, op, saved, defaulted>>

Users == Loaders \cup Savers

Steps == {"idle", "queued", "check", "default", "fill", "read", "open", "write",
          "loaded", "failed"}

Files == Configs \cup {Missing, Empty, Garbled}

\* config is what the operation read; a save changes its section to value.
Operations == [step : Steps, config : Configs, value : SyncSettings \cup Runtime]

NoOperation == [step |-> "idle", config |-> Default, value |-> Default.sync]

ConfigTypeOK ==
    /\ file \in Files
    /\ queue \in Seq(Savers)
    /\ op \in [Users -> Operations]
    /\ saved \in Configs
    /\ defaulted \in BOOLEAN

\* The application is installed, or starts with the configuration of an earlier run.
ConfigInit ==
    /\ \E config \in Configs :
          /\ saved = config
          /\ \/ file = config
             \/ file = Missing /\ config = Default
    /\ queue = <<>>
    /\ op = [p \in Users |-> NoOperation]
    /\ defaulted = FALSE

At(p, step) == op[p].step = step
GoTo(p, step) == op' = [op EXCEPT ![p].step = step]
End(p) == op' = [op EXCEPT ![p] = NoOperation]

\* Bytes written from the start of a file that another write has filled meanwhile leave the
\* tail of the longer of the two.
Written(config) == IF file = Empty THEN {config} ELSE {config, Garbled}

-----------------------------------------------------------------------------

BeginLoad(p) ==
    /\ p \in Loaders
    /\ At(p, "idle")
    /\ GoTo(p, "check")
    /\ UNCHANGED <<file, queue, saved, defaulted>>

Values(section) == IF section = "sync" THEN SyncSettings ELSE Runtime

\* The user changes a setting: the save is put in the queue.
RequestSave(p) ==
    /\ p \in Savers
    /\ At(p, "idle")
    /\ \E value \in Values(SectionOf[p]) :
          op' = [op EXCEPT ![p].step = "queued", ![p].value = value]
    /\ queue' = Append(queue, p)
    /\ UNCHANGED <<file, saved, defaulted>>

\* Mutant of StartSave: a save does not wait for those before it.
StartAnySave(p) ==
    /\ At(p, "queued")
    /\ GoTo(p, "check")
    /\ UNCHANGED <<file, queue, saved, defaulted>>

StartSave(p) ==
    /\ At(p, "queued")
    /\ queue # <<>> /\ Head(queue) = p
    /\ GoTo(p, "check")
    /\ UNCHANGED <<file, queue, saved, defaulted>>

\* ensureDefaultConfig: the file exists and is not empty, or the default is loaded.
Check(p) ==
    /\ At(p, "check")
    /\ GoTo(p, IF file \in {Missing, Empty} THEN "default" ELSE "read")
    /\ UNCHANGED <<file, queue, saved, defaulted>>

\* Opening a file for writing creates it or truncates it.
OpenDefault(p) ==
    /\ At(p, "default")
    /\ file' = Empty
    /\ defaulted' = (defaulted \/ file # Missing)
    /\ GoTo(p, "fill")
    /\ UNCHANGED <<queue, saved>>

FillDefault(p) ==
    /\ At(p, "fill")
    /\ file' \in Written(Default)
    /\ GoTo(p, "read")
    /\ UNCHANGED <<queue, saved, defaulted>>

\* Text that is not JSON is an error of the load; a save that fails leaves the queue.
Read(p) ==
    /\ At(p, "read")
    /\ IF file \in Configs
       THEN /\ op' = [op EXCEPT ![p].config = file,
                                ![p].step = IF p \in Savers THEN "open" ELSE "loaded"]
            /\ UNCHANGED queue
       ELSE IF p \in Savers
            THEN End(p) /\ queue' = Tail(queue)
            ELSE GoTo(p, "failed") /\ UNCHANGED queue
    /\ UNCHANGED <<file, saved, defaulted>>

OpenSave(p) ==
    /\ At(p, "open")
    /\ file' = Empty
    /\ GoTo(p, "write")
    /\ UNCHANGED <<queue, saved, defaulted>>

\* A configuration with one of its sections replaced.
With(config, section, value) ==
    IF section = "sync"
    THEN [config EXCEPT !.sync = value]
    ELSE [config EXCEPT !.runtime = value]

\* The configuration that was read, with the section of the saver replaced.
Changed(p) == With(op[p].config, SectionOf[p], op[p].value)

WriteSave(p) ==
    /\ At(p, "write")
    /\ file' \in Written(Changed(p))
    /\ saved' = With(saved, SectionOf[p], op[p].value)
    /\ queue' = Tail(queue)
    /\ End(p)
    /\ UNCHANGED defaulted

\* The caller has the configuration, or the error.
EndLoad(p) ==
    /\ At(p, "loaded") \/ At(p, "failed")
    /\ End(p)
    /\ UNCHANGED <<file, queue, saved, defaulted>>

\* What an operation does next by itself.
Proceed(p) ==
    \/ StartSave(p)
    \/ Check(p)
    \/ OpenDefault(p)
    \/ FillDefault(p)
    \/ Read(p)
    \/ OpenSave(p)
    \/ WriteSave(p)

ConfigNext == \E p \in Users : BeginLoad(p) \/ RequestSave(p) \/ Proceed(p) \/ EndLoad(p)

ConfigSpec == ConfigInit /\ [][ConfigNext]_configVars

-----------------------------------------------------------------------------
(* Properties *)

\* Saves of different sections keep each other's values: short of a default written over it,
\* a whole file is what the completed saves amount to.
SavedUnlessDefaulted ==
    file \in Configs => file = saved \/ defaulted
===============================================================================
