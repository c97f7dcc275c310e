------------------------- MODULE SyncScheduler_proofs -------------------------
(***************************************************************************)
(* Proofs about the configuration file, for any number of loaders and of   *)
(* savers of each section: its state is well typed, and short of a default *)
(* written over a configuration, the file never holds anything but what    *)
(* the completed saves amount to.  And about the scheduler, which shares   *)
(* the file: it leaves the file as ConfigStore specifies, so what is       *)
(* proved of the file holds beside it, a timer and a run never exist       *)
(* together, and a run whose settings were replaced while it loaded them   *)
(* begins no sync under them, for any intervals.                           *)
(***************************************************************************)
EXTENDS SyncScheduler, TLAPS, SequenceTheorems

USE SectionsAssumption, LoadersAssumption, DefaultAssumption, PartiesAssumption

-----------------------------------------------------------------------------
(* Types, and the queue *)

\* A save that has been requested has a value of its section.
ValueTyped ==
    \A p \in Savers : ~ At(p, "idle") => op[p].value \in Values(SectionOf[p])

\* The steps that only savers take, or only loaders.
StepsApart ==
    /\ \A p \in Loaders : op[p].step \notin {"queued", "open", "write"}
    /\ \A p \in Savers : op[p].step \notin {"loaded", "failed"}

TypeInv == ConfigTypeOK /\ ValueTyped /\ StepsApart

\* The saver whose operation is under way is the first of the queue.
Busy(p) == op[p].step \notin {"idle", "queued"}

OneSave == \A p \in Savers : Busy(p) => queue # <<>> /\ Head(queue) = p

LEMMA WithType ==
    ASSUME NEW config \in Configs, NEW section \in Sections, NEW value \in Values(section)
    PROVE  With(config, section, value) \in Configs
  BY DEF With, Configs, Sections, Values

LEMMA FilesApart ==
    /\ Missing # Empty /\ Missing # Garbled /\ Empty # Garbled
    /\ Missing \notin Configs /\ Empty \notin Configs /\ Garbled \notin Configs
  BY FileAssumption

LEMMA NoOperationType == NoOperation \in Operations
  BY DEF NoOperation, Operations, Steps, Configs

LEMMA InitType == ConfigInit => TypeInv /\ OneSave
  <1> SUFFICES ASSUME ConfigInit PROVE TypeInv /\ OneSave
    OBVIOUS
  <1>1. file \in Files /\ saved \in Configs
    BY DEF ConfigInit, Files
  <1>2. \A p \in Users : op[p] = NoOperation /\ op[p].step = "idle"
    BY DEF ConfigInit, NoOperation
  <1>3. op \in [Users -> Operations]
    BY NoOperationType DEF ConfigInit
  <1>4. queue \in Seq(Savers) /\ defaulted \in BOOLEAN
    BY EmptySeq DEF ConfigInit
  <1> QED
    BY <1>1, <1>2, <1>3, <1>4
    DEF TypeInv, ConfigTypeOK, ValueTyped, StepsApart, OneSave, Busy, At, Users

\* A step of one operation that stays in the queue where it is.
LEMMA MoveType ==
    ASSUME TypeInv, OneSave, NEW p \in Users, NEW step \in Steps, NEW config \in Configs,
           op[p].step # "idle",
           p \in Loaders => step \notin {"queued", "open", "write"},
           p \in Savers => step \notin {"idle", "loaded", "failed"},
           p \in Savers => queue # <<>> /\ Head(queue) = p,
           op' = [op EXCEPT ![p].step = step, ![p].config = config],
           UNCHANGED queue
    PROVE  op' \in [Users -> Operations] /\ ValueTyped' /\ StepsApart' /\ OneSave'
  <1>1. op' = [op EXCEPT ![p] = [@ EXCEPT !.step = step, !.config = config]]
    OBVIOUS
  <1> QED
    BY <1>1 DEF TypeInv, ConfigTypeOK, ValueTyped, StepsApart, OneSave, Busy, At, Operations,
                Users

\* The end of an operation, which for a save leaves the queue.
LEMMA EndType ==
    ASSUME TypeInv, OneSave, NEW p \in Users, End(p),
           p \in Savers => Busy(p) /\ queue' = Tail(queue),
           p \notin Savers => UNCHANGED queue
    PROVE  /\ op' \in [Users -> Operations] /\ queue' \in Seq(Savers)
           /\ ValueTyped' /\ StepsApart' /\ OneSave'
  <1>1. op' = [op EXCEPT ![p] = NoOperation] /\ NoOperation.step = "idle"
    BY DEF End, NoOperation
  <1>2. op' \in [Users -> Operations] /\ ValueTyped' /\ StepsApart'
    BY <1>1, NoOperationType
    DEF TypeInv, ConfigTypeOK, ValueTyped, StepsApart, At, Users
  <1>3. CASE p \in Savers
    <2>1. queue # <<>> /\ Head(queue) = p /\ queue \in Seq(Savers)
      BY <1>3 DEF OneSave, TypeInv, ConfigTypeOK
    <2>2. queue' \in Seq(Savers)
      BY <1>3, <2>1, HeadTailProperties
    <2>3. \A q \in Savers : q # p => ~ Busy(q)
      BY <2>1 DEF OneSave
    <2>4. OneSave'
      BY <1>1, <2>3 DEF OneSave, Busy, TypeInv, ConfigTypeOK, Users
    <2> QED
      BY <1>2, <2>2, <2>4
  <1>4. CASE p \notin Savers
    <2>1. OneSave' /\ queue' \in Seq(Savers)
      BY <1>1, <1>4 DEF OneSave, Busy, TypeInv, ConfigTypeOK, Users
    <2> QED
      BY <1>2, <2>1
  <1> QED
    BY <1>3, <1>4

LEMMA ReadType ==
    ASSUME TypeInv, OneSave, NEW p \in Users, Read(p)
    PROVE  TypeInv' /\ OneSave'
  <1>0. UNCHANGED <<file, saved, defaulted>> /\ At(p, "read")
    BY DEF Read
  <1>1. CASE file \in Configs
    <2> DEFINE step == IF p \in Savers THEN "open" ELSE "loaded"
    <2>1. /\ op' = [op EXCEPT ![p].step = step, ![p].config = file]
          /\ UNCHANGED queue
          /\ op[p].step = "read"
      BY <1>1 DEF Read, At, TypeInv, ConfigTypeOK, Operations
    <2>2. step \in Steps
      BY DEF Steps
    <2>3. /\ p \in Loaders => step \notin {"queued", "open", "write"}
          /\ p \in Savers => step \notin {"idle", "loaded", "failed"}
          /\ p \in Savers => queue # <<>> /\ Head(queue) = p
      BY <2>1 DEF OneSave, Busy
    <2> HIDE DEF step
    <2>4. op' \in [Users -> Operations] /\ ValueTyped' /\ StepsApart' /\ OneSave'
      BY <1>1, <2>1, <2>2, <2>3, MoveType
    <2> QED
      BY <1>0, <2>1, <2>4 DEF TypeInv, ConfigTypeOK
  <1>2. CASE file \notin Configs /\ p \in Savers
    <2>1. End(p) /\ queue' = Tail(queue) /\ Busy(p)
      BY <1>0, <1>2 DEF Read, At, Busy
    <2> QED
      BY <1>0, <1>2, <2>1, EndType DEF TypeInv, ConfigTypeOK
  <1>3. CASE file \notin Configs /\ p \notin Savers
    <2>1. op' = [op EXCEPT ![p].step = "failed", ![p].config = op[p].config] /\ UNCHANGED queue
      BY <1>3 DEF Read, GoTo, TypeInv, ConfigTypeOK, Operations
    <2>2. op[p].config \in Configs /\ op[p].step = "read" /\ "failed" \in Steps
      BY <1>0 DEF At, TypeInv, ConfigTypeOK, Operations, Steps
    <2>3. op' \in [Users -> Operations] /\ ValueTyped' /\ StepsApart' /\ OneSave'
      BY <1>3, <2>1, <2>2, MoveType
    <2> QED
      BY <1>0, <2>1, <2>3 DEF TypeInv, ConfigTypeOK
  <1> QED
    BY <1>1, <1>2, <1>3

\* A step from one point of an operation to the next, with what it leaves of the file.
LEMMA GoToType ==
    ASSUME TypeInv, OneSave, NEW p \in Users, NEW step \in {"check", "default", "fill", "read", "write"},
           op[p].step # "idle", GoTo(p, step), UNCHANGED queue,
           p \in Loaders => step # "write",
           p \in Savers => queue # <<>> /\ Head(queue) = p,
           file' \in Files, saved' \in Configs, defaulted' \in BOOLEAN
    PROVE  TypeInv' /\ OneSave'
  <1>1. op' = [op EXCEPT ![p].step = step, ![p].config = op[p].config]
    BY DEF GoTo, TypeInv, ConfigTypeOK, Operations
  <1>2. op[p].config \in Configs /\ step \in Steps
    BY DEF TypeInv, ConfigTypeOK, Operations, Steps
  <1>3. op' \in [Users -> Operations] /\ ValueTyped' /\ StepsApart' /\ OneSave'
    BY <1>1, <1>2, MoveType
  <1> QED
    BY <1>3 DEF TypeInv, ConfigTypeOK

LEMMA RequestType ==
    ASSUME TypeInv, OneSave, NEW p \in Users, RequestSave(p)
    PROVE  TypeInv' /\ OneSave'
  <1>1. PICK value \in Values(SectionOf[p]) :
           op' = [op EXCEPT ![p].step = "queued", ![p].value = value]
    BY DEF RequestSave
  <1>2. /\ p \in Savers /\ op[p].step = "idle"
        /\ queue' = Append(queue, p)
        /\ UNCHANGED <<file, saved, defaulted>>
    BY DEF RequestSave, At
  <1>3. value \in SyncSettings \cup Runtime /\ "queued" \in Steps
    BY DEF Values, Steps
  <1>4. op' \in [Users -> Operations] /\ ValueTyped' /\ StepsApart'
    BY <1>1, <1>2, <1>3
    DEF TypeInv, ConfigTypeOK, ValueTyped, StepsApart, At, Operations, Users
  <1>5. /\ queue' \in Seq(Savers)
        /\ queue # <<>> => queue' # <<>> /\ Head(queue') = Head(queue)
    BY <1>2, AppendProperties DEF TypeInv, ConfigTypeOK
  <1>6. \A q \in Savers : Busy(q)' => Busy(q)
    BY <1>1, <1>2 DEF Busy, TypeInv, ConfigTypeOK, Operations, Users
  <1>7. OneSave'
    BY <1>5, <1>6 DEF OneSave
  <1> QED
    BY <1>2, <1>4, <1>5, <1>7 DEF TypeInv, ConfigTypeOK

LEMMA StepType ==
    ASSUME TypeInv, OneSave, [ConfigNext]_configVars
    PROVE  TypeInv' /\ OneSave'
  <1>0. CASE UNCHANGED configVars
    BY <1>0 DEF configVars, TypeInv, ConfigTypeOK, ValueTyped, StepsApart, OneSave, Busy, At
  <1> SUFFICES ASSUME NEW p \in Users,
                      BeginLoad(p) \/ RequestSave(p) \/ Proceed(p) \/ EndLoad(p)
               PROVE  TypeInv' /\ OneSave'
    BY <1>0 DEF ConfigNext
  <1>a. Default \in Files /\ Empty \in Files /\ Garbled \in Files
    BY DEF Files
  <1>b. ASSUME p \in Savers, Busy(p) PROVE queue # <<>> /\ Head(queue) = p
    BY <1>b DEF OneSave
  <1>c. file \in Files /\ saved \in Configs /\ defaulted \in BOOLEAN
    BY DEF TypeInv, ConfigTypeOK
  <1>1. CASE BeginLoad(p)
    <2>1. op' = [op EXCEPT ![p].step = "check"] /\ p \notin Savers
          /\ UNCHANGED <<file, queue, saved, defaulted>>
      BY <1>1 DEF BeginLoad, GoTo
    <2> QED
      BY <2>1 DEF TypeInv, ConfigTypeOK, ValueTyped, StepsApart, OneSave, Busy, At, Operations,
                  Steps, Users
  <1>2. CASE RequestSave(p)
    BY <1>2, RequestType
  <1>3. CASE StartSave(p)
    BY <1>3, <1>c, GoToType DEF StartSave, At, TypeInv, StepsApart
  <1>4. CASE Check(p)
    BY <1>4, <1>b, <1>c, GoToType DEF Check, At, Busy
  <1>5. CASE OpenDefault(p)
    BY <1>5, <1>a, <1>b, <1>c, GoToType DEF OpenDefault, At, Busy
  <1>6. CASE FillDefault(p)
    <2>1. file' \in Files
      BY <1>6, <1>a DEF FillDefault, Written
    <2> QED
      BY <1>6, <2>1, <1>b, <1>c, GoToType DEF FillDefault, At, Busy
  <1>7. CASE Read(p)
    BY <1>7, ReadType
  <1>8. CASE OpenSave(p)
    BY <1>8, <1>a, <1>b, <1>c, GoToType DEF OpenSave, At, Busy, TypeInv, StepsApart
  <1>9. CASE WriteSave(p)
    <2>1. p \in Savers /\ Busy(p)
      BY <1>9 DEF WriteSave, At, Busy, TypeInv, StepsApart, Users
    <2>2. /\ op[p].config \in Configs /\ op[p].value \in Values(SectionOf[p])
          /\ SectionOf[p] \in Sections
      BY <2>1 DEF TypeInv, ConfigTypeOK, Operations, Users, ValueTyped, Busy, At
    <2>3. Changed(p) \in Configs /\ saved' \in Configs
      BY <1>9, <1>c, <2>2, WithType DEF WriteSave, Changed
    <2>4. file' \in Files
      BY <1>9, <1>a, <2>3 DEF WriteSave, Written, Files
    <2>5. End(p) /\ queue' = Tail(queue) /\ UNCHANGED defaulted
      BY <1>9 DEF WriteSave
    <2> QED
      BY <1>c, <2>1, <2>3, <2>4, <2>5, EndType DEF TypeInv, ConfigTypeOK
  <1>10. CASE EndLoad(p)
    <2>1. p \notin Savers /\ End(p) /\ UNCHANGED <<file, queue, saved, defaulted>>
      BY <1>10 DEF EndLoad, At, TypeInv, StepsApart
    <2> QED
      BY <1>c, <2>1, EndType DEF TypeInv, ConfigTypeOK
  <1> QED
    BY <1>1, <1>2, <1>3, <1>4, <1>5, <1>6, <1>7, <1>8, <1>9, <1>10 DEF Proceed

\* The configuration file and its operations are well typed.
THEOREM ConfigTypeCorrect == ConfigSpec => []ConfigTypeOK
  <1>1. TypeInv => ConfigTypeOK
    BY DEF TypeInv
  <1> QED
    BY <1>1, InitType, StepType, PTL DEF ConfigSpec

-----------------------------------------------------------------------------
(* What the file holds *)

Touches(p) == op[p].step \in {"fill", "read", "open", "write"}

\* As long as no default is written over a configuration: nobody has got past a missing file;
\* who fills it is alone; a save changes what the completed saves amount to.
FileInv ==
    /\ file # Garbled
    /\ file = Missing => saved = Default /\ \A p \in Users : ~ Touches(p)
    /\ \A p \in Users :
          /\ At(p, "fill") => /\ file = Empty /\ saved = Default
                              /\ \A q \in Users \ {p} : ~ Touches(q)
          /\ At(p, "open") => op[p].config = saved
          /\ At(p, "write") => op[p].config = saved /\ file = Empty
    /\ file \in Configs => file = saved

IInv == TypeInv /\ OneSave /\ (defaulted \/ FileInv)

LEMMA InitFile == ConfigInit => FileInv
  <1> SUFFICES ASSUME ConfigInit PROVE FileInv
    OBVIOUS
  <1>1. \A p \in Users : op[p].step = "idle"
    BY DEF ConfigInit, NoOperation
  <1>2. \/ file = saved /\ file \in Configs
        \/ file = Missing /\ saved = Default
    BY DEF ConfigInit
  <1> QED
    BY <1>1, <1>2, FilesApart DEF FileInv, Touches, At

\* A step of p that leaves the file and the saves alone and does not make it fill or write.
LEMMA MoveFile ==
    ASSUME TypeInv, FileInv, NEW p \in Users, UNCHANGED <<file, saved>>,
           op' \in [Users -> Operations],
           \A q \in Users \ {p} : op'[q] = op[q],
           op'[p].step \notin {"fill", "write"},
           op'[p].step \in {"read", "open"} => file \notin {Missing, Empty},
           op'[p].step = "open" => op'[p].config = saved
    PROVE  FileInv'
  <1>1. \A q \in Users : At(q, "fill") => file = Empty
    BY DEF FileInv
  <1> QED
    BY <1>1 DEF FileInv, Touches, At

LEMMA StepFile ==
    ASSUME IInv, [ConfigNext]_configVars, ~ defaulted'
    PROVE  FileInv'
  <1> USE DEF IInv
  <1>0. CASE UNCHANGED configVars
    BY <1>0 DEF configVars, FileInv, Touches, At
  <1> SUFFICES ASSUME NEW p \in Users,
                      BeginLoad(p) \/ RequestSave(p) \/ Proceed(p) \/ EndLoad(p)
               PROVE  FileInv'
    BY <1>0 DEF ConfigNext
  <1>a. defaulted' \in BOOLEAN /\ op' \in [Users -> Operations] /\ op \in [Users -> Operations]
    BY StepType DEF TypeInv, ConfigTypeOK
  <1>b. ~ defaulted
    <2> USE <1>a DEF BeginLoad, RequestSave, Proceed, EndLoad, StartSave, Check, OpenDefault,
                     FillDefault, Read, OpenSave, WriteSave
    <2> QED
      OBVIOUS
  <1>c. FileInv
    BY <1>b
  <1>d. \A q \in Savers : Busy(q) /\ Busy(p) /\ p \in Savers => q = p
    BY DEF OneSave
  <1>e. op[p] \in Operations
    BY <1>a
  <1>1. CASE BeginLoad(p) \/ RequestSave(p) \/ StartSave(p) \/ EndLoad(p)
    <2>1. /\ UNCHANGED <<file, saved>>
          /\ \A q \in Users \ {p} : op'[q] = op[q]
          /\ op'[p].step \in {"idle", "queued", "check"}
      BY <1>1, <1>a, <1>e
      DEF BeginLoad, RequestSave, StartSave, EndLoad, GoTo, End, NoOperation, Operations
    <2> QED
      BY <1>a, <1>c, <2>1, MoveFile
  <1>2. CASE Check(p)
    <2>1. /\ UNCHANGED <<file, saved>>
          /\ \A q \in Users \ {p} : op'[q] = op[q]
          /\ op'[p].step = IF file \in {Missing, Empty} THEN "default" ELSE "read"
      BY <1>2, <1>a, <1>e DEF Check, GoTo, Operations
    <2> QED
      BY <1>a, <1>c, <2>1, MoveFile
  <1>3. CASE OpenDefault(p)
    <2>1. /\ file = Missing /\ file' = Empty /\ UNCHANGED saved
          /\ \A q \in Users \ {p} : op'[q] = op[q]
          /\ op'[p].step = "fill"
      BY <1>3, <1>a, <1>b, <1>e DEF OpenDefault, GoTo, Operations
    <2>2. saved = Default /\ \A q \in Users : ~ Touches(q)
      BY <1>c, <2>1 DEF FileInv
    <2> QED
      BY <2>1, <2>2, FilesApart DEF FileInv, Touches, At
  <1>4. CASE FillDefault(p)
    <2>1. file = Empty /\ saved = Default /\ \A q \in Users \ {p} : ~ Touches(q)
      BY <1>c, <1>4 DEF FileInv, FillDefault
    <2>2. /\ file' = Default /\ UNCHANGED saved
          /\ \A q \in Users \ {p} : op'[q] = op[q]
          /\ op'[p].step = "read"
      BY <1>4, <1>a, <1>e, <2>1 DEF FillDefault, Written, GoTo, Operations
    <2> QED
      BY <2>1, <2>2, FilesApart DEF FileInv, Touches, At
  <1>5. CASE Read(p)
    <2>1. UNCHANGED <<file, saved>> /\ At(p, "read")
      BY <1>5 DEF Read
    <2>2. CASE file \in Configs
      <3>1. /\ \A q \in Users \ {p} : op'[q] = op[q]
            /\ op'[p].step \in {"open", "loaded"} /\ op'[p].config = file
        BY <1>5, <1>a, <1>e, <2>2 DEF Read, Operations
      <3> QED
        BY <1>a, <1>c, <2>1, <2>2, <3>1, MoveFile, FilesApart DEF FileInv
    <2>3. CASE file \notin Configs
      <3>1. /\ \A q \in Users \ {p} : op'[q] = op[q]
            /\ op'[p].step \in {"idle", "failed"}
        BY <1>5, <1>a, <1>e, <2>3 DEF Read, End, GoTo, NoOperation, Operations
      <3> QED
        BY <1>a, <1>c, <2>1, <3>1, MoveFile
    <2> QED
      BY <2>2, <2>3
  <1>6. CASE OpenSave(p)
    <2>1. /\ file' = Empty /\ UNCHANGED saved /\ At(p, "open")
          /\ \A q \in Users \ {p} : op'[q] = op[q]
          /\ op'[p].step = "write" /\ op'[p].config = op[p].config
      BY <1>6, <1>a, <1>e DEF OpenSave, GoTo, Operations
    <2>2. op[p].config = saved
      BY <1>c, <2>1 DEF FileInv
    <2>3. \A q \in Users : ~ At(q, "fill")
      BY <1>c, <2>1 DEF FileInv, Touches, At
    <2> QED
      BY <1>c, <2>1, <2>2, <2>3, FilesApart DEF FileInv, Touches, At
  <1>7. CASE WriteSave(p)
    <2>1. /\ At(p, "write") /\ file = Empty /\ op[p].config = saved
      BY <1>7, <1>c DEF WriteSave, FileInv
    <2>2. /\ file' = Changed(p) /\ saved' = Changed(p)
          /\ \A q \in Users \ {p} : op'[q] = op[q]
          /\ op'[p].step = "idle"
      BY <1>7, <1>a, <1>e, <2>1 DEF WriteSave, Written, Changed, End, NoOperation, Operations
    <2>3. \A q \in Users : ~ At(q, "fill")
      BY <1>c, <2>1 DEF FileInv, Touches, At
    <2>4. \A q \in Users \ {p} : ~ At(q, "open") /\ ~ At(q, "write")
      <3>1. p \in Savers /\ Busy(p)
        BY <2>1 DEF Busy, At, TypeInv, StepsApart, Users
      <3> QED
        BY <1>d, <3>1 DEF Busy, At, TypeInv, StepsApart, Users
    <2>5. saved' \in Configs
      BY StepType DEF TypeInv, ConfigTypeOK
    <2> QED
      BY <2>2, <2>3, <2>4, <2>5, FilesApart DEF FileInv, Touches, At
  <1> QED
    BY <1>1, <1>2, <1>3, <1>4, <1>5, <1>6, <1>7 DEF Proceed

\* Saves of different sections, however many are requested at once and however many loads
\* run beside them, keep each other's values, short of a default written over them.
THEOREM SavesAreKept == ConfigSpec => []SavedUnlessDefaulted
  <1>1. ConfigInit => IInv
    BY InitType, InitFile DEF IInv
  <1>2. IInv /\ [ConfigNext]_configVars => IInv'
    <2> SUFFICES ASSUME IInv, [ConfigNext]_configVars PROVE IInv'
      OBVIOUS
    <2>1. TypeInv' /\ OneSave'
      BY StepType DEF IInv
    <2>2. defaulted' \in BOOLEAN
      BY <2>1 DEF TypeInv, ConfigTypeOK
    <2> QED
      BY <2>1, <2>2, StepFile DEF IInv
  <1>3. IInv => SavedUnlessDefaulted
    BY DEF IInv, FileInv, SavedUnlessDefaulted
  <1> QED
    BY <1>1, <1>2, <1>3, PTL DEF ConfigSpec

-----------------------------------------------------------------------------
(* The scheduler *)

\* Only an open scheduler has a timer; a closed one has no run either.
ActivityInv ==
    /\ timer # Off => phase = "none" /\ life = "open"
    /\ life = "closed" => phase = "none"

\* A timer and a run never exist together, and neither is left when close has returned.
THEOREM OneAtATime == Spec => []OneActivity
  <1>1. Init => ActivityInv
    BY DEF Init, ActivityInv
  <1>2. ActivityInv /\ [Next]_vars => ActivityInv'
    <2> SUFFICES ASSUME ActivityInv, [Next]_vars PROVE ActivityInv'
      OBVIOUS
    <2> USE DEF ActivityInv
    <2>1. CASE Tick
      BY <2>1 DEF Tick, Off
    <2>2. CASE Settings
      BY <2>2 DEF Settings, runVars
    <2>3. CASE TimerFires
      BY <2>3 DEF TimerFires, Off
    <2>4. CASE NotDue
      BY <2>4 DEF NotDue, EndRun, Scheduled
    <2>5. CASE BeginSync
      BY <2>5 DEF BeginSync
    <2>6. CASE EndSync
      BY <2>6 DEF EndSync, EndRun, Scheduled
    <2>7. CASE LoadFails
      BY <2>7 DEF LoadFails, EndRun, Scheduled
    <2>8. CASE PreferencesChanged
      BY <2>8 DEF PreferencesChanged
    <2>9. CASE Close
      BY <2>9 DEF Close
    <2>10. CASE CloseReturns
      BY <2>10 DEF CloseReturns
    <2>11. CASE UNCHANGED vars
      BY <2>11 DEF vars, runVars
    <2> QED
      BY <2>1, <2>2, <2>3, <2>4, <2>5, <2>6, <2>7, <2>8, <2>9, <2>10, <2>11 DEF Next
  <1>3. ActivityInv => OneActivity
    BY DEF ActivityInv, OneActivity
  <1> QED
    BY <1>1, <1>2, <1>3, PTL DEF Spec

\* Beside the scheduler the configuration file behaves as ConfigStore specifies.
THEOREM RunsConfigStore == Spec => ConfigSpec
  <1>1. Init => ConfigInit
    BY DEF Init
  <1>2. [Next]_vars => [ConfigNext]_configVars
    <2> SUFFICES ASSUME [Next]_vars PROVE [ConfigNext]_configVars
      OBVIOUS
    <2>1. CASE Settings
      BY <2>1 DEF Settings, ConfigNext, Users
    <2>2. CASE TimerFires
      <3>1. BeginLoad(Scheduler) \/ UNCHANGED configVars
        BY <2>2 DEF TimerFires
      <3> QED
        BY <3>1 DEF ConfigNext, Users
    <2>3. CASE NotDue \/ BeginSync \/ LoadFails
      <3>1. EndLoad(Scheduler)
        BY <2>3 DEF NotDue, BeginSync, LoadFails
      <3> QED
        BY <3>1 DEF ConfigNext, Users
    <2>4. CASE Tick \/ EndSync \/ PreferencesChanged \/ Close \/ CloseReturns
      BY <2>4 DEF Tick, EndSync, PreferencesChanged, Close, CloseReturns
    <2>5. CASE UNCHANGED vars
      BY <2>5 DEF vars, configVars
    <2> QED
      BY <2>1, <2>2, <2>3, <2>4, <2>5 DEF Next
  <1> QED
    BY <1>1, <1>2, PTL DEF Spec, ConfigSpec

\* The saves keep each other's values also while the scheduler loads the settings.
THEOREM SchedulerKeepsSaves == Spec => []SavedUnlessDefaulted
  BY SavesAreKept, RunsConfigStore, PTL

\* The schedule has its types: a delay is an interval of the settings, or what is left of it.
ScheduleTyped ==
    /\ timer \in Time \cup {Off} /\ since \in Time
    /\ phase \in {"none", "load", "sync"} /\ interval \in SyncSettings \cup {0}
    /\ refresh \in BOOLEAN /\ life \in {"open", "closing", "closed"}
    /\ wake \in BOOLEAN /\ stale \in BOOLEAN /\ unwoken \in BOOLEAN

LEMMA ScheduleStep == ConfigTypeOK /\ ScheduleTyped /\ [Next]_vars => ScheduleTyped'
  <1> SUFFICES ASSUME ConfigTypeOK, ScheduleTyped, [Next]_vars PROVE ScheduleTyped'
    OBVIOUS
  <1> USE IntervalsAssumption DEF ScheduleTyped, Time, Off
  <1>1. Loaded \in SyncSettings /\ Loaded \in 0 .. MaxInterval
    BY DEF Loaded, ConfigTypeOK, Operations, Configs, Users
  <1>2. ASSUME NEW delay \in Time \cup {Off}, EndRun(delay)
        PROVE  /\ timer' \in Time \cup {Off} /\ phase' = "none" /\ interval' = 0
               /\ stale' = FALSE /\ refresh' \in BOOLEAN
    BY <1>2 DEF EndRun, Scheduled
  <1>3. CASE Tick
    BY <1>3 DEF Tick, Elapsed
  <1>4. CASE Settings
    BY <1>4 DEF Settings, runVars
  <1>5. CASE TimerFires
    BY <1>5 DEF TimerFires
  <1>6. CASE NotDue
    <2> DEFINE delay == IF Loaded = 0 THEN Off ELSE Loaded - since
    <2>1. delay \in Time \cup {Off}
      BY <1>1, <1>6 DEF NotDue
    <2> QED
      BY <1>2, <1>6, <2>1 DEF NotDue
  <1>7. CASE BeginSync
    BY <1>1, <1>7 DEF BeginSync
  <1>8. CASE EndSync
    <2>1. interval \in Time \cup {Off} /\ EndRun(interval)
      BY <1>8 DEF EndSync
    <2>2. /\ timer' \in Time \cup {Off} /\ phase' = "none" /\ interval' = 0
          /\ stale' = FALSE /\ refresh' \in BOOLEAN
      BY <1>2, <2>1
    <2>3. UNCHANGED <<since, life, wake, unwoken>>
      BY <1>8 DEF EndSync
    <2> QED
      BY <2>2, <2>3, Zenon
  <1>9. CASE LoadFails
    BY <1>2, <1>9 DEF LoadFails
  <1>10. CASE PreferencesChanged
    <2>1. stale' \in BOOLEAN /\ refresh' \in BOOLEAN
      BY <1>10, Zenon DEF PreferencesChanged, Outdated
    <2>2. timer' \in Time \cup {Off} /\ since' \in Time
      BY <1>10 DEF PreferencesChanged
    <2>3. UNCHANGED <<phase, interval, life>> /\ wake' = FALSE /\ unwoken' = FALSE
      BY <1>10, Zenon DEF PreferencesChanged
    <2> QED
      BY <2>1, <2>2, <2>3, Zenon
  <1>11. CASE Close
    <2>1. timer' \in Time \cup {Off}
      BY <1>11 DEF Close
    <2>2. /\ UNCHANGED <<since, phase, interval, wake, stale, unwoken>>
          /\ refresh' = FALSE /\ life' = "closing"
      BY <1>11, Zenon DEF Close
    <2> QED
      BY <2>1, <2>2, Zenon
  <1>12. CASE CloseReturns
    <2>1. life' = "closed"
      BY <1>12 DEF CloseReturns
    <2> QED
      BY <1>12, <2>1, Zenon DEF CloseReturns
  <1>13. CASE UNCHANGED vars
    BY <1>13 DEF vars, runVars
  <1> QED
    BY <1>3, <1>4, <1>5, <1>6, <1>7, <1>8, <1>9, <1>10, <1>11, <1>12, <1>13 DEF Next

\* The schedule and the file are well typed: no interval, no elapsed time and no rest of an
\* interval leaves the range of the settings.
THEOREM TypeCorrect == Spec => []TypeOK
  <1>1. Spec => []ConfigTypeOK
    BY RunsConfigStore, ConfigTypeCorrect, PTL
  <1>2. Init => ScheduleTyped
    <2>1. 0 \in Time
      BY IntervalsAssumption DEF Time
    <2> QED
      BY <2>1, Zenon DEF Init, ScheduleTyped
  <1>3. ConfigTypeOK /\ ScheduleTyped => TypeOK
    BY DEF ScheduleTyped, TypeOK
  <1> QED
    BY <1>1, <1>2, <1>3, ScheduleStep, PTL DEF Spec

-----------------------------------------------------------------------------
(* Settings that a run has loaded and that were replaced meanwhile *)

\* Only preferencesChanged leaves a run with settings that were replaced, and it takes back
\* the time of the last attempt; no time passes while the run loads.
StaleInv == stale => phase = "load" /\ since = 0

LEMMA LoadedType ==
    ASSUME ConfigTypeOK
    PROVE  Loaded \in Nat
  <1>1. Loaded \in SyncSettings
    BY DEF Loaded, ConfigTypeOK, Operations, Configs, Users
  <1>2. SyncSettings \subseteq 0 .. MaxInterval /\ 0 .. MaxInterval \subseteq Nat
    BY IntervalsAssumption
  <1> QED
    BY <1>1, <1>2, Zenon

LEMMA StaleStep == ConfigTypeOK /\ StaleInv /\ [Next]_vars => StaleInv'
  <1> SUFFICES ASSUME ConfigTypeOK, StaleInv, [Next]_vars, stale'
               PROVE  phase' = "load" /\ since' = 0
    BY DEF StaleInv
  <1>1. CASE stale /\ UNCHANGED <<phase, since>>
    BY <1>1 DEF StaleInv
  <1>2. CASE Tick
    BY <1>2, Zenon DEF Tick, StaleInv
  <1>3. CASE Settings \/ Close \/ CloseReturns \/ UNCHANGED vars
    BY <1>1, <1>3, Zenon DEF Settings, Close, CloseReturns, runVars, vars
  <1>4. CASE TimerFires
    <2>1. UNCHANGED <<stale, since>>
      BY <1>4 DEF TimerFires
    <2>2. phase = "load"
      BY <2>1 DEF StaleInv
    <2>3. phase # "none"
      BY <2>2
    <2>4. UNCHANGED phase
      BY <1>4, <2>3, Zenon DEF TimerFires
    <2> QED
      BY <1>1, <2>1, <2>4
  <1>5. CASE NotDue \/ EndSync \/ LoadFails
    BY <1>5, Zenon DEF NotDue, EndSync, LoadFails, EndRun
  <1>6. CASE BeginSync
    <2>1. UNCHANGED stale /\ Loaded # 0 /\ since >= Loaded
      BY <1>6 DEF BeginSync
    <2>2. since = 0
      BY <2>1 DEF StaleInv
    <2>3. Loaded \in Nat
      BY LoadedType
    <2> QED
      BY <2>1, <2>2, <2>3
  <1>7. CASE PreferencesChanged
    <2>1. since' = 0 /\ UNCHANGED phase
      BY <1>7 DEF PreferencesChanged
    <2>2. Outdated
      BY <1>7, Zenon DEF PreferencesChanged
    <2>3. phase = "load"
      BY <2>2, Zenon DEF Outdated, StaleInv
    <2> QED
      BY <2>1, <2>3
  <1> QED
    BY <1>2, <1>3, <1>4, <1>5, <1>6, <1>7, Zenon DEF Next

\* A run that has loaded settings that were replaced before preferencesChanged was last called
\* never begins a sync under them, for any intervals: the call takes back the time of the
\* last attempt, so that the run finds that nothing is due and the refresh follows.
THEOREM SyncsAreCurrent == Spec => SyncsUnderCurrentSettings
  <1> DEFINE Current == BeginSync => ~ stale
  <1>1. Spec => []ConfigTypeOK
    BY RunsConfigStore, ConfigTypeCorrect, PTL
  <1>2. Init => StaleInv
    BY Zenon DEF Init, StaleInv
  <1>3. ConfigTypeOK /\ StaleInv => [Current]_vars
    <2> SUFFICES ASSUME ConfigTypeOK, StaleInv, BeginSync, stale PROVE FALSE
      OBVIOUS
    <2>1. since = 0 /\ Loaded # 0 /\ since >= Loaded
      BY DEF StaleInv, BeginSync
    <2>2. Loaded \in Nat
      BY LoadedType
    <2> QED
      BY <2>1, <2>2
  <1> HIDE DEF Current
  <1>4. Spec => [][Current]_vars
    BY <1>1, <1>2, <1>3, StaleStep, PTL DEF Spec
  <1> QED
    BY <1>4 DEF Current, SyncsUnderCurrentSettings
===============================================================================
