----------------------------- MODULE SyncScheduler -----------------------------
(***************************************************************************)
(* The automatic sync scheduler: one timer, at most one run at a time, and *)
(* the two calls that reach it from outside, when the user has changed the *)
(* sync settings and when the application closes.  A run loads the         *)
(* settings from the configuration file, whose saves and other loads go on *)
(* beside it, and then syncs or arms the timer for the time that remains.  *)
(*                                                                         *)
(* Time is counted in units of the shortest interval, and only as far as   *)
(* the longest.  Loads and saves take less than a unit.                    *)
(***************************************************************************)
EXTENDS ConfigStore, Integers

CONSTANTS
    Scheduler,      \* the loader that is the scheduler
    SyncPage,       \* the saver that is the sync settings page
    MaxInterval     \* the longest interval

\* A value of the sync section is the interval in units, and 0 when automatic sync is off.
ASSUME IntervalsAssumption ==
    /\ MaxInterval \in Nat \ {0}
    /\ SyncSettings \subseteq 0 .. MaxInterval
ASSUME PartiesAssumption == Scheduler \in Loaders /\ SyncPage \in Savers

VARIABLES
    timer,      \* units until the timer fires, or Off
    since,      \* units since _lastAttempt
    phase,      \* "none", "load" or "sync": the run in progress (_running)
    interval,   \* the interval that the sync in progress was started with
    refresh,    \* _refreshPending
    life,       \* "open", "closing" (close waits for the run) or "closed"
    wake,       \* a save of the sync settings is to be followed by preferencesChanged
    stale,      \* preferencesChanged was called after the run in progress had loaded other settings
    unwoken     \* a load failed, or settings were saved and the scheduler not told, since
                \* preferencesChanged was last called

runVars == <<timer, since, phase, interval, refresh, life>>
vars == <<configVars, runVars, wake, stale, unwoken>>

Off == -1
Time == 0 .. MaxInterval

TypeOK ==
    /\ ConfigTypeOK
    /\ timer \in Time \cup {Off}
    /\ since \in Time
    /\ phase \in {"none", "load", "sync"}
    /\ interval \in SyncSettings \cup {0}
    /\ refresh \in BOOLEAN
    /\ life \in {"open", "closing", "closed"}
    /\ wake \in BOOLEAN
    /\ stale \in BOOLEAN
    /\ unwoken \in BOOLEAN

\* start() has been called: the first tick is due at once.
Init ==
    /\ ConfigInit
    /\ timer = 0
    /\ since = 0
    /\ phase = "none"
    /\ interval = 0
    /\ refresh = FALSE
    /\ life = "open"
    /\ wake = FALSE
    /\ stale = FALSE
    /\ unwoken = FALSE

-----------------------------------------------------------------------------
(* Time and settings *)

Elapsed == IF since < MaxInterval THEN since + 1 ELSE since

\* A unit of time passes; a run that loads, a save and a wake-up do not last that long.
Tick ==
    /\ phase # "load" /\ queue = <<>> /\ ~ wake /\ life # "closed"
    /\ since' = Elapsed
    /\ timer' = IF timer > 0 THEN timer - 1 ELSE timer
    /\ UNCHANGED <<configVars, phase, interval, refresh, life, wake, stale, unwoken>>

\* The other loads, and the saves. A page that waits for its save changes nothing
\* else. Once close has returned the application ends.
Settings ==
    /\ life # "closed"
    /\ \/ \E p \in Loaders \ {Scheduler} : BeginLoad(p) \/ EndLoad(p)
       \/ \E p \in Savers : (p = SyncPage => ~ wake) /\ RequestSave(p)
       \/ \E p \in Loaders \cup Savers : Proceed(p)
    /\ IF op[SyncPage].step = "write" /\ op'[SyncPage].step = "idle"
       THEN \/ wake' = TRUE /\ UNCHANGED unwoken
            \* The active provider, saved beside it to the database, is not saved.
            \/ unwoken' = TRUE /\ UNCHANGED wake
       ELSE UNCHANGED <<wake, unwoken>>
    /\ UNCHANGED <<runVars, stale>>

-----------------------------------------------------------------------------
(* A run *)

\* The timer fires. A run in progress is left alone and a refresh noted.
TimerFires ==
    /\ timer = 0 /\ life = "open"
    /\ timer' = Off
    /\ IF phase = "none"
       THEN phase' = "load" /\ BeginLoad(Scheduler) /\ UNCHANGED refresh
       ELSE refresh' = TRUE /\ UNCHANGED <<phase, configVars>>
    /\ UNCHANGED <<since, interval, life, wake, stale, unwoken>>

\* The timer after a run that arms it with delay: not when closed, at once for a refresh.
Scheduled(delay) ==
    CASE life # "open" -> Off
      [] life = "open" /\ refresh -> 0
      [] OTHER -> delay

\* The run ends, and then whenComplete: a refresh that is pending is taken up.
EndRun(delay) ==
    /\ phase' = "none"
    /\ interval' = 0
    /\ stale' = FALSE
    /\ timer' = Scheduled(delay)
    /\ refresh' = (refresh /\ life # "open")

Loaded == op[Scheduler].config.sync

\* The settings say that no sync is due.
NotDue ==
    /\ phase = "load" /\ At(Scheduler, "loaded")
    /\ Loaded = 0 \/ since < Loaded
    /\ EndRun(IF Loaded = 0 THEN Off ELSE Loaded - since)
    /\ EndLoad(Scheduler)
    /\ UNCHANGED <<since, life, wake, unwoken>>

\* The interval has passed: the attempt begins, on an isolate of its own.
BeginSync ==
    /\ phase = "load" /\ At(Scheduler, "loaded")
    /\ Loaded # 0 /\ since >= Loaded
    /\ phase' = "sync"
    /\ interval' = Loaded
    /\ since' = 0
    /\ EndLoad(Scheduler)
    /\ UNCHANGED <<timer, refresh, life, wake, stale, unwoken>>

\* Success or failure, the next attempt is an interval away.
EndSync ==
    /\ phase = "sync"
    /\ EndRun(interval)
    /\ UNCHANGED <<configVars, since, life, wake, unwoken>>

\* The load throws: the run ends before it has armed the timer.
LoadFails ==
    /\ phase = "load" /\ At(Scheduler, "failed")
    /\ EndRun(Off)
    /\ unwoken' = (unwoken \/ timer' = Off)
    /\ EndLoad(Scheduler)
    /\ UNCHANGED <<since, life, wake>>

-----------------------------------------------------------------------------
(* From outside *)

\* The run in progress has loaded settings that are no longer those of the last save.
Outdated ==
    \/ stale
    \/ phase = "load" /\ At(Scheduler, "loaded") /\ Loaded # saved.sync

\* Mutants of PreferencesChanged: a run in progress is not followed by another; the time of
\* the last attempt stays.
PreferencesChangedOnce ==
    /\ wake /\ life = "open"
    /\ wake' = FALSE
    /\ stale' = Outdated
    /\ since' = 0
    /\ timer' = IF phase = "none" THEN 0 ELSE Off
    /\ unwoken' = FALSE
    /\ UNCHANGED <<configVars, phase, interval, refresh, life>>
PreferencesChangedInPlace ==
    /\ wake /\ life = "open"
    /\ wake' = FALSE
    /\ stale' = Outdated
    /\ timer' = IF phase = "none" THEN 0 ELSE Off
    /\ refresh' = (refresh \/ phase # "none")
    /\ unwoken' = FALSE
    /\ UNCHANGED <<configVars, since, phase, interval, life>>

PreferencesChanged ==
    /\ wake /\ life = "open"
    /\ wake' = FALSE
    /\ stale' = Outdated
    /\ since' = 0
    /\ timer' = IF phase = "none" THEN 0 ELSE Off
    /\ refresh' = (refresh \/ phase # "none")
    /\ unwoken' = FALSE
    /\ UNCHANGED <<configVars, phase, interval, life>>

\* close(): nothing is scheduled any more, and the run in progress is waited for.
Close ==
    /\ life = "open"
    /\ life' = "closing"
    /\ timer' = Off
    /\ refresh' = FALSE
    /\ UNCHANGED <<configVars, since, phase, interval, wake, stale, unwoken>>

\* Mutant of CloseReturns: the run is not waited for.
CloseReturnsAtOnce ==
    /\ life = "closing"
    /\ life' = "closed"
    /\ UNCHANGED <<configVars, timer, since, phase, interval, refresh, wake, stale, unwoken>>

CloseReturns ==
    /\ life = "closing" /\ phase = "none"
    /\ life' = "closed"
    /\ UNCHANGED <<configVars, timer, since, phase, interval, refresh, wake, stale, unwoken>>

Next ==
    \/ Tick
    \/ Settings
    \/ TimerFires
    \/ NotDue
    \/ BeginSync
    \/ EndSync
    \/ LoadFails
    \/ PreferencesChanged
    \/ Close
    \/ CloseReturns

Spec == Init /\ [][Next]_vars

\* Time passes, timers fire, file operations and syncs end, and the page that saved goes on.
Fairness ==
    /\ WF_vars(Tick) /\ WF_vars(TimerFires)
    /\ WF_vars(NotDue) /\ WF_vars(BeginSync) /\ WF_vars(EndSync) /\ WF_vars(LoadFails)
    /\ WF_vars(PreferencesChanged) /\ WF_vars(CloseReturns)
    /\ \A p \in Loaders \cup Savers : WF_vars(Settings /\ Proceed(p))

FairSpec == Spec /\ Fairness

-----------------------------------------------------------------------------
(* Properties *)

\* A timer and a run never exist together, so that no tick finds a run in progress; and once
\* close has returned, and the application ends, there is neither.
OneActivity ==
    /\ timer = Off \/ phase = "none"
    /\ life = "closed" => timer = Off /\ phase = "none"

\* A sync never begins under settings that were replaced before preferencesChanged was last
\* called, though its run had loaded them before.
SyncsUnderCurrentSettings == [][BeginSync => ~ stale]_vars

\* The settings and the schedule are at rest, and automatic sync is on.
Automatic ==
    /\ life = "open"
    /\ queue = <<>> /\ ~ wake
    /\ saved.sync # 0 /\ ~ defaulted

\* With automatic sync on, the active provider is synced again and again, unless a load of
\* the settings has failed or the save that turned it on did not reach the scheduler.
AutomaticUnlessUnwoken ==
    <>[](Automatic /\ ~ unwoken) => []<>(phase = "sync")
===============================================================================
