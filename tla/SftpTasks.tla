------------------------------ MODULE SftpTasks ------------------------------
(***************************************************************************)
(* The SFTP tasks and listings of the application (ssh.rs): the registry   *)
(* of cancel flags, the connection a task opens for itself, and the        *)
(* privileged sessions that are kept for fifteen minutes and shared by the *)
(* tasks of one pane.  What a task does over its connection is one step    *)
(* here; SftpTransfer refines it.                                          *)
(*                                                                         *)
(* Every task runs on a thread of its own.  A cached session is shared by  *)
(* reference: it can leave the cache, or be closed, while tasks still hold *)
(* it, and two tasks that find no session both open one.                   *)
(***************************************************************************)
EXTENDS Integers

CONSTANTS
  SftpTaskIds,  \* the tasks of the run; a cached session is named by the task that opened it
  TaskPlans,    \* the combinations explored: [SftpTaskIds -> TaskKinds]
  NoSession     \* nothing cached, no session held

(* What a caller asks for: a listing, a task over a connection of its own, *)
(* or one over the pane's privileged session, with its password or not.    *)
TaskKinds == [kind : {"plain", "list", "cached"}, password : BOOLEAN]

ASSUME SftpTasksAssumption ==
  NoSession \notin SftpTaskIds /\ TaskPlans \subseteq [SftpTaskIds -> TaskKinds]

VARIABLES
  flags,        \* SFTP_TASK_CANCEL_FLAGS: task -> "none" or the flag's value
  sftpTask,     \* task -> its record
  cached,       \* SUDO_SFTP_SESSIONS for the pane: the session or NoSession
  session,      \* session -> [open, expired, user]; `user` holds its lock
  closing,      \* the session that close_sudo_sftp_session has taken out
  early         \* the tasks cancelled before their request began (history)

tasksVars == <<flags, sftpTask, cached, session, closing, early>>

TasksInit ==
  /\ flags = [t \in SftpTaskIds |-> "none"]
  /\ \E plan \in TaskPlans :
       sftpTask = [t \in SftpTaskIds |->
                     [kind |-> plan[t].kind, password |-> plan[t].password, pc |-> "start",
                      held |-> NoSession, result |-> "running"]]
  /\ cached = NoSession
  /\ session = [t \in SftpTaskIds |-> [open |-> FALSE, expired |-> FALSE, user |-> NoSession]]
  /\ closing = NoSession
  /\ early = {}

-----------------------------------------------------------------------------
In(t, pc) == sftpTask[t].pc = pc
Held(t) == sftpTask[t].held
To(t, pc) == sftpTask' = [sftpTask EXCEPT ![t].pc = pc]
With(t, pc, s) == sftpTask' = [sftpTask EXCEPT ![t].pc = pc, ![t].held = s]
Ends(t, res) == sftpTask' = [sftpTask EXCEPT ![t].pc = "finish", ![t].result = res]
Free(s) == session[s].user = NoSession
Cancelled(t) == flags[t] = "set"

(* sftp_task_cancel_flag: the flag that a cancel left, or a new one.       *)
FlagOrNew(t) == IF flags[t] = "none" THEN "clear" ELSE flags[t]
(* A plausible bug: a task that begins always gets a new flag.             *)
FlagAnew(t) == IF flags[t] = "none" THEN "clear" ELSE "clear"
SftpTaskCancelFlag(t) == FlagOrNew(t)

(* execute_sftp_task_blocking_with_trust: a request it cannot parse, or a  *)
(* runtime that does not start, ends the task before it has a flag.        *)
BeginTask(t) ==
  /\ In(t, "start") /\ sftpTask[t].kind # "list"
  /\ \/ /\ sftpTask' = [sftpTask EXCEPT ![t].pc = "done", ![t].result = "error"]
        /\ UNCHANGED flags
     \/ /\ To(t, IF sftpTask[t].kind = "cached" THEN "lookup" ELSE "open")
        /\ flags' = [flags EXCEPT ![t] = SftpTaskCancelFlag(t)]
  /\ UNCHANGED <<cached, session, closing, early>>

BeginListing(t) ==
  /\ In(t, "start") /\ sftpTask[t].kind = "list"
  /\ \/ To(t, "open")
     \/ Ends(t, "error")
  /\ flags' = [flags EXCEPT ![t] = SftpTaskCancelFlag(t)]
  /\ UNCHANGED <<cached, session, closing, early>>

(* A listing reads its flag while it connects, a task only when it starts  *)
(* to work.                                                                *)
OpenOwn(t) ==
  /\ In(t, "open")
  /\ \/ ~(sftpTask[t].kind = "list" /\ Cancelled(t)) /\ To(t, "request")
     \/ Ends(t, "error")
  /\ UNCHANGED <<flags, cached, session, closing, early>>

(* execute_sftp_request (every operation reads the flag first, and then at *)
(* its own pace), after which the connection is closed.                    *)
PerformOwn(t) ==
  /\ In(t, "request")
  /\ \/ Ends(t, "error")
     \/ Cancelled(t) = FALSE /\ To(t, "working")
  /\ UNCHANGED <<flags, cached, session, closing, early>>
ConcludeOwn(t) ==
  /\ In(t, "working")
  /\ \E res \in {"ok", "error"} : Ends(t, res)
  /\ UNCHANGED <<flags, cached, session, closing, early>>

-----------------------------------------------------------------------------
(* execute_cached_sudo_sftp_task_blocking.                                 *)

LookupSession(t) ==
  /\ In(t, "lookup")
  /\ With(t, IF cached = NoSession THEN "authenticate" ELSE "age", cached)
  /\ UNCHANGED <<flags, cached, session, closing, early>>

(* The age is read under the session's lock, behind a task that uses it.   *)
CheckLifetime(t) ==
  /\ In(t, "age") /\ Free(Held(t))
  /\ To(t, IF session[Held(t)].expired THEN "expire" ELSE "acquire")
  /\ UNCHANGED <<flags, cached, session, closing, early>>

ExpireSession(t) ==
  /\ In(t, "expire")
  /\ IF cached = Held(t)
     THEN cached' = NoSession /\ To(t, "closeExpired")
     ELSE UNCHANGED cached /\ With(t, "authenticate", NoSession)
  /\ UNCHANGED <<flags, session, closing, early>>

CloseCachedSession(t) ==
  /\ In(t, "closeExpired") /\ Free(Held(t))
  /\ session' = [session EXCEPT ![Held(t)].open = FALSE]
  /\ With(t, "authenticate", NoSession)
  /\ UNCHANGED <<flags, cached, closing, early>>

(* open_sudo_sftp_session, and the insert that may replace the session of  *)
(* a task that found none either.                                          *)
Authenticate(t) ==
  /\ In(t, "authenticate")
  /\ \/ sftpTask[t].password /\ With(t, "insert", t)
        /\ session' = [session EXCEPT ![t].open = TRUE]
     \/ Ends(t, "error") /\ UNCHANGED session
  /\ UNCHANGED <<flags, cached, closing, early>>
InsertSession(t) ==
  /\ In(t, "insert")
  /\ cached' = Held(t)
  /\ To(t, "acquire")
  /\ UNCHANGED <<flags, session, closing, early>>

AcquireSession(t) ==
  /\ In(t, "acquire") /\ Free(Held(t))
  /\ session' = [session EXCEPT ![Held(t)].user = t]
  /\ To(t, "privileged")
  /\ UNCHANGED <<flags, cached, closing, early>>

(* The request under the session's lock; a failed transport is recognised  *)
(* by the wording of the error, or not: then the dead session stays.       *)
PerformPrivileged(t) ==
  /\ In(t, "privileged")
  /\ IF session[Held(t)].open
     THEN \/ ~Cancelled(t) /\ Ends(t, "ok")
          \/ Ends(t, "error")
     ELSE To(t, "forget") \/ Ends(t, "error")
  /\ session' = [session EXCEPT ![Held(t)].user = NoSession]
  /\ UNCHANGED <<flags, cached, closing, early>>

ForgetOwn(t) == cached' = IF cached = Held(t) THEN NoSession ELSE cached
(* A plausible bug: whatever is cached under the pane's name is dropped.   *)
ForgetAny(t) == cached' = IF cached = Held(t) THEN NoSession ELSE NoSession
Forget(t) == ForgetOwn(t)

ForgetFailed(t) ==
  /\ In(t, "forget")
  /\ Forget(t)
  /\ Ends(t, "error")
  /\ UNCHANGED <<flags, session, closing, early>>

-----------------------------------------------------------------------------
FinishTask(t) ==
  /\ In(t, "finish")
  /\ flags' = [flags EXCEPT ![t] = "none"]
  /\ To(t, "done")
  /\ UNCHANGED <<cached, session, closing, early>>

(* cancel_sftp_task leaves a flag also for a task that has not begun yet,  *)
(* and one that nobody removes for a task that is over.                    *)
Waiting(t) ==
  sftpTask[t].pc \in {"start", "open", "request", "lookup", "age", "expire", "closeExpired",
                      "authenticate", "insert", "acquire"}
CancelSftpTask(t) ==
  /\ flags' = [flags EXCEPT ![t] = "set"]
  /\ early' = IF Waiting(t) THEN early \cup {t} ELSE early
  /\ UNCHANGED <<sftpTask, cached, session, closing>>
(* cancel_all_sftp_tasks, at shutdown: only the flags that exist.          *)
CancelAllSftpTasks ==
  /\ flags' = [t \in SftpTaskIds |-> IF flags[t] = "none" THEN "none" ELSE "set"]
  /\ early' = early \cup {t \in SftpTaskIds : flags[t] # "none" /\ Waiting(t)}
  /\ UNCHANGED <<sftpTask, cached, session, closing>>

(* close_sudo_sftp_session takes the session out and then waits for it.    *)
CloseSudoSession ==
  /\ closing = NoSession /\ cached # NoSession
  /\ closing' = cached /\ cached' = NoSession
  /\ UNCHANGED <<flags, sftpTask, session, early>>
CloseTaken ==
  /\ closing # NoSession /\ Free(closing)
  /\ session' = [session EXCEPT ![closing].open = FALSE]
  /\ closing' = NoSession
  /\ UNCHANGED <<flags, sftpTask, cached, early>>

(* Fifteen minutes pass; the connection breaks.                            *)
SessionAges(s) ==
  /\ session[s].open /\ ~session[s].expired
  /\ session' = [session EXCEPT ![s].expired = TRUE]
  /\ UNCHANGED <<flags, sftpTask, cached, closing, early>>
SessionBreaks(s) ==
  /\ session[s].open
  /\ session' = [session EXCEPT ![s].open = FALSE]
  /\ UNCHANGED <<flags, sftpTask, cached, closing, early>>

TasksNext ==
  \/ \E t \in SftpTaskIds :
       \/ BeginTask(t) \/ BeginListing(t) \/ OpenOwn(t) \/ PerformOwn(t) \/ ConcludeOwn(t)
       \/ LookupSession(t) \/ CheckLifetime(t) \/ ExpireSession(t) \/ CloseCachedSession(t)
       \/ Authenticate(t) \/ InsertSession(t) \/ AcquireSession(t)
       \/ PerformPrivileged(t) \/ ForgetFailed(t)
       \/ FinishTask(t) \/ CancelSftpTask(t)
       \/ SessionAges(t) \/ SessionBreaks(t)
  \/ CancelAllSftpTasks \/ CloseSudoSession \/ CloseTaken

TasksSpec == TasksInit /\ [][TasksNext]_tasksVars

TasksTypeOK ==
  /\ flags \in [SftpTaskIds -> {"none", "clear", "set"}]
  /\ \A t \in SftpTaskIds :
       /\ sftpTask[t].held \in SftpTaskIds \cup {NoSession}
       /\ sftpTask[t].result \in {"running", "ok", "error"}
       /\ session[t] \in [open : BOOLEAN, expired : BOOLEAN, user : SftpTaskIds \cup {NoSession}]
  /\ cached \in SftpTaskIds \cup {NoSession}
  /\ closing \in SftpTaskIds \cup {NoSession}
  /\ early \subseteq SftpTaskIds

(* A cancel that comes before the work has begun is never lost, not even   *)
(* when it overtakes the call that starts the task: the task does not      *)
(* report success.                                                         *)
EarlyCancelWins == \A t \in early : sftpTask[t].result # "ok"

(* A session that works and is not too old leaves the cache only because   *)
(* the user closes it or another task puts a newer one in its place: the   *)
(* failure of an older session that a task still holds does not take it.   *)
SessionKept ==
  cached # NoSession /\ cached' = NoSession
    => \/ closing' = cached
       \/ session[cached].expired
       \/ ~session[cached].open
SudoSessionKept == [][SessionKept]_tasksVars
=============================================================================
