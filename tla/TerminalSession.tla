---------------------------- MODULE TerminalSession ----------------------------
(***************************************************************************)
(* The native sessions: a manager behind one lock, and per connection a    *)
(* worker thread that shares an output buffer, a list of events, an exit   *)
(* flag and a slot for the wake-up callback with it.  The interface calls  *)
(* the manager from its thread and polls a session when it is woken.       *)
(*                                                                         *)
(* Output is counted in chunks of what one drain takes.  The remote side,  *)
(* and the Mosh library, which brings its own worker, do as they please.   *)
(***************************************************************************)
EXTENDS Integers, Sequences

CONSTANTS
    Sessions,       \* session identifiers, handed out once
    Workers,        \* the connections that may be made
    Sizes,          \* terminal geometries
    StartKind, StartSize,   \* what the fields of an unused record hold
    MaxChunks,      \* bound: chunks waiting in an output buffer
    MaxCommands,    \* bound: commands waiting for a worker
    MaxPollChunks,  \* MAX_POLL_OUTPUT_CHUNKS
    None

Kinds == {"local", "ssh", "telnet", "serial", "mosh"}

ASSUME KindsAssumption == StartKind \in Kinds
ASSUME SizesAssumption == Sizes \subseteq Nat \ {0} /\ StartSize \in Sizes
ASSUME BoundsAssumption == MaxChunks \in Nat /\ MaxCommands \in Nat /\ MaxPollChunks \in Nat \ {0}
ASSUME NoneAssumption == None \notin Workers \cup Sessions

VARIABLES
    session,    \* per session: life ("new", "open" or "closed"), kind, exited (of its
                \* engine), size (of its engine), wakeup, conn (its worker, or None)
    worker,     \* per connection: its thread and what it shares with the manager
    manager,    \* the call that holds the manager's lock
    wake,       \* sessions whose wake-up waits in the interface's queue
    runtime     \* "running", "stopping", "clearing" or "stopped"

vars == <<session, worker, manager, wake, runtime>>

Phases == {"free", "connecting", "up", "awaiting", "ending", "exited"}
Stages == {"output", "events", "exit", "library"}
Input == 0                  \* a command is the size to resize to, or input
Commands == Sizes \cup {Input}

SessionType == [life : {"new", "open", "closed"}, kind : Kinds, exited : BOOLEAN, size : Sizes,
                wakeup : BOOLEAN, conn : Workers \cup {None}]
WorkerType ==
    [kind : Kinds, owner : Sessions \cup {None}, phase : Phases, shutdown : BOOLEAN,
     buffered : 0..MaxChunks,           \* chunks in the output buffer
     news : BOOLEAN,                    \* events wait in the list
     commands : Seq(Commands),
     size : Sizes,                      \* the geometry that the remote side was told
     swallowed : BOOLEAN,               \* a resize was taken from the queue and not sent
     slot : BOOLEAN,                    \* the wake-up callback is set
     owes : BOOLEAN,                    \* the worker is about to notify
     calling : BOOLEAN]                 \* and now runs the callback, under the slot's lock
ManagerType == [op : {"idle", "poll", "join", "bootstrap"}, s : Sessions \cup {None},
                w : Workers \cup {None}, todo : Seq(Stages), taken : Nat, exit : BOOLEAN,
                more : BOOLEAN]

TypeOK ==
    /\ session \in [Sessions -> SessionType]
    /\ worker \in [Workers -> WorkerType]
    /\ manager \in ManagerType
    /\ wake \subseteq Sessions
    /\ runtime \in {"running", "stopping", "clearing", "stopped"}

Idle == [op |-> "idle", s |-> None, w |-> None, todo |-> <<>>, taken |-> 0, exit |-> FALSE,
         more |-> FALSE]

FreeWorker(kind, size) ==
    [kind |-> kind, owner |-> None, phase |-> "free", shutdown |-> FALSE, buffered |-> 0,
     news |-> FALSE, commands |-> <<>>, size |-> size, swallowed |-> FALSE,
     slot |-> FALSE, owes |-> FALSE, calling |-> FALSE]

Init ==
    /\ session = [s \in Sessions |-> [life |-> "new", kind |-> StartKind, exited |-> FALSE,
                                      size |-> StartSize, wakeup |-> FALSE, conn |-> None]]
    /\ worker = [w \in Workers |-> FreeWorker(StartKind, StartSize)]
    /\ manager = Idle
    /\ wake = {}
    /\ runtime = "running"

-----------------------------------------------------------------------------
(* Helpers *)

\* A worker between its steps has done what it owed.
At(w, phase) == worker[w].phase = phase /\ ~ worker[w].owes

Exited(w) == worker[w].phase = "exited"

\* The record that the next connection uses: any that is free would do.
Fresh(w) ==
    /\ worker[w].phase = "free"
    /\ w = CHOOSE x \in Workers : worker[x].phase = "free"

\* The transport that a connect returns. SSH and Telnet connect on the worker and
\* announce it; the others are open before their worker starts.
Spawned(kind, s, size, wakeup) ==
    LET onWorker == kind \in {"ssh", "telnet"} IN
    [FreeWorker(kind, size) EXCEPT
        !.owner = s, !.slot = wakeup, !.phase = IF onWorker THEN "connecting" ELSE "up",
        !.news = onWorker \/ kind = "mosh", !.owes = onWorker]

\* What dropping a transport does before it joins the worker.
Dropped(r) == [r EXCEPT !.slot = FALSE, !.shutdown = TRUE]

\* Commands are refused once the receiver is gone, which it is before the flag is set.
\* The Mosh library takes them itself.
Queue(r, command) ==
    CASE r.kind = "mosh" -> [r EXCEPT !.size = IF command = Input THEN @ ELSE command]
      [] r.kind # "mosh" /\ r.phase \in {"connecting", "up", "awaiting"} ->
            [r EXCEPT !.commands = Append(@, command)]
      [] OTHER -> r

\* notify_wakeup on the interface's own thread.
Woken(s, w) == IF worker[w].slot /\ runtime = "running" THEN wake \cup {s} ELSE wake

\* Mutant: the exit flag is read after the output, as for SSH.
TelnetDrainFlagLast == <<"output", "events", "exit">>

\* The order in which drain_output reads what a worker shares.
SshDrain == <<"output", "events", "exit">>
TelnetDrain == <<"exit", "output", "events">>
SerialDrain == <<"output", "exit", "events">>
LocalDrain == <<"output", "exit">>
MoshDrain == <<"library">>

DrainOrder(kind) ==
    CASE kind = "ssh"    -> SshDrain
      [] kind = "telnet" -> TelnetDrain
      [] kind = "serial" -> SerialDrain
      [] kind = "local"  -> LocalDrain
      [] kind = "mosh"   -> MoshDrain

Join(w) == [Idle EXCEPT !.op = "join", !.w = w]

-----------------------------------------------------------------------------
(* Calls of the interface *)

Open(s) == session[s].life = "open" /\ manager.op = "idle" /\ runtime = "running"

New(s) == session[s].life = "new" /\ manager.op = "idle" /\ runtime = "running"

\* insert: the session has its transport, and no callback yet.
Inserted(s, kind) ==
    \E w \in Workers, size \in Sizes :
        /\ Fresh(w)
        /\ worker' = [worker EXCEPT ![w] = Spawned(kind, s, size, FALSE)]
        /\ session' = [session EXCEPT ![s] =
                [life |-> "open", kind |-> kind, exited |-> FALSE, size |-> size,
                 wakeup |-> FALSE, conn |-> w]]

\* The transport did not start: the session is there, and has ended.
Disconnected(s, kind) ==
    /\ session' = [session EXCEPT ![s].life = "open", ![s].kind = kind, ![s].exited = TRUE]
    /\ UNCHANGED worker

\* A local session whose shell does not start is no session.
CreateLocal(s) ==
    New(s) /\ Inserted(s, "local") /\ UNCHANGED <<manager, wake, runtime>>

CreateSsh(s) ==
    /\ New(s)
    /\ Inserted(s, "ssh") \/ Disconnected(s, "ssh")
    /\ UNCHANGED <<manager, wake, runtime>>

CreateTelnet(s) ==
    /\ New(s)
    /\ Inserted(s, "telnet") \/ Disconnected(s, "telnet")
    /\ UNCHANGED <<manager, wake, runtime>>

\* The port is claimed and configured before the session is there.
CreateSerial(s) ==
    /\ New(s)
    /\ Inserted(s, "serial") \/ Disconnected(s, "serial")
    /\ UNCHANGED <<manager, wake, runtime>>

\* create_mosh starts the server over SSH with the lock held, ...
CreateMosh(s) ==
    /\ New(s)
    /\ manager' = [Idle EXCEPT !.op = "bootstrap", !.s = s]
    /\ UNCHANGED <<session, worker, wake, runtime>>

\* ... and so does reconnect_mosh, after taking the callback from the old transport.
ReconnectMosh(s) ==
    /\ Open(s) /\ session[s].kind = "mosh"
    /\ \A w \in Workers : session[s].conn = w => ~ worker[w].calling
    /\ worker' = [w \in Workers |->
            IF w = session[s].conn THEN [worker[w] EXCEPT !.slot = FALSE] ELSE worker[w]]
    /\ manager' = [Idle EXCEPT !.op = "bootstrap", !.s = s]
    /\ UNCHANGED <<session, wake, runtime>>

\* The transport that the session had is dropped.
Replace(s, w, r) ==
    LET old == session[s].conn IN
    /\ worker' = [x \in Workers |-> IF x = w THEN r
                                    ELSE IF x = old THEN Dropped(worker[x]) ELSE worker[x]]
    /\ manager' = IF old = None THEN Idle ELSE Join(old)

BootstrapEnds ==
    LET s == manager.s IN
    /\ manager.op = "bootstrap"
    /\ \/ \E w \in Workers :
            /\ Fresh(w)
            /\ Replace(s, w, Spawned("mosh", s, session[s].size, session[s].wakeup))
            /\ session' = [session EXCEPT ![s] = [@ EXCEPT
                    !.life = "open", !.kind = "mosh", !.exited = FALSE, !.conn = w]]
            /\ wake' = IF session[s].wakeup THEN wake \cup {s} ELSE wake
       \/ /\ Replace(s, None, None)
          /\ session' = [session EXCEPT ![s] = [@ EXCEPT
                    !.life = "open", !.kind = "mosh", !.exited = TRUE, !.conn = None]]
          /\ UNCHANGED wake
    /\ UNCHANGED runtime

\* Mutant: a new connection starts with the size of the first.
ReconnectSshFirstSize(s) ==
    /\ Open(s) /\ session[s].kind = "ssh"
    /\ \A w \in Workers : session[s].conn = w => ~ worker[w].calling
    /\ \E w \in Workers :
            /\ Fresh(w)
            /\ Replace(s, w, Spawned("ssh", s, StartSize, session[s].wakeup))
            /\ session' = [session EXCEPT ![s].exited = FALSE, ![s].conn = w]
    /\ wake' = IF session[s].wakeup THEN wake \cup {s} ELSE wake
    /\ UNCHANGED runtime

\* reconnect_ssh: the new worker runs before the old one is joined.
ReconnectSsh(s) ==
    /\ Open(s) /\ session[s].kind = "ssh"
    /\ \A w \in Workers : session[s].conn = w => ~ worker[w].calling
    /\ \/ \E w \in Workers :
            /\ Fresh(w)
            /\ Replace(s, w, Spawned("ssh", s, session[s].size, session[s].wakeup))
            /\ session' = [session EXCEPT ![s].exited = FALSE, ![s].conn = w]
            /\ wake' = IF session[s].wakeup THEN wake \cup {s} ELSE wake
       \/ /\ Replace(s, None, None)
          /\ session' = [session EXCEPT ![s].exited = TRUE, ![s].conn = None]
          /\ UNCHANGED wake
    /\ UNCHANGED runtime

\* Mutant: nothing is notified of what came before the callback.
SetWakeupCallbackSilently(s) ==
    /\ Open(s) /\ ~ session[s].wakeup
    /\ session' = [session EXCEPT ![s].wakeup = TRUE]
    /\ worker' = [w \in Workers |->
            IF w = session[s].conn THEN [worker[w] EXCEPT !.slot = TRUE] ELSE worker[w]]
    /\ UNCHANGED <<manager, wake, runtime>>

\* set_wakeup_callback, which notifies at once: there may be output already.
SetWakeupCallback(s) ==
    /\ Open(s) /\ ~ session[s].wakeup
    /\ session' = [session EXCEPT ![s].wakeup = TRUE]
    /\ worker' = [w \in Workers |->
            IF w = session[s].conn THEN [worker[w] EXCEPT !.slot = TRUE] ELSE worker[w]]
    /\ wake' = IF session[s].conn = None THEN wake ELSE wake \cup {s}
    /\ UNCHANGED <<manager, runtime>>

Resize(s, size) ==
    /\ Open(s) /\ session[s].size # size
    /\ session' = [session EXCEPT ![s].size = size]
    /\ \A w \in Workers : session[s].conn = w => Len(worker[w].commands) < MaxCommands
    /\ worker' = [w \in Workers |->
            IF w = session[s].conn /\ session[s].kind # "serial"
            THEN Queue(worker[w], size) ELSE worker[w]]
    /\ UNCHANGED <<manager, wake, runtime>>

SendInput(s) ==
    /\ Open(s) /\ session[s].conn # None
    /\ LET w == session[s].conn IN
        /\ Len(worker[w].commands) < MaxCommands
        /\ worker' = [worker EXCEPT ![w] = Queue(@, Input)]
        /\ worker' # worker
    /\ UNCHANGED <<session, manager, wake, runtime>>

\* Mutant: the slot is cleared while the callback runs.
CloseUnlocked(s) ==
    /\ Open(s)
    /\ session' = [session EXCEPT ![s].life = "closed", ![s].wakeup = FALSE, ![s].conn = None]
    /\ Replace(s, None, None)
    /\ wake' = wake \ {s}
    /\ UNCHANGED runtime

\* The callback is taken away, under the slot's lock, before the transport is dropped.
Close(s) ==
    /\ Open(s)
    /\ \A w \in Workers : session[s].conn = w => ~ worker[w].calling
    /\ session' = [session EXCEPT ![s].life = "closed", ![s].wakeup = FALSE, ![s].conn = None]
    /\ Replace(s, None, None)
    /\ wake' = wake \ {s}
    /\ UNCHANGED <<runtime>>

\* The worker that the lock's holder drops has returned, and its transport is freed.
JoinWorker ==
    /\ manager.op = "join" /\ At(manager.w, "exited")
    /\ worker' = [worker EXCEPT ![manager.w] = FreeWorker(StartKind, StartSize)]
    /\ manager' = Idle
    /\ UNCHANGED <<session, wake, runtime>>

\* nauterm_runtime_prepare_shutdown: no callback is called from here on ...
BeginShutdown ==
    /\ runtime = "running"
    /\ runtime' = "stopping"
    /\ UNCHANGED <<session, worker, manager, wake>>

\* ... every session loses the one it has ...
SilenceSessions ==
    /\ runtime = "stopping" /\ manager.op = "idle"
    /\ \A w \in Workers : ~ worker[w].calling
    /\ runtime' = "clearing"
    /\ session' = [s \in Sessions |-> [session[s] EXCEPT !.wakeup = FALSE]]
    /\ worker' = [w \in Workers |-> [worker[w] EXCEPT !.slot = FALSE]]
    /\ UNCHANGED <<manager, wake>>

\* ... and the sessions go, one joined after the other.
ClearSession(s) ==
    /\ runtime = "clearing" /\ manager.op = "idle" /\ session[s].life = "open"
    /\ session' = [session EXCEPT ![s].life = "closed", ![s].conn = None]
    /\ Replace(s, None, None)
    /\ UNCHANGED <<wake, runtime>>

EndShutdown ==
    /\ runtime = "clearing" /\ manager.op = "idle"
    /\ \A s \in Sessions : session[s].life # "open"
    /\ runtime' = "stopped"
    /\ UNCHANGED <<session, worker, manager, wake>>

-----------------------------------------------------------------------------
(* A poll, under the lock, of what the worker goes on writing *)

PollBegin(s) ==
    /\ s \in wake /\ Open(s)
    /\ wake' = wake \ {s}
    /\ manager' = IF session[s].conn = None THEN Idle
                  ELSE [Idle EXCEPT !.op = "poll", !.s = s, !.w = session[s].conn,
                                    !.todo = DrainOrder(session[s].kind)]
    /\ UNCHANGED <<session, worker, runtime>>

PollStage(stage) ==
    manager.op = "poll" /\ manager.todo # <<>> /\ Head(manager.todo) = stage

\* The rest of the drain, and the next drain while there is more.
Proceed(m) ==
    LET rest == Tail(m.todo) IN
    [m EXCEPT !.todo = IF rest = <<>> /\ m.more /\ m.taken < MaxPollChunks
                       THEN DrainOrder(worker[m.w].kind) ELSE rest]

DrainOutput ==
    LET w == manager.w
        left == worker[w].buffered
    IN
    /\ PollStage("output")
    /\ left > 1 => ~ worker[w].calling
    /\ worker' = [worker EXCEPT ![w].buffered = IF left > 0 THEN @ - 1 ELSE @]
    /\ manager' = Proceed([manager EXCEPT !.taken = @ + 1, !.more = left > 1])
    /\ wake' = IF left > 1 THEN Woken(manager.s, w) ELSE wake
    /\ UNCHANGED <<session, runtime>>

DrainEvents ==
    /\ PollStage("events")
    /\ worker' = [worker EXCEPT ![manager.w].news = FALSE]
    /\ manager' = Proceed(manager)
    /\ UNCHANGED <<session, wake, runtime>>

LoadExited ==
    /\ PollStage("exit")
    /\ manager' = Proceed([manager EXCEPT !.exit = Exited(manager.w)])
    /\ UNCHANGED <<session, worker, wake, runtime>>

\* The Mosh library hands out everything in one call.
DrainLibrary ==
    LET w == manager.w
        left == worker[w].buffered
    IN
    /\ PollStage("library")
    /\ left > 1 => ~ worker[w].calling
    /\ worker' = [worker EXCEPT ![w].buffered = IF left > 0 THEN @ - 1 ELSE @, ![w].news = FALSE]
    /\ manager' = Proceed([manager EXCEPT !.taken = @ + 1, !.more = left > 1, !.exit = Exited(w)])
    /\ wake' = IF left > 1 THEN Woken(manager.s, w) ELSE wake
    /\ UNCHANGED <<session, runtime>>

\* Mosh counts as ended only when nothing is left; the others as soon as the flag was seen.
PollExit == manager.exit /\ (worker[manager.w].kind = "mosh" => ~ manager.more)

\* Replies of the terminal to what was written go to the worker before it is dropped.
PollFinish ==
    LET s == manager.s
        w == manager.w
        replied == IF Len(worker[w].commands) < MaxCommands THEN Queue(worker[w], Input)
                   ELSE worker[w]
    IN
    /\ manager.op = "poll" /\ manager.todo = <<>>
    /\ \E r \in {worker[w], replied} :
        IF PollExit
        THEN /\ ~ worker[w].calling
             /\ session' = [session EXCEPT ![s].exited = TRUE, ![s].conn = None]
             /\ worker' = [worker EXCEPT ![w] = Dropped(r)]
             /\ manager' = Join(w)
        ELSE /\ worker' = [worker EXCEPT ![w] = r]
             /\ manager' = Idle
             /\ UNCHANGED session
    /\ UNCHANGED <<wake, runtime>>

-----------------------------------------------------------------------------
(* What every worker does *)

KindAt(w, kind, phase) == worker[w].kind = kind /\ At(w, phase)

Set(w, r) == worker' = [worker EXCEPT ![w] = r] /\ UNCHANGED <<session, manager, wake, runtime>>

\* push_event and append_output, each followed by notify_wakeup.
Push(r) == [r EXCEPT !.news = TRUE, !.owes = TRUE]
Append1(r) == [r EXCEPT !.buffered = @ + 1, !.owes = TRUE]

\* The first command is done; a size reaches the remote side.
Run(r) ==
    LET command == Head(r.commands) IN
    [r EXCEPT !.commands = Tail(@), !.size = IF command = Input THEN @ ELSE command,
              !.swallowed = @ /\ command = Input]

Ending(r) == [r EXCEPT !.phase = "ending"]

\* Mutant: connecting cannot be cancelled.
StopOnceConnected(w) ==
    /\ At(w, "up") /\ worker[w].shutdown
    /\ Set(w, Ending(worker[w]))

\* A worker sees the shutdown between its operations, and while it connects.
StopRequested(w) ==
    /\ At(w, "connecting") \/ At(w, "up")
    /\ worker[w].shutdown
    /\ Set(w, Ending(worker[w]))

\* Mutant: nothing notifies of the flag.
StoreExitedSilently(w) == At(w, "ending") /\ Set(w, [worker[w] EXCEPT !.phase = "exited"])

\* The last thing of every worker: the flag, and a notification.
StoreExited(w) == At(w, "ending") /\ Set(w, [worker[w] EXCEPT !.phase = "exited", !.owes = TRUE])

\* notify_wakeup: the callback is called under the slot's lock, if it is set and enabled.
Notify(w) ==
    /\ worker[w].owes /\ ~ worker[w].calling
    /\ Set(w, IF worker[w].slot /\ runtime = "running" THEN [worker[w] EXCEPT !.calling = TRUE]
              ELSE [worker[w] EXCEPT !.owes = FALSE])

\* The callback posts to the interface's queue and returns.
CallbackReturns(w) ==
    /\ worker[w].calling
    /\ worker' = [worker EXCEPT ![w].owes = FALSE, ![w].calling = FALSE]
    /\ wake' = wake \cup {worker[w].owner}
    /\ UNCHANGED <<session, manager, runtime>>

-----------------------------------------------------------------------------
(* SSH: one task that waits for the channel, for commands and for its ping *)

\* The host is reached, its key accepted, the user authenticated and the shell started.
SshConnects(w) ==
    KindAt(w, "ssh", "connecting") /\ Set(w, Push([worker[w] EXCEPT !.phase = "up"]))

SshFails(w) ==
    KindAt(w, "ssh", "connecting") /\ Set(w, Push(Ending(worker[w])))

\* wait_for_ssh_shutdown takes the commands that arrive before that.
SshSwallows(w) ==
    /\ KindAt(w, "ssh", "connecting") /\ worker[w].commands # <<>>
    /\ Set(w, [worker[w] EXCEPT
            !.commands = Tail(@), !.swallowed = @ \/ Head(worker[w].commands) # Input])

\* A command is sent, or waits for the remote side: for room in the channel's window,
\* or for the output of the history command.
SshRuns(w) ==
    /\ KindAt(w, "ssh", "up") /\ worker[w].commands # <<>>
    /\ \E phase \in {"up", "awaiting"} : Set(w, [Run(worker[w]) EXCEPT !.phase = phase])

SshSent(w) == KindAt(w, "ssh", "awaiting") /\ Set(w, [worker[w] EXCEPT !.phase = "up"])

\* Output, an exit status, or the answer to a ping. Bound: one of these events waits.
SshReceives(w) ==
    /\ KindAt(w, "ssh", "up")
    /\ \/ worker[w].buffered < MaxChunks /\ Set(w, Append1(worker[w]))
       \/ ~ worker[w].news /\ Set(w, Push(worker[w]))

\* The channel ends, or an operation on it fails.
SshEnds(w) ==
    /\ KindAt(w, "ssh", "up") \/ KindAt(w, "ssh", "awaiting")
    /\ Set(w, Push(Ending(worker[w])))

-----------------------------------------------------------------------------
(* Telnet: a loop over commands and a socket that does not block *)

TelnetConnects(w) ==
    KindAt(w, "telnet", "connecting") /\ Set(w, Push([worker[w] EXCEPT !.phase = "up"]))

TelnetFails(w) ==
    KindAt(w, "telnet", "connecting") /\ Set(w, Push(Ending(worker[w])))

TelnetRuns(w) ==
    KindAt(w, "telnet", "up") /\ worker[w].commands # <<>> /\ Set(w, Run(worker[w]))

TelnetReceives(w) ==
    /\ KindAt(w, "telnet", "up") /\ worker[w].buffered < MaxChunks
    /\ Set(w, Append1(worker[w]))

TelnetEnds(w) == KindAt(w, "telnet", "up") /\ Set(w, Push(Ending(worker[w])))

-----------------------------------------------------------------------------
(* Serial: the same over a device, with a slot for one error instead of events *)

SerialRuns(w) ==
    KindAt(w, "serial", "up") /\ worker[w].commands # <<>> /\ Set(w, Run(worker[w]))

SerialReceives(w) ==
    /\ KindAt(w, "serial", "up") /\ worker[w].buffered < MaxChunks
    /\ Set(w, Append1(worker[w]))

SerialEnds(w) ==
    KindAt(w, "serial", "up") /\ Set(w, [Ending(worker[w]) EXCEPT !.news = TRUE])

-----------------------------------------------------------------------------
(* A local shell *)

LocalRuns(w) ==
    KindAt(w, "local", "up") /\ worker[w].commands # <<>> /\ Set(w, Run(worker[w]))

LocalReceives(w) ==
    /\ KindAt(w, "local", "up") /\ worker[w].buffered < MaxChunks
    /\ Set(w, Append1(worker[w]))

LocalEnds(w) == KindAt(w, "local", "up") /\ Set(w, Ending(worker[w]))

-----------------------------------------------------------------------------
(* The Mosh library's worker *)

MoshSteps(w) ==
    /\ KindAt(w, "mosh", "up")
    /\ \/ worker[w].buffered < MaxChunks /\ Set(w, Append1(worker[w]))
       \/ Set(w, Push(Ending(worker[w])))

-----------------------------------------------------------------------------
\* What a worker does by itself ...
WorkerStep(w) ==
    \/ SshSwallows(w) \/ SshRuns(w) \/ TelnetRuns(w) \/ SerialRuns(w) \/ LocalRuns(w)
    \/ StopRequested(w) \/ StoreExited(w) \/ Notify(w) \/ CallbackReturns(w)

\* ... and what the remote side, the device or the child makes it do.
RemoteStep(w) ==
    \/ SshConnects(w) \/ SshFails(w) \/ SshSent(w) \/ SshReceives(w) \/ SshEnds(w)
    \/ TelnetConnects(w) \/ TelnetFails(w) \/ TelnetReceives(w) \/ TelnetEnds(w)
    \/ SerialReceives(w) \/ SerialEnds(w) \/ LocalReceives(w) \/ LocalEnds(w)
    \/ MoshSteps(w)

ManagerStep ==
    \/ DrainOutput \/ DrainEvents \/ LoadExited \/ DrainLibrary \/ PollFinish
    \/ JoinWorker

Call(s) ==
    \/ CreateLocal(s) \/ CreateSsh(s) \/ CreateTelnet(s) \/ CreateSerial(s) \/ CreateMosh(s)
    \/ ReconnectSsh(s) \/ ReconnectMosh(s) \/ SetWakeupCallback(s)
    \/ \E size \in Sizes : Resize(s, size)
    \/ SendInput(s)
    \/ Close(s)

Shutdown ==
    \/ BeginShutdown \/ SilenceSessions \/ EndShutdown
    \/ \E s \in Sessions : ClearSession(s)

Next ==
    \/ \E s \in Sessions : Call(s) \/ PollBegin(s)
    \/ ManagerStep \/ BootstrapEnds \/ Shutdown
    \/ \E w \in Workers : WorkerStep(w) \/ RemoteStep(w)

Spec == Init /\ [][Next]_vars

\* Threads run, and a wake-up is answered. Nothing is assumed of the remote side, nor of
\* a Mosh bootstrap: its connect and its command have time limits, its authentication
\* has none. The bounds keep what the remote side sends from filling every turn of a
\* worker's loop.
FairSpec ==
    /\ Spec
    /\ \A w \in Workers : WF_vars(WorkerStep(w))
    /\ WF_vars(ManagerStep)
    /\ \A s \in Sessions : WF_vars(PollBegin(s))
    /\ WF_vars(SilenceSessions \/ \E s \in Sessions : ClearSession(s))

-----------------------------------------------------------------------------
(* Properties *)

\* A Telnet or Mosh session that a poll ends has shown all output and passed on every
\* event, unless more was waiting than one poll takes: the flag is read before the
\* buffer, so nothing can be written in between. (SSH, serial and local sessions read
\* it after the buffer, and can lose what is written in between.)
EndsComplete ==
    [][\A s \in Sessions :
        /\ manager.op = "poll" /\ manager.s = s /\ session'[s].conn = None
        /\ session[s].kind \in {"telnet", "mosh"}
        => LET r == worker[manager.w] IN
            /\ ~ r.news
            /\ r.buffered = 0 \/ (r.kind = "telnet" /\ manager.taken = MaxPollChunks)
      ]_vars

\* Whatever waits for the interface has it woken: output, an event or the end of a
\* connection is never left without a wake-up in the queue, a notification that the
\* worker still owes, or a poll that will come to it.
NoLostWakeup ==
    \A s \in Sessions : \A w \in Workers :
        /\ session[s].life = "open" /\ session[s].wakeup /\ session[s].conn = w
        /\ runtime = "running" /\ manager.op # "bootstrap"
        /\ \/ worker[w].buffered > 0
           \/ worker[w].news /\ worker[w].phase # "ending"
           \/ Exited(w)
        => s \in wake \/ worker[w].owes \/ (manager.op = "poll" /\ manager.s = s)

\* A callback runs only for a session that is open with that callback and that worker:
\* once close, a reconnect or the shutdown has taken it away it is not running and is
\* not called again, so the interface may free it.
CallbackHasOwner ==
    \A w \in Workers : worker[w].calling =>
        LET s == worker[w].owner IN
        /\ session[s].life = "open" /\ session[s].wakeup /\ session[s].conn = w
        /\ runtime \in {"running", "stopping"}

\* The remote terminal has the size of the engine once the worker has run the commands,
\* also when sizes change while it connects or between two connections. Only SSH
\* drops a size that arrives while it connects.
RemoteSizeCurrent ==
    \A s \in Sessions : \A w \in Workers :
        /\ session[s].life = "open" /\ session[s].conn = w /\ worker[w].kind # "serial"
        /\ worker[w].phase = "up" /\ worker[w].commands = <<>>
        => worker[w].size = session[s].size \/ (worker[w].swallowed /\ worker[w].kind = "ssh")

\* An SSH worker waits for the remote side to take what it sends and sees no shutdown, or
\* a Mosh bootstrap, with the lock, waits for it to answer the authentication.
RemoteStalls == manager.op = "bootstrap" \/ \E w \in Workers : worker[w].phase = "awaiting"

\* A call returns the lock: a poll ends, and joining a worker does, whatever it was
\* doing, unless the remote side keeps the program waiting (see RemoteStalls).
CallsReturn == manager.op # "idle" ~> manager.op = "idle" \/ RemoteStalls

\* The end of a connection ends its session, unless the session gets another
\* connection or is closed first, or a call is stuck with the lock.
EndIsNoticed ==
    \A s \in Sessions : \A w \in Workers :
        Exited(w) /\ session[s].conn = w /\ session[s].wakeup
            ~> session[s].conn # w \/ RemoteStalls
================================================================================
