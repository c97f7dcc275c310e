----------------------------- MODULE PortForward -----------------------------
(***************************************************************************)
(* Port forwarding (port_forward.rs): the manager, whose calls run one at  *)
(* a time under its mutex, and the worker thread of each forward with the  *)
(* connections it carries.  A worker has a runtime of one thread: its own  *)
(* loop and its connections are steps of that thread, and no connection    *)
(* runs on after the loop has returned.                                    *)
(***************************************************************************)
EXTENDS Integers, FiniteSets

CONSTANTS
  Forwards,        \* ids of the forwarding rules
  ForwardWorkers,  \* worker threads that may be spawned
  Streams,         \* connections of one worker
  NoWorker

ASSUME ForwardAssumption ==
  NoWorker \notin ForwardWorkers /\ IsFiniteSet(Streams) /\ Forwards # {}

VARIABLES
  runtimes,    \* PortForwardManager.runtimes: id -> worker or NoWorker
  call,        \* the call that holds the manager's mutex
  forward      \* worker -> its thread, its status and its connections

forwardVars == <<runtimes, call, forward>>

ForwardTypes == {"local", "dynamic", "remote"}
Statuses == {"starting", "running", "stopped", "error"}
Idle == [op |-> "none", id |-> CHOOSE i \in Forwards : TRUE, type |-> "local", pc |-> "idle"]
Unborn == [type |-> "local", id |-> CHOOSE i \in Forwards : TRUE, pc |-> "unborn",
           stop |-> FALSE, holds |-> FALSE, online |-> FALSE,
           state |-> "starting", problem |-> FALSE, active |-> 0,
           streams |-> [s \in Streams |-> "free"]]

ForwardInit ==
  /\ runtimes = [i \in Forwards |-> NoWorker]
  /\ call = Idle
  /\ forward = [w \in ForwardWorkers |-> Unborn]

-----------------------------------------------------------------------------
(* The manager: start stops the rule's old worker first.                   *)

BeginCall(op, i, type) ==
  /\ call.pc = "idle"
  /\ call' = [op |-> op, id |-> i, type |-> type, pc |-> "stop"]
  /\ UNCHANGED <<runtimes, forward>>

NextPc == IF call.op = "start" THEN "spawn" ELSE "return"

(* set_status: anything but "running" forgets the connections.             *)
SetStatus(rec, state, problem) ==
  [rec EXCEPT !.state = state, !.problem = problem,
              !.active = IF state = "running" THEN @ ELSE 0]

TakeRuntime ==
  /\ call.pc = "stop"
  /\ IF runtimes[call.id] = NoWorker
     THEN call' = [call EXCEPT !.pc = NextPc] /\ UNCHANGED forward
     ELSE /\ call' = [call EXCEPT !.pc = "join"]
          /\ forward' = [forward EXCEPT ![runtimes[call.id]].stop = TRUE]
  /\ UNCHANGED runtimes

Gone(w) == forward[w].pc = "gone"
JoinsFirst == Gone(runtimes[call.id])
(* A plausible bug: the old worker is told to stop and not waited for.     *)
JoinsLater == runtimes[call.id] # NoWorker
WorkerJoined == JoinsFirst

JoinWorker ==
  /\ call.pc = "join" /\ WorkerJoined
  /\ forward' = [forward EXCEPT ![runtimes[call.id]] = SetStatus(@, "stopped", FALSE)]
  /\ runtimes' = [runtimes EXCEPT ![call.id] = NoWorker]
  /\ call' = [call EXCEPT !.pc = NextPc]

SpawnWorker ==
  /\ call.pc = "spawn"
  /\ \/ \E w \in ForwardWorkers :
          /\ forward[w].pc = "unborn"
          /\ forward' = [forward EXCEPT ![w] = [Unborn EXCEPT !.type = call.type,
                                                              !.id = call.id, !.pc = "connect"]]
          /\ runtimes' = [runtimes EXCEPT ![call.id] = w]
          /\ call' = [call EXCEPT !.pc = "settle"]
     \/ \* the thread cannot be spawned: the caller is told, nothing is kept
        /\ call' = [call EXCEPT !.pc = "return"]
        /\ UNCHANGED <<runtimes, forward>>

(* wait_for_initial_status: until the worker reports, two seconds at most. *)
InitialStatus ==
  /\ call.pc = "settle"
  /\ call' = [call EXCEPT !.pc = "return"]
  /\ UNCHANGED <<runtimes, forward>>

ReturnCall ==
  /\ call.pc = "return"
  /\ call' = Idle
  /\ UNCHANGED <<runtimes, forward>>

-----------------------------------------------------------------------------
(* The worker.                                                             *)

Thread(w, pc) == forward[w].pc = pc
Update(w, rec) == forward' = [forward EXCEPT ![w] = rec] /\ UNCHANGED <<runtimes, call>>
(* Returning from run_forward drops the listener, the SSH connection and   *)
(* the runtime with every connection in it.                                *)
Over(w, rec) ==
  [rec EXCEPT !.pc = "gone", !.holds = FALSE, !.online = FALSE,
              !.streams = [s \in Streams |-> "free"]]
Fails(w) == Update(w, Over(w, SetStatus(forward[w], "error", TRUE)))
Stops(w) == Update(w, Over(w, SetStatus(forward[w], "stopped", FALSE)))

(* connect_forward_ssh: fifteen seconds for the connection, a host key     *)
(* that is recorded, authentication; the stop flag is not read meanwhile.  *)
ConnectForward(w) ==
  /\ Thread(w, "connect")
  /\ \/ Update(w, [forward[w] EXCEPT !.pc = "bind", !.online = TRUE])
     \/ Fails(w)

Running(w) == SetStatus([forward[w] EXCEPT !.pc = "loop", !.holds = TRUE], "running", FALSE)

BindLocal(w) ==
  /\ Thread(w, "bind") /\ forward[w].type \in {"local", "dynamic"}
  /\ Update(w, Running(w)) \/ Fails(w)
RequestRemote(w) ==
  /\ Thread(w, "bind") /\ forward[w].type = "remote"
  /\ (forward[w].online /\ Update(w, Running(w))) \/ Fails(w)

(* The accept loops look at the stop flag every 80 ms, and at the SSH      *)
(* connection only when somebody connects.                                 *)
Accepting(w) == Thread(w, "loop") /\ forward[w].type # "remote"
LoopStops(w) ==
  /\ Accepting(w) /\ forward[w].stop
  /\ Stops(w)
LoopAcceptFails(w) ==
  /\ Accepting(w) /\ Fails(w)
LoopAccepts(w) ==
  /\ Accepting(w)
  /\ IF ~forward[w].online THEN Fails(w)
     ELSE \E s \in Streams :
            /\ forward[w].streams[s] = "free"
            /\ Update(w, [forward[w] EXCEPT
                 !.active = @ + 1,
                 !.streams[s] = IF forward[w].type = "dynamic" THEN "socks" ELSE "open"])

(* run_remote_forward watches both; a connection lost ends it as "stopped".*)
RemoteStops(w) ==
  /\ Thread(w, "loop") /\ forward[w].type = "remote"
  /\ forward[w].stop \/ ~forward[w].online
  /\ Stops(w)
(* The server hands over a connection, also before the worker has said     *)
(* that it runs.                                                           *)
ForwardedChannel(w) ==
  /\ forward[w].pc \in {"bind", "loop"} /\ forward[w].type = "remote" /\ forward[w].online
  /\ \E s \in Streams :
       /\ forward[w].streams[s] = "free"
       /\ Update(w, [forward[w] EXCEPT !.active = @ + 1, !.streams[s] = "dial"])

-----------------------------------------------------------------------------
(* The connections.                                                        *)

StreamAt(w, s, step) == forward[w].streams[s] = step
(* adjust_active_connections(-1) saturates at zero.                        *)
LeaveCounted(w, s) ==
  [forward[w] EXCEPT !.streams[s] = "free", !.active = IF @ > 0 THEN @ - 1 ELSE 0]
(* A plausible bug: a connection that ends stays counted.                  *)
LeaveUncounted(w, s) == [forward[w] EXCEPT !.streams[s] = "free"]
Leave(w, s) == LeaveCounted(w, s)
Complains(w, s) == Update(w, SetStatus(Leave(w, s), "running", TRUE))

(* read_socks5_destination: the client is refused, with or without a       *)
(* reply, or names a destination.                                          *)
ReadSocksDestination(w, s) ==
  /\ StreamAt(w, s, "socks")
  /\ Complains(w, s) \/ Update(w, [forward[w] EXCEPT !.streams[s] = "open"])
OpenChannel(w, s) ==
  /\ StreamAt(w, s, "open")
  /\ \/ Complains(w, s)
     \/ forward[w].online /\ Update(w, [forward[w] EXCEPT !.streams[s] = "proxy"])
(* A forwarded connection dials its destination; a refusal is not shown.   *)
DialDestination(w, s) ==
  /\ StreamAt(w, s, "dial")
  /\ Update(w, [forward[w] EXCEPT !.streams[s] = "proxy"]) \/ Update(w, Leave(w, s))
ProxyEnds(w, s) ==
  /\ StreamAt(w, s, "proxy")
  /\ Update(w, Leave(w, s))

SshConnectionCloses(w) ==
  /\ forward[w].online
  /\ Update(w, [forward[w] EXCEPT !.online = FALSE])

ForwardNext ==
  \/ \E i \in Forwards, type \in ForwardTypes : BeginCall("start", i, type)
  \/ \E i \in Forwards : BeginCall("stop", i, "local")
  \/ TakeRuntime \/ JoinWorker \/ SpawnWorker \/ InitialStatus \/ ReturnCall
  \/ \E w \in ForwardWorkers :
       \/ ConnectForward(w) \/ BindLocal(w) \/ RequestRemote(w)
       \/ LoopStops(w) \/ LoopAcceptFails(w) \/ LoopAccepts(w)
       \/ RemoteStops(w) \/ ForwardedChannel(w) \/ SshConnectionCloses(w)
       \/ \E s \in Streams :
            \/ ReadSocksDestination(w, s) \/ OpenChannel(w, s)
            \/ DialDestination(w, s) \/ ProxyEnds(w, s)

ForwardSpec == ForwardInit /\ [][ForwardNext]_forwardVars

ForwardTypeOK ==
  /\ runtimes \in [Forwards -> ForwardWorkers \cup {NoWorker}]
  /\ call.pc \in {"idle", "stop", "join", "spawn", "settle", "return"}
  /\ \A w \in ForwardWorkers :
       /\ forward[w].state \in Statuses
       /\ forward[w].active \in 0..Cardinality(Streams)
       /\ forward[w].stop \in BOOLEAN /\ forward[w].holds \in BOOLEAN

(* A rule's port is held by one worker at most, the one the manager knows  *)
(* for the rule: starting a rule again, or stopping it, never leaves the   *)
(* old listener behind.  And what the status shows as the number of        *)
(* connections is their number, across failures, forwarded connections     *)
(* that arrive early, and the end of the worker.                           *)
PortHeldOnce ==
  \A w \in ForwardWorkers :
    /\ forward[w].holds => runtimes[forward[w].id] = w
    /\ forward[w].active = Cardinality({s \in Streams : forward[w].streams[s] # "free"})
=============================================================================
