----------------------------- MODULE MCConnections -----------------------------
(* The parts of the native library that work on connections of their own: the   *)
(* files of an SFTP task, connection attempts, the task registry, forwarding and *)
(* Telnet.  They share no state, so each behaviour moves one of them, the one in *)
(* `focus`, and leaves the others as they are: their states add up instead of    *)
(* multiplying.                                                                  *)
EXTENDS Connections

CONSTANTS x, y      \* two paths of one remote directory

VARIABLE focus
vars == <<focus, transferVars, connectVars, tasksVars, forwardVars, telnetVars>>

-----------------------------------------------------------------------------
(* What is asked for.                                                        *)

File(op, s, d, k, r) == [op |-> op, source |-> s, target |-> d, kind |-> k, replace |-> r]
(* An upload to x beside another request, every operation among them.        *)
MCPlans ==
  LET Up(k, r) == File("upload", x, x, k, r) IN
  {[t \in Tasks |-> IF t = 1 THEN p[1] ELSE p[2]] :
     p \in {<<Up("file", TRUE), Up("folder", TRUE)>>,
            <<Up("folder", TRUE), File("download", x, x, "file", FALSE)>>,
            <<Up("file", FALSE), File("move", x, y, "file", TRUE)>>,
            <<Up("file", TRUE), File("copy", x, y, "file", TRUE)>>,
            <<Up("file", TRUE), File("delete", y, y, "file", FALSE)>>,
            <<Up("file", FALSE), File("mkdir", x, y, "file", FALSE)>>}}

Connection(p, trust, via, st, k, w) ==
  [purpose |-> p, mode |-> FromU32(trust), proxy |-> NormalizeProxyConfig(via, TRUE),
   store |-> st, privateKey |-> k, password |-> w]
MCAttemptPlans ==
  {[a \in Attempts |-> IF a = 1 THEN first ELSE second] :
     first \in {Connection("terminal", 1, "none", TRUE, TRUE, FALSE),
                Connection("os", 1, "http", TRUE, FALSE, TRUE),
                Connection("sftp", 0, "none", TRUE, FALSE, TRUE),
                Connection("sudo", 2, "socks5", TRUE, TRUE, TRUE),
                Connection("complete", 0, "none", FALSE, FALSE, TRUE)},
     second \in {Connection("info", 0, "none", TRUE, FALSE, FALSE),
                 Connection("export", 1, "none", TRUE, TRUE, FALSE),
                 Connection("mosh", 1, "socks5", TRUE, TRUE, FALSE),
                 Connection("complete", 0, "none", TRUE, FALSE, TRUE)}}

(* Two privileged tasks, one of which may lack the password, or one beside a *)
(* listing or a task with a connection of its own.                           *)
MCTaskPlans ==
  {[t \in SftpTaskIds |-> IF t = 1 THEN [kind |-> "cached", password |-> TRUE] ELSE other] :
     other \in {[kind |-> "cached", password |-> TRUE], [kind |-> "cached", password |-> FALSE],
                [kind |-> "list", password |-> FALSE], [kind |-> "plain", password |-> FALSE]}}

-----------------------------------------------------------------------------
(* The state in which a component waits while another is in focus.           *)

TransferRests ==
  /\ remote = [p \in Paths |-> NoItem] /\ held = {}
  /\ task = [t \in Tasks |-> [request |-> File("mkdir", x, x, "file", FALSE), pc |-> "start",
                              kind |-> "file", left |-> {}, written |-> {},
                              result |-> "running"]]
  /\ stopping = [t \in Tasks |-> FALSE] /\ online = [t \in Tasks |-> TRUE]
  /\ faults = 0 /\ posix = TRUE
ConnectRests ==
  /\ knownHosts = <<>>
  /\ attempt = [a \in Attempts |->
                  [kind |-> Connection("info", 0, "none", TRUE, FALSE, FALSE),
                   pc |-> "start", key |-> "none", left |-> 0, events |-> {},
                   offered |-> {}, result |-> "running"]]
TasksRest ==
  /\ flags = [t \in SftpTaskIds |-> "none"]
  /\ sftpTask = [t \in SftpTaskIds |-> [kind |-> "plain", password |-> FALSE, pc |-> "start",
                                        held |-> NoSession, result |-> "running"]]
  /\ cached = NoSession /\ closing = NoSession /\ early = {}
  /\ session = [t \in SftpTaskIds |-> [open |-> FALSE, expired |-> FALSE, user |-> NoSession]]
TelnetRests ==
  /\ client = [local |-> WantInitially(InitialLocal), remote |-> WantInitially(InitialRemote),
               geometry |-> CHOOSE g \in WindowSizes : TRUE]
  /\ server = [us |-> [o \in TelnetOptions |-> "No"], him |-> [o \in TelnetOptions |-> "No"],
               size |-> 0]
  /\ toServer = InitialCommands /\ toClient = <<>> /\ initiatives = 0 /\ resizes = 0
  /\ bytes = ServerStream(<<>>, FALSE)

(* The byte layer of Telnet is a focus of its own.                           *)
Init ==
  /\ focus \in {"files", "connect", "tasks", "forward", "telnet", "bytes"}
  /\ IF focus = "files" THEN TransferInit /\ remote[x] # NoItem ELSE TransferRests
  /\ IF focus = "connect" THEN ConnectInit ELSE ConnectRests
  /\ IF focus = "tasks" THEN TasksInit ELSE TasksRest
  /\ ForwardInit
  /\ CASE focus = "telnet" -> TelnetInit /\ bytes = ServerStream(<<>>, FALSE)
       [] focus = "bytes" -> TelnetInit /\ client.geometry = CHOOSE g \in WindowSizes : TRUE
       [] OTHER -> TelnetRests

Next ==
  /\ UNCHANGED focus
  /\ \/ /\ focus = "files" /\ TransferNext
        /\ UNCHANGED <<connectVars, tasksVars, forwardVars, telnetVars>>
     \/ /\ focus = "connect" /\ ConnectNext
        /\ UNCHANGED <<transferVars, tasksVars, forwardVars, telnetVars>>
     \/ /\ focus = "tasks" /\ TasksNext
        /\ UNCHANGED <<transferVars, connectVars, forwardVars, telnetVars>>
     \/ /\ focus = "forward" /\ ForwardNext
        /\ UNCHANGED <<transferVars, connectVars, tasksVars, telnetVars>>
     \/ /\ \/ focus = "telnet" /\ TelnetNext
           \/ focus = "bytes" /\ ByteArrives
        /\ UNCHANGED <<transferVars, connectVars, tasksVars, forwardVars>>

Spec == Init /\ [][Next]_vars
================================================================================
