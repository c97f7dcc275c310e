----------------------------- MODULE SshConnect -----------------------------
(***************************************************************************)
(* Connection attempts to one SSH host: the TCP connection or the proxy in *)
(* front of it (ssh/proxy.rs), the check of the host key against the       *)
(* known_hosts file (ssh.rs), authentication (ssh/auth.rs), and what each  *)
(* kind of attempt does with the connection (ssh/probe.rs, ssh.rs).        *)
(*                                                                         *)
(* Attempts run on threads of their own and share the known_hosts file:    *)
(* the terminal, the file browser, the detection of the operating system   *)
(* and the host panel may all connect to a host that is not known yet.     *)
(* Keys of one algorithm are modelled; the server, or whoever answers at   *)
(* its address, presents any of them.                                      *)
(***************************************************************************)
EXTENDS Integers, Sequences

CONSTANTS
  Attempts,     \* the attempts of the run
  HostKeys,     \* the keys that may be presented
  AttemptPlans, \* the combinations of attempts explored: [Attempts -> AttemptKinds]
  MaxIdentities,\* bound: identities of the SSH agent
  MaxKnown      \* bound: lines of the host in known_hosts

ASSUME ConnectAssumption == MaxIdentities \in Nat /\ MaxKnown \in Nat \ {0}

VARIABLES
  knownHosts,   \* the host's keys, in the order of the file
  attempt       \* attempt -> its record

connectVars == <<knownHosts, attempt>>

TrustModes == {"Strict", "AcceptAndSave", "AcceptOnce"}
Purposes_ == {"terminal", "complete", "os", "info", "export", "mosh", "sftp", "sudo"}

(* HostKeyTrustMode::from_u32: whatever is not known means Strict.         *)
FromU32(n) == CASE n = 1 -> "AcceptAndSave" [] n = 2 -> "AcceptOnce" [] OTHER -> "Strict"

(* A proxy without a host or a port, or of another type, is no proxy: the  *)
(* connection is then a direct one.                                        *)
NormalizeProxyConfig(type, complete) ==
  IF complete /\ type \in {"http", "socks5"} THEN type ELSE "none"

(* What a caller asks for.                                                 *)
AttemptKinds ==
  [purpose : Purposes_, mode : TrustModes, proxy : {"none", "http", "socks5"},
   store : BOOLEAN, privateKey : BOOLEAN, password : BOOLEAN]

ASSUME AttemptPlansAssumption == AttemptPlans \subseteq [Attempts -> AttemptKinds]

ConnectInit ==
  /\ knownHosts \in {<<>>} \cup {<<k>> : k \in HostKeys}
  /\ \E plan \in AttemptPlans :
       attempt = [a \in Attempts |->
                    [kind |-> plan[a], pc |-> "start", key |-> "none", left |-> 0,
                     events |-> {}, offered |-> {}, result |-> "running"]]

-----------------------------------------------------------------------------
Kind(a) == attempt[a].kind
AtStep(a, pc) == attempt[a].pc = pc

Becomes(a, rec) == attempt' = [attempt EXCEPT ![a] = rec]
Proceed(a, pc, evs) == [attempt[a] EXCEPT !.pc = pc, !.events = @ \cup evs]
Offering(a, what, rec) == [rec EXCEPT !.offered = @ \cup {what}]
Finish(a, res, evs) == [Proceed(a, "done", evs) EXCEPT !.result = res]
(* start_mosh_server adds an "error" event to whatever was captured.       *)
GiveUp(a, evs) ==
  Finish(a, "error", evs \cup (IF Kind(a).purpose = "mosh" THEN {"error"} ELSE {}))

Either(a, recs) == (\E r \in recs : Becomes(a, r)) /\ UNCHANGED knownHosts

-----------------------------------------------------------------------------
(* Reaching the server.                                                    *)

(* Every call but the Mosh start, which has one, builds a runtime first.   *)
Asked(a, purpose) == AtStep(a, "start") /\ Kind(a).purpose = purpose
RuntimeStarts(a, next) == Either(a, {Proceed(a, next, {}), Finish(a, "error", {})})

ListDirectoryEntriesBlocking(a) == Asked(a, "complete") /\ RuntimeStarts(a, "connect")
DetectHostOsBlocking(a) == Asked(a, "os") /\ RuntimeStarts(a, "connect")
CollectHostSystemInfoBlocking(a) == Asked(a, "info") /\ RuntimeStarts(a, "connect")
ExportPublicKeyBlocking(a) == Asked(a, "export") /\ RuntimeStarts(a, "validate")
ListSftpDirectoryBlocking(a) == Asked(a, "sftp") /\ RuntimeStarts(a, "connect")
ExecuteSudoTaskBlocking(a) == Asked(a, "sudo") /\ RuntimeStarts(a, "connect")
RunSshWorker(a) == Asked(a, "terminal") /\ RuntimeStarts(a, "connect")
MoshConnectStart(a) ==
  Asked(a, "mosh") /\ Either(a, {Proceed(a, "connect", {"connect_start"})})

(* export_public_key refuses a key that is not one line of                 *)
(* authorized_keys, a location, a file name or a script it cannot pass on. *)
ValidateExport(a) ==
  /\ AtStep(a, "validate")
  /\ Either(a, {Proceed(a, "connect", {}), GiveUp(a, {})})

ConnectTcp(a) ==
  /\ AtStep(a, "connect")
  /\ Either(a, {GiveUp(a, {}),
                Proceed(a, CASE Kind(a).proxy = "none" -> "hostKey"
                             [] Kind(a).proxy = "http" -> "tunnel"
                             [] OTHER -> "greeting", {})})

ConnectHttpProxy(a) ==
  /\ AtStep(a, "tunnel")
  /\ Either(a, {Proceed(a, "hostKey", {}), GiveUp(a, {})})

(* A proxy may choose the password method whether it was offered or not;   *)
(* any other method ends the attempt.                                      *)
SocksGreeting(a) ==
  /\ AtStep(a, "greeting")
  /\ Either(a, {Proceed(a, "relay", {}), Proceed(a, "proxyAuth", {}), GiveUp(a, {})})
AuthenticateSocksProxy(a) ==
  /\ AtStep(a, "proxyAuth")
  /\ Either(a, {Proceed(a, "relay", {}), GiveUp(a, {})})
SocksConnect(a) ==
  /\ AtStep(a, "relay")
  /\ Either(a, {Proceed(a, "hostKey", {}), GiveUp(a, {})})

(* SSH_CONNECT_TIMEOUT spans everything up to the end of the handshake.    *)
ConnectTimesOut(a) ==
  /\ attempt[a].pc \in {"connect", "tunnel", "greeting", "proxyAuth", "relay", "hostKey"}
  /\ Either(a, {GiveUp(a, {})})

-----------------------------------------------------------------------------
(* The host key.                                                           *)

(* known_hosts::check_known_hosts_path: the first line of the host with a  *)
(* key of the presented algorithm decides.                                 *)
Recorded(k) ==
  IF knownHosts = <<>> THEN "unknown" ELSE IF Head(knownHosts) = k THEN "verified" ELSE "changed"

StrictStopsUnknown(a, k) ==
  CASE Kind(a).mode = "Strict" -> GiveUp(a, {"host_key_unknown"})
    [] Kind(a).mode = "AcceptOnce" -> Proceed(a, "authNone", {"host_key_accepted_for_session"})
    [] OTHER -> [Proceed(a, "learn", {}) EXCEPT !.key = k]

(* A plausible bug: the unknown key is only reported.                      *)
StrictReportsUnknown(a, k) ==
  CASE Kind(a).mode = "Strict" -> Proceed(a, "authNone", {"host_key_unknown"})
    [] Kind(a).mode = "AcceptOnce" -> Proceed(a, "authNone", {"host_key_accepted_for_session"})
    [] OTHER -> [Proceed(a, "learn", {}) EXCEPT !.key = k]

UnknownKey(a, k) == StrictStopsUnknown(a, k)

CheckServerKey(a) ==
  /\ AtStep(a, "hostKey")
  /\ \E k \in HostKeys :
       Either(a, IF ~Kind(a).store THEN {GiveUp(a, {"known_host_store_missing"})}
                 ELSE CASE Recorded(k) = "verified" -> {Proceed(a, "authNone", {"known_host_verified"})}
                        [] Recorded(k) = "unknown" -> {UnknownKey(a, k)}
                        [] Recorded(k) = "changed" -> {GiveUp(a, {"host_key_changed"})})

(* A known_hosts file that cannot be read rejects the key.                 *)
KnownHostsUnreadable(a) ==
  /\ AtStep(a, "hostKey") /\ Kind(a).store
  /\ Either(a, {GiveUp(a, {"host_key_rejected"})})

(* learn_known_hosts_path_without_leading_blank: the line goes through a   *)
(* BufWriter whose last write happens when it is dropped, where an error   *)
(* is not seen: the key counts as saved although the file lacks it.        *)
LearnKnownHost(a) ==
  /\ AtStep(a, "learn")
  /\ \/ /\ Becomes(a, GiveUp(a, {"host_key_save_failed"}))
        /\ UNCHANGED knownHosts
     \/ /\ Becomes(a, Proceed(a, "authNone", {"host_key_accepted"}))
        /\ \/ Len(knownHosts) < MaxKnown /\ knownHosts' = Append(knownHosts, attempt[a].key)
           \/ UNCHANGED knownHosts

-----------------------------------------------------------------------------
(* Authentication: none, then the configured key and nothing after it, or  *)
(* the password and then the agent's identities.                           *)

Authenticated(a) ==
  Proceed(a, IF Kind(a).purpose = "os" THEN "osShell" ELSE "use", {"auth_success"})
AfterNone(a) ==
  IF Kind(a).privateKey THEN "authKey" ELSE IF Kind(a).password THEN "authPassword" ELSE "authAgent"

AuthNone(a) ==
  /\ AtStep(a, "authNone")
  /\ Either(a, {Offering(a, "none", r) :
                  r \in {Authenticated(a), Proceed(a, AfterNone(a), {}), GiveUp(a, {})}})
AuthKey(a) ==
  /\ AtStep(a, "authKey")
  /\ Either(a, {GiveUp(a, {"auth_passphrase_required"}), GiveUp(a, {"auth_key_failed"})}
                 \cup {Offering(a, "key", r) :
                         r \in {Authenticated(a), GiveUp(a, {"auth_failed"}),
                                GiveUp(a, {"auth_key_failed"})}})
AuthPassword(a) ==
  /\ AtStep(a, "authPassword")
  /\ Either(a, {Offering(a, "password", r) :
                  r \in {Authenticated(a), Proceed(a, "authAgent", {}), GiveUp(a, {})}})
AuthAgent(a) ==
  \/ /\ AtStep(a, "authAgent")
     /\ Either(a, {GiveUp(a, {"auth_agent_failed"})}
                    \cup {[Proceed(a, "identity", {}) EXCEPT !.left = n] : n \in 0..MaxIdentities})
  \/ /\ AtStep(a, "identity") /\ attempt[a].left > 0
     /\ Either(a, {Offering(a, "identity", r) :
                     r \in {Authenticated(a), [attempt[a] EXCEPT !.left = @ - 1],
                            GiveUp(a, {"auth_agent_failed"})}})
  \/ /\ AtStep(a, "identity") /\ attempt[a].left = 0
     /\ Either(a, {GiveUp(a, {"auth_failed"})})

-----------------------------------------------------------------------------
(* Using the connection.                                                   *)

(* run_ssh_exec_command: an error or six seconds of silence, or what was   *)
(* written and the exit status.  A status that has not arrived when the    *)
(* output ends counts as 0.                                                *)
ExecResults == {[ran |-> FALSE, status |-> 0, out |-> FALSE]}
                 \cup [ran : {TRUE}, status : {0, 1}, out : BOOLEAN]

(* The login shell only selects the script for the Unix probe.             *)
ProbeShell(a) ==
  /\ AtStep(a, "osShell")
  /\ Either(a, {Proceed(a, "osRouter", {})})
DetectedRouter(r) == r.ran /\ r.status = 0 /\ r.out
ProbeRouter(a) ==
  /\ AtStep(a, "osRouter")
  /\ \E r \in ExecResults :
       \* a line that reads like an error message is no platform
       Either(a, {Proceed(a, "osUnix", {})}
                   \cup (IF DetectedRouter(r) THEN {Finish(a, "ok", {})} ELSE {}))
DetectedUnix(r) == r.ran /\ r.out
ProbeUnix(a) ==
  /\ AtStep(a, "osUnix")
  /\ \E r \in ExecResults :
       Either(a, {IF DetectedUnix(r) THEN Finish(a, "ok", {}) ELSE GiveUp(a, {})})

CollectInfo(a) ==
  /\ AtStep(a, "use") /\ Kind(a).purpose = "info"
  /\ \E r \in ExecResults :
       Either(a, {IF r.ran /\ r.out THEN Finish(a, "ok", {}) ELSE GiveUp(a, {})})
ExportKey(a) ==
  /\ AtStep(a, "use") /\ Kind(a).purpose = "export"
  /\ \E r \in ExecResults :
       Either(a, {IF r.ran /\ r.status = 0 THEN Finish(a, "ok", {}) ELSE GiveUp(a, {})})
StartMoshServer(a) ==
  /\ AtStep(a, "use") /\ Kind(a).purpose = "mosh"
  /\ \E r \in ExecResults :
       \* output without a complete MOSH CONNECT line is an error as well
       Either(a, {GiveUp(a, {})}
                   \cup (IF r.ran /\ r.status = 0 /\ r.out
                         THEN {Finish(a, "ok", {"mosh_bootstrap_ready"})} ELSE {}))
(* list_directory_entries runs its command without a time limit.           *)
ListDirectory(a) ==
  /\ AtStep(a, "use") /\ Kind(a).purpose = "complete"
  /\ \E r \in ExecResults :
       Either(a, {IF r.ran /\ r.status = 0 THEN Finish(a, "ok", {}) ELSE GiveUp(a, {})})

(* open_sftp_session: the channel, the subsystem, the SFTP handshake.      *)
OpenSftpSession(a) ==
  /\ AtStep(a, "use") /\ Kind(a).purpose = "sftp"
  /\ Either(a, {Finish(a, "ok", {}), GiveUp(a, {})})
(* open_sudo_sftp_session: the password goes to sudo, which has 12 seconds.*)
OpenSudoSftpSession(a) ==
  /\ AtStep(a, "use") /\ Kind(a).purpose = "sudo"
  /\ Either(a, {Offering(a, "sudo", r) : r \in {Finish(a, "ok", {}), GiveUp(a, {})}}
                 \cup {GiveUp(a, {})})

(* A terminal asks for the login shell first: a shell it knows is started  *)
(* by remote_interactive_shell_command, otherwise the server's default.    *)
DetectInteractiveShell(a) ==
  /\ AtStep(a, "use") /\ Kind(a).purpose = "terminal"
  /\ Either(a, {Proceed(a, "shell", {"known_shell"}), Proceed(a, "shell", {}), GiveUp(a, {})})
StartInteractiveShell(a) ==
  /\ AtStep(a, "shell")
  /\ Either(a, {Finish(a, "ok", {}), GiveUp(a, {})})

ConnectNext ==
  \E a \in Attempts :
    \/ ListDirectoryEntriesBlocking(a) \/ DetectHostOsBlocking(a)
    \/ CollectHostSystemInfoBlocking(a) \/ ExportPublicKeyBlocking(a)
    \/ ListSftpDirectoryBlocking(a) \/ ExecuteSudoTaskBlocking(a)
    \/ RunSshWorker(a) \/ MoshConnectStart(a)
    \/ ValidateExport(a) \/ ConnectTcp(a) \/ ConnectHttpProxy(a)
    \/ SocksGreeting(a) \/ AuthenticateSocksProxy(a) \/ SocksConnect(a) \/ ConnectTimesOut(a)
    \/ CheckServerKey(a) \/ KnownHostsUnreadable(a) \/ LearnKnownHost(a)
    \/ AuthNone(a) \/ AuthKey(a) \/ AuthPassword(a) \/ AuthAgent(a)
    \/ ProbeShell(a) \/ ProbeRouter(a) \/ ProbeUnix(a)
    \/ CollectInfo(a) \/ ExportKey(a) \/ StartMoshServer(a) \/ ListDirectory(a)
    \/ OpenSftpSession(a) \/ OpenSudoSftpSession(a)
    \/ DetectInteractiveShell(a) \/ StartInteractiveShell(a)

ConnectSpec == ConnectInit /\ [][ConnectNext]_connectVars

ConnectTypeOK ==
  /\ knownHosts \in Seq(HostKeys) /\ Len(knownHosts) <= MaxKnown
  /\ \A a \in Attempts :
       /\ Kind(a) \in AttemptKinds
       /\ attempt[a].key \in HostKeys \cup {"none"}
       /\ attempt[a].left \in 0..MaxIdentities
       /\ attempt[a].offered \subseteq {"none", "key", "password", "identity", "sudo"}
       /\ attempt[a].result \in {"running", "ok", "error"}
       /\ (attempt[a].pc = "done") = (attempt[a].result # "running")

(* No attempt offers a credential, and none succeeds, unless its own check *)
(* of the host key ended in trust: the key was recorded, or the user had   *)
(* agreed to an unknown one -- also while other attempts record keys of    *)
(* the same host between the check and the authentication.                 *)
Trusting == {"known_host_verified", "host_key_accepted", "host_key_accepted_for_session"}
Rejecting == {"known_host_store_missing", "host_key_unknown", "host_key_changed",
              "host_key_rejected", "host_key_save_failed"}
TrustBeforeCredentials ==
  \A a \in Attempts :
    attempt[a].offered # {} \/ attempt[a].result = "ok" =>
      /\ attempt[a].events \cap Trusting # {}
      /\ attempt[a].events \cap Rejecting = {}
=============================================================================
