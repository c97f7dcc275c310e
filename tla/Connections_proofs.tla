-------------------------- MODULE Connections_proofs --------------------------
(***************************************************************************)
(* What holds of the parts of the native library that work on connections  *)
(* of their own, for every set of attempts, tasks, workers and streams:    *)
(* connection attempts (SshConnect), the registry of SFTP tasks            *)
(* (SftpTasks), port forwarding (PortForward), the files of an SFTP task   *)
(* (SftpTransfer) and Telnet negotiation (TelnetProtocol).                 *)
(***************************************************************************)
EXTENDS Connections, SequenceLemmas, TLAPS, FiniteSetTheorems, SequenceTheorems

-----------------------------------------------------------------------------
(* Connection attempts.  An attempt is in one of three conditions: it has  *)
(* not passed the check of the host key and offered nothing; it passed the *)
(* check and nothing has spoken against the key since; or it was turned    *)
(* away without having offered anything.                                   *)

Reaching ==
  {"start", "validate", "connect", "tunnel", "greeting", "proxyAuth", "relay", "hostKey", "learn"}
Admitted ==
  {"authNone", "authKey", "authPassword", "authAgent", "identity",
   "osShell", "osRouter", "osUnix", "use", "shell"}
EventNames ==
  Trusting \cup Rejecting
    \cup {"connect_start", "auth_success", "auth_failed", "auth_key_failed", "auth_agent_failed",
          "auth_passphrase_required", "mosh_bootstrap_ready", "known_shell", "error"}
AttemptRecords ==
  [kind : AttemptKinds, pc : Reaching \cup Admitted \cup {"done"},
   key : HostKeys \cup {"none"}, left : 0..MaxIdentities, events : SUBSET EventNames,
   offered : SUBSET {"none", "key", "password", "identity", "sudo"},
   result : {"running", "ok", "error"}]

Unchecked(r) ==
  /\ r \in AttemptRecords
  /\ r.pc \in Reaching /\ (r.pc = "learn" => r.key \in HostKeys)
  /\ r.offered = {} /\ r.result = "running"
  /\ r.events \cap Rejecting = {}
Trusted(r) ==
  /\ r \in AttemptRecords
  /\ r.pc \in Admitted \cup {"done"} /\ (r.pc = "done") = (r.result # "running")
  /\ r.events \cap Trusting # {} /\ r.events \cap Rejecting = {}
TurnedAway(r) ==
  /\ r \in AttemptRecords
  /\ r.pc = "done" /\ r.result = "error" /\ r.offered = {}
Sound(r) == Unchecked(r) \/ Trusted(r) \/ TurnedAway(r)

AttemptsInv ==
  /\ knownHosts \in Seq(HostKeys) /\ Len(knownHosts) <= MaxKnown
  /\ attempt \in [Attempts -> AttemptRecords]
  /\ \A a \in Attempts : Sound(attempt[a])

(* What the operators make of a record, for each condition it may be in.   *)
LEMMA ProceedUnchecked ==
  ASSUME NEW a, Unchecked(attempt[a]), NEW pc \in Reaching \ {"learn"},
         NEW evs \in SUBSET EventNames, evs \cap Rejecting = {}
  PROVE  Unchecked(Proceed(a, pc, evs))
BY DEF Unchecked, AttemptRecords, Proceed, Reaching, Admitted

LEMMA ProceedAdmitted ==
  ASSUME NEW a, Unchecked(attempt[a]), NEW pc \in Admitted,
         NEW ev \in Trusting
  PROVE  Trusted(Proceed(a, pc, {ev}))
<1>1. ev \in EventNames /\ ev \notin Rejecting  BY DEF Trusting, Rejecting, EventNames
<1>2. pc # "done"  BY DEF Admitted
<1> QED  BY <1>1, <1>2 DEF Unchecked, Trusted, AttemptRecords, Proceed

LEMMA ProceedTrusted ==
  ASSUME NEW a, Trusted(attempt[a]), attempt[a].pc # "done", NEW pc \in Admitted,
         NEW evs \in SUBSET EventNames, evs \cap Rejecting = {}
  PROVE  Trusted(Proceed(a, pc, evs))
<1>1. pc # "done"  BY DEF Admitted
<1> QED  BY <1>1 DEF Trusted, AttemptRecords, Proceed

LEMMA FinishTrusted ==
  ASSUME NEW a, Trusted(attempt[a]), NEW res \in {"ok", "error"},
         NEW evs \in SUBSET EventNames, evs \cap Rejecting = {}
  PROVE  Trusted(Finish(a, res, evs))
BY DEF Trusted, AttemptRecords, Proceed, Finish

LEMMA GiveUpTrusted ==
  ASSUME NEW a, Trusted(attempt[a]),
         NEW evs \in SUBSET EventNames, evs \cap Rejecting = {}
  PROVE  Trusted(GiveUp(a, evs))
<1> DEFINE all == evs \cup (IF Kind(a).purpose = "mosh" THEN {"error"} ELSE {})
<1>1. all \in SUBSET EventNames /\ all \cap Rejecting = {}  BY DEF Rejecting, EventNames
<1>2. GiveUp(a, evs) = Finish(a, "error", all)  BY DEF GiveUp
<1> QED  BY <1>1, <1>2, FinishTrusted

LEMMA GiveUpUnchecked ==
  ASSUME NEW a, Unchecked(attempt[a]), NEW evs \in SUBSET EventNames
  PROVE  TurnedAway(GiveUp(a, evs))
<1> DEFINE all == evs \cup (IF Kind(a).purpose = "mosh" THEN {"error"} ELSE {})
<1>1. all \in SUBSET EventNames  BY DEF EventNames
<1>2. GiveUp(a, evs) = Finish(a, "error", all)  BY DEF GiveUp
<1> HIDE DEF all
<1> QED  BY <1>1, <1>2 DEF Unchecked, TurnedAway, AttemptRecords, Proceed, Finish

LEMMA OfferingTrusted ==
  ASSUME NEW a, NEW r, Trusted(r), NEW what \in {"none", "key", "password", "identity", "sudo"}
  PROVE  Trusted(Offering(a, what, r))
BY DEF Trusted, AttemptRecords, Offering

LEMMA AuthenticatedTrusted ==
  ASSUME NEW a, Trusted(attempt[a]), attempt[a].pc # "done"
  PROVE  Trusted(Authenticated(a))
<1>1. {"auth_success"} \in SUBSET EventNames /\ {"auth_success"} \cap Rejecting = {}
  BY DEF Rejecting, EventNames
<1>2. {"osShell", "use"} \subseteq Admitted  BY DEF Admitted
<1> QED  BY <1>1, <1>2, ProceedTrusted DEF Authenticated

(* A step that puts a sound record in the place of an attempt's keeps all  *)
(* attempts sound.                                                         *)
LEMMA SoundStep ==
  ASSUME AttemptsInv, NEW a \in Attempts, NEW r, Sound(r), Becomes(a, r)
  PROVE  attempt' \in [Attempts -> AttemptRecords] /\ \A b \in Attempts : Sound(attempt'[b])
<1>1. r \in AttemptRecords  BY DEF Sound, Unchecked, Trusted, TurnedAway
<1> QED  BY <1>1 DEF AttemptsInv, Becomes

LEMMA EitherSound ==
  ASSUME AttemptsInv, NEW a \in Attempts, NEW recs, Either(a, recs), \A r \in recs : Sound(r)
  PROVE  AttemptsInv'
<1>1. PICK r \in recs : Becomes(a, r)  BY DEF Either
<1>2. attempt' \in [Attempts -> AttemptRecords] /\ \A b \in Attempts : Sound(attempt'[b])
  BY <1>1, SoundStep
<1>3. knownHosts' = knownHosts  BY DEF Either
<1> QED  BY <1>2, <1>3 DEF AttemptsInv

-----------------------------------------------------------------------------
(* The actions, one lemma per stage of an attempt.                         *)

LEMMA StagesApart == Reaching \cap Admitted = {} /\ "done" \notin Reaching \cup Admitted
BY DEF Reaching, Admitted

(* Where an attempt stands tells its condition.                            *)
LEMMA ConditionByStage ==
  ASSUME AttemptsInv, NEW a \in Attempts
  PROVE  /\ attempt[a] \in AttemptRecords
         /\ attempt[a].pc \in Reaching => Unchecked(attempt[a])
         /\ attempt[a].pc \in Admitted => Trusted(attempt[a]) /\ attempt[a].pc # "done"
BY StagesApart DEF AttemptsInv, Sound, Unchecked, Trusted, TurnedAway

Starting(a) ==
  \/ ListDirectoryEntriesBlocking(a) \/ DetectHostOsBlocking(a)
  \/ CollectHostSystemInfoBlocking(a) \/ ExportPublicKeyBlocking(a)
  \/ ListSftpDirectoryBlocking(a) \/ ExecuteSudoTaskBlocking(a)
  \/ RunSshWorker(a) \/ MoshConnectStart(a)
Dialling(a) ==
  \/ ValidateExport(a) \/ ConnectTcp(a) \/ ConnectHttpProxy(a)
  \/ SocksGreeting(a) \/ AuthenticateSocksProxy(a) \/ SocksConnect(a) \/ ConnectTimesOut(a)
Checking(a) == CheckServerKey(a) \/ KnownHostsUnreadable(a) \/ LearnKnownHost(a)
Authenticating(a) == AuthNone(a) \/ AuthKey(a) \/ AuthPassword(a) \/ AuthAgent(a)
Using(a) ==
  \/ ProbeShell(a) \/ ProbeRouter(a) \/ ProbeUnix(a)
  \/ CollectInfo(a) \/ ExportKey(a) \/ StartMoshServer(a) \/ ListDirectory(a)
  \/ OpenSftpSession(a) \/ OpenSudoSftpSession(a)
  \/ DetectInteractiveShell(a) \/ StartInteractiveShell(a)

LEMMA Stages ==
  ConnectNext =>
    \E a \in Attempts : Starting(a) \/ Dialling(a) \/ Checking(a) \/ Authenticating(a) \/ Using(a)
BY DEF ConnectNext, Starting, Dialling, Checking, Authenticating, Using

LEMMA StartingKeeps ==
  ASSUME AttemptsInv, NEW a \in Attempts, Starting(a)
  PROVE  AttemptsInv'
<1> DEFINE Next(pc, evs) == {Proceed(a, pc, evs), Finish(a, "error", {})}
<1>1. attempt[a].pc = "start"
  BY DEF Starting, ListDirectoryEntriesBlocking, DetectHostOsBlocking,
         CollectHostSystemInfoBlocking, ExportPublicKeyBlocking, ListSftpDirectoryBlocking,
         ExecuteSudoTaskBlocking, RunSshWorker, MoshConnectStart, Asked, AtStep
<1>2. Unchecked(attempt[a])  BY <1>1, ConditionByStage DEF Reaching
<1>3. \A pc \in {"connect", "validate"}, evs \in {{}, {"connect_start"}} :
         Unchecked(Proceed(a, pc, evs))
  <2>1. {} \in SUBSET EventNames /\ {"connect_start"} \in SUBSET EventNames
        /\ {"connect_start"} \cap Rejecting = {}
    BY DEF EventNames, Rejecting
  <2>2. {"connect", "validate"} \subseteq Reaching \ {"learn"}  BY DEF Reaching
  <2> QED  BY <1>2, <2>1, <2>2, ProceedUnchecked
<1>4. TurnedAway(Finish(a, "error", {}))
  BY <1>2 DEF Unchecked, TurnedAway, AttemptRecords, Proceed, Finish
<1>5. \E pc \in {"connect", "validate"}, evs \in {{}, {"connect_start"}} :
         \E recs \in SUBSET Next(pc, evs) : Either(a, recs)
  BY DEF Starting, ListDirectoryEntriesBlocking, DetectHostOsBlocking,
         CollectHostSystemInfoBlocking, ExportPublicKeyBlocking, ListSftpDirectoryBlocking,
         ExecuteSudoTaskBlocking, RunSshWorker, MoshConnectStart, RuntimeStarts
<1> QED  BY <1>3, <1>4, <1>5, EitherSound DEF Sound

(* What every lemma below needs of the sets of events it names.            *)
LEMMA PlainEvents ==
  /\ {} \in SUBSET EventNames /\ {} \cap Rejecting = {}
  /\ \A ev \in Rejecting : {ev} \in SUBSET EventNames
  /\ \A ev \in {"auth_failed", "auth_key_failed", "auth_agent_failed",
                "auth_passphrase_required", "mosh_bootstrap_ready", "known_shell"} :
       {ev} \in SUBSET EventNames /\ {ev} \cap Rejecting = {}
BY DEF EventNames, Rejecting

LEMMA DiallingKeeps ==
  ASSUME AttemptsInv, NEW a \in Attempts, Dialling(a)
  PROVE  AttemptsInv'
<1> DEFINE Steps == {"connect", "hostKey", "tunnel", "greeting", "relay", "proxyAuth"}
<1> DEFINE Outcomes == {GiveUp(a, {})} \cup {Proceed(a, pc, {}) : pc \in Steps}
<1>1. attempt[a].pc \in Reaching
  BY DEF Dialling, ValidateExport, ConnectTcp, ConnectHttpProxy, SocksGreeting,
         AuthenticateSocksProxy, SocksConnect, ConnectTimesOut, AtStep, Reaching
<1>2. Unchecked(attempt[a])  BY <1>1, ConditionByStage
<1>3. Steps \subseteq Reaching \ {"learn"}  BY DEF Reaching
<1>4. \A r \in Outcomes : Sound(r)
  BY <1>2, <1>3, PlainEvents, ProceedUnchecked, GiveUpUnchecked DEF Sound
<1>5. \E recs \in SUBSET Outcomes : Either(a, recs)
  <2>1. CASE ValidateExport(a)
    <3> WITNESS {Proceed(a, "connect", {}), GiveUp(a, {})} \in SUBSET Outcomes
    <3> QED  BY <2>1 DEF ValidateExport
  <2>2. CASE ConnectTcp(a)
    <3> DEFINE pc == CASE Kind(a).proxy = "none" -> "hostKey"
                       [] Kind(a).proxy = "http" -> "tunnel"
                       [] OTHER -> "greeting"
    <3>1. pc \in Steps  OBVIOUS
    <3>2. Either(a, {GiveUp(a, {}), Proceed(a, pc, {})})  BY <2>2 DEF ConnectTcp
    <3> HIDE DEF pc, Steps
    <3> QED  BY <3>1, <3>2
  <2>3. CASE ConnectHttpProxy(a) \/ SocksConnect(a)
    <3> WITNESS {Proceed(a, "hostKey", {}), GiveUp(a, {})} \in SUBSET Outcomes
    <3> QED  BY <2>3 DEF ConnectHttpProxy, SocksConnect
  <2>4. CASE SocksGreeting(a)
    <3> WITNESS {Proceed(a, "relay", {}), Proceed(a, "proxyAuth", {}), GiveUp(a, {})}
                  \in SUBSET Outcomes
    <3> QED  BY <2>4 DEF SocksGreeting
  <2>5. CASE AuthenticateSocksProxy(a)
    <3> WITNESS {Proceed(a, "relay", {}), GiveUp(a, {})} \in SUBSET Outcomes
    <3> QED  BY <2>5 DEF AuthenticateSocksProxy
  <2>6. CASE ConnectTimesOut(a)
    <3> WITNESS {GiveUp(a, {})} \in SUBSET Outcomes
    <3> QED  BY <2>6 DEF ConnectTimesOut
  <2> QED  BY <2>1, <2>2, <2>3, <2>4, <2>5, <2>6 DEF Dialling
<1> HIDE DEF Outcomes
<1> QED  BY <1>4, <1>5, EitherSound

(* Every answer to the presented key either ends the attempt or lets it on *)
(* with an event that says why; only a key to be saved goes on without.    *)
LEMMA CheckServerKeyKeeps ==
  ASSUME AttemptsInv, NEW a \in Attempts, CheckServerKey(a)
  PROVE  AttemptsInv'
<1>1. Unchecked(attempt[a])
  BY ConditionByStage DEF CheckServerKey, AtStep, Reaching
<1>2. \A ev \in Rejecting : Sound(GiveUp(a, {ev}))
  BY <1>1, PlainEvents, GiveUpUnchecked DEF Sound
<1>3. \A ev \in Trusting : Sound(Proceed(a, "authNone", {ev}))
  <2>1. "authNone" \in Admitted  BY DEF Admitted
  <2> QED  BY <1>1, <2>1, ProceedAdmitted DEF Sound
<1>4. \A k \in HostKeys : Sound([Proceed(a, "learn", {}) EXCEPT !.key = k])
  BY <1>1 DEF Sound, Unchecked, AttemptRecords, Proceed, Reaching
<1>5. \A k \in HostKeys : Sound(UnknownKey(a, k))
  <2>1. "host_key_unknown" \in Rejecting /\ "host_key_accepted_for_session" \in Trusting
    BY DEF Rejecting, Trusting
  <2> QED  BY <1>2, <1>3, <1>4, <2>1 DEF UnknownKey, StrictStopsUnknown
<1>6. {"known_host_store_missing", "host_key_changed"} \subseteq Rejecting
      /\ "known_host_verified" \in Trusting
  BY DEF Rejecting, Trusting
<1> DEFINE Outcomes(k) ==
      IF ~Kind(a).store THEN {GiveUp(a, {"known_host_store_missing"})}
      ELSE CASE Recorded(k) = "verified" -> {Proceed(a, "authNone", {"known_host_verified"})}
             [] Recorded(k) = "unknown" -> {UnknownKey(a, k)}
             [] Recorded(k) = "changed" -> {GiveUp(a, {"host_key_changed"})}
<1>7. PICK k \in HostKeys : Either(a, Outcomes(k))  BY DEF CheckServerKey
<1>8. Recorded(k) \in {"verified", "unknown", "changed"}  BY DEF Recorded
<1>9. \A r \in Outcomes(k) : Sound(r)  BY <1>2, <1>3, <1>5, <1>6, <1>8
<1> HIDE DEF Outcomes
<1> QED  BY <1>7, <1>9, EitherSound

LEMMA LearnKnownHostKeeps ==
  ASSUME AttemptsInv, NEW a \in Attempts, LearnKnownHost(a)
  PROVE  AttemptsInv'
<1>1. Unchecked(attempt[a]) /\ attempt[a].key \in HostKeys
  BY ConditionByStage DEF LearnKnownHost, AtStep, Reaching, Unchecked
<1>2. Sound(GiveUp(a, {"host_key_save_failed"}))
  BY <1>1, PlainEvents, GiveUpUnchecked DEF Sound, Rejecting
<1>3. Sound(Proceed(a, "authNone", {"host_key_accepted"}))
  BY <1>1, ProceedAdmitted DEF Sound, Admitted, Trusting
<1>4. PICK r \in {GiveUp(a, {"host_key_save_failed"}),
                  Proceed(a, "authNone", {"host_key_accepted"})} : Becomes(a, r)
  BY DEF LearnKnownHost
<1>5. attempt' \in [Attempts -> AttemptRecords] /\ \A b \in Attempts : Sound(attempt'[b])
  BY <1>2, <1>3, <1>4, SoundStep
<1>6. knownHosts' \in Seq(HostKeys) /\ Len(knownHosts') <= MaxKnown
  BY <1>1, ConnectAssumption DEF AttemptsInv, LearnKnownHost
<1> QED  BY <1>5, <1>6 DEF AttemptsInv

LEMMA CheckingKeeps ==
  ASSUME AttemptsInv, NEW a \in Attempts, Checking(a)
  PROVE  AttemptsInv'
<1>1. CASE KnownHostsUnreadable(a)
  <2>1. Unchecked(attempt[a])
    BY <1>1, ConditionByStage DEF KnownHostsUnreadable, AtStep, Reaching
  <2>2. Sound(GiveUp(a, {"host_key_rejected"}))
    BY <2>1, PlainEvents, GiveUpUnchecked DEF Sound, Rejecting
  <2> QED  BY <1>1, <2>2, EitherSound DEF KnownHostsUnreadable
<1> QED  BY <1>1, CheckServerKeyKeeps, LearnKnownHostKeeps DEF Checking

LEMMA AuthenticatingKeeps ==
  ASSUME AttemptsInv, NEW a \in Attempts, Authenticating(a)
  PROVE  AttemptsInv'
<1>1. Trusted(attempt[a]) /\ attempt[a].pc # "done"
  BY ConditionByStage
  DEF Authenticating, AuthNone, AuthKey, AuthPassword, AuthAgent, AtStep, Admitted
<1> DEFINE Speaks == {"auth_failed", "auth_key_failed", "auth_agent_failed",
                      "auth_passphrase_required"}
<1>2. Trusted(GiveUp(a, {})) /\ \A ev \in Speaks : Trusted(GiveUp(a, {ev}))
  BY <1>1, PlainEvents, GiveUpTrusted
<1>3. Trusted(Authenticated(a))  BY <1>1, AuthenticatedTrusted
<1>4. \A pc \in {"authKey", "authPassword", "authAgent", "identity"} : Trusted(Proceed(a, pc, {}))
  <2>1. {"authKey", "authPassword", "authAgent", "identity"} \subseteq Admitted  BY DEF Admitted
  <2> QED  BY <1>1, <2>1, PlainEvents, ProceedTrusted
<1>5. \A n \in 0..MaxIdentities : Trusted([Proceed(a, "identity", {}) EXCEPT !.left = n])
  <2> TAKE n \in 0..MaxIdentities
  <2> DEFINE rec == Proceed(a, "identity", {})
  <2>1. Trusted(rec)  BY <1>4
  <2> HIDE DEF rec
  <2>2. Trusted([rec EXCEPT !.left = n])  BY <2>1 DEF Trusted, AttemptRecords
  <2> QED  BY <2>2 DEF rec
<1>6. attempt[a].left > 0 => Trusted([attempt[a] EXCEPT !.left = @ - 1])
  BY <1>1, ConnectAssumption DEF Trusted, AttemptRecords
<1>7. CASE AuthNone(a)
  <2>1. AfterNone(a) \in {"authKey", "authPassword", "authAgent"}  BY DEF AfterNone
  <2> DEFINE recs == {Authenticated(a), Proceed(a, AfterNone(a), {}), GiveUp(a, {})}
  <2>2. \A r \in recs : Trusted(r)  BY <1>2, <1>3, <1>4, <2>1
  <2>3. Either(a, {Offering(a, "none", r) : r \in recs})  BY <1>7 DEF AuthNone
  <2> HIDE DEF recs
  <2> QED  BY <2>2, <2>3, OfferingTrusted, EitherSound DEF Sound
<1>8. CASE AuthKey(a)
  <2> DEFINE recs == {Authenticated(a), GiveUp(a, {"auth_failed"}), GiveUp(a, {"auth_key_failed"})}
  <2> DEFINE shut == {GiveUp(a, {"auth_passphrase_required"}), GiveUp(a, {"auth_key_failed"})}
  <2>2. (\A r \in recs : Trusted(r)) /\ \A r \in shut : Trusted(r)  BY <1>2, <1>3
  <2>3. Either(a, shut \cup {Offering(a, "key", r) : r \in recs})  BY <1>8 DEF AuthKey
  <2> HIDE DEF recs, shut
  <2> QED  BY <2>2, <2>3, OfferingTrusted, EitherSound DEF Sound
<1>9. CASE AuthPassword(a)
  <2> DEFINE recs == {Authenticated(a), Proceed(a, "authAgent", {}), GiveUp(a, {})}
  <2>2. \A r \in recs : Trusted(r)  BY <1>2, <1>3, <1>4
  <2>3. Either(a, {Offering(a, "password", r) : r \in recs})  BY <1>9 DEF AuthPassword
  <2> HIDE DEF recs
  <2> QED  BY <2>2, <2>3, OfferingTrusted, EitherSound DEF Sound
<1>10. CASE AuthAgent(a)
  <2> DEFINE found == {[Proceed(a, "identity", {}) EXCEPT !.left = n] : n \in 0..MaxIdentities}
  <2> DEFINE recs == {Authenticated(a), [attempt[a] EXCEPT !.left = @ - 1],
                      GiveUp(a, {"auth_agent_failed"})}
  <2>1. CASE Either(a, {GiveUp(a, {"auth_agent_failed"})} \cup found)
    <3>1. \A r \in {GiveUp(a, {"auth_agent_failed"})} \cup found : Sound(r)
      BY <1>2, <1>5 DEF Sound
    <3> HIDE DEF found
    <3> QED  BY <2>1, <3>1, EitherSound
  <2>2. CASE attempt[a].left > 0 /\ Either(a, {Offering(a, "identity", r) : r \in recs})
    <3>1. \A r \in recs : Trusted(r)  BY <1>2, <1>3, <1>6, <2>2
    <3> HIDE DEF recs
    <3> QED  BY <2>2, <3>1, OfferingTrusted, EitherSound DEF Sound
  <2>3. CASE Either(a, {GiveUp(a, {"auth_failed"})})
    BY <1>2, <2>3, EitherSound DEF Sound
  <2> QED  BY <1>10, <2>1, <2>2, <2>3 DEF AuthAgent
<1> QED  BY <1>7, <1>8, <1>9, <1>10 DEF Authenticating

LEMMA UsingKeeps ==
  ASSUME AttemptsInv, NEW a \in Attempts, Using(a)
  PROVE  AttemptsInv'
<1> DEFINE Plain == {GiveUp(a, {}), Finish(a, "ok", {}), Finish(a, "ok", {"mosh_bootstrap_ready"}),
                     Proceed(a, "osRouter", {}), Proceed(a, "osUnix", {}),
                     Proceed(a, "shell", {"known_shell"}), Proceed(a, "shell", {})}
<1> DEFINE Outcomes == Plain \cup {Offering(a, "sudo", r) : r \in Plain}
<1>1. Trusted(attempt[a]) /\ attempt[a].pc # "done"
  BY ConditionByStage
  DEF Using, ProbeShell, ProbeRouter, ProbeUnix, CollectInfo, ExportKey, StartMoshServer,
      ListDirectory, OpenSftpSession, OpenSudoSftpSession, DetectInteractiveShell,
      StartInteractiveShell, AtStep, Admitted
<1>2. \A r \in Plain : Trusted(r)
  <2>1. {"osRouter", "osUnix", "shell"} \subseteq Admitted  BY DEF Admitted
  <2> QED  BY <1>1, <2>1, PlainEvents, GiveUpTrusted, FinishTrusted, ProceedTrusted
<1>3. \A r \in Outcomes : Sound(r)
  <2> HIDE DEF Plain
  <2> QED  BY <1>2, OfferingTrusted DEF Sound
<1>4. \E recs \in SUBSET Outcomes : Either(a, recs)
  <2>1. CASE OpenSudoSftpSession(a)
    <3> DEFINE recs == {Offering(a, "sudo", r) : r \in {Finish(a, "ok", {}), GiveUp(a, {})}}
                         \cup {GiveUp(a, {})}
    <3>1. recs \in SUBSET Outcomes  OBVIOUS
    <3> QED  BY <2>1, <3>1 DEF OpenSudoSftpSession
  <2>2. CASE ProbeRouter(a)
    <3>1. Either(a, {Proceed(a, "osUnix", {})})
            \/ Either(a, {Proceed(a, "osUnix", {})} \cup {Finish(a, "ok", {})})
      BY <2>2 DEF ProbeRouter, Either
    <3> QED  BY <3>1
  <2>3. CASE StartMoshServer(a)
    <3>1. Either(a, {GiveUp(a, {})})
            \/ Either(a, {GiveUp(a, {})} \cup {Finish(a, "ok", {"mosh_bootstrap_ready"})})
      BY <2>3 DEF StartMoshServer, Either
    <3> QED  BY <3>1
  <2>4. CASE ProbeUnix(a) \/ CollectInfo(a) \/ ExportKey(a) \/ ListDirectory(a)
    <3>1. Either(a, {Finish(a, "ok", {})}) \/ Either(a, {GiveUp(a, {})})
      BY <2>4 DEF ProbeUnix, CollectInfo, ExportKey, ListDirectory
    <3> QED  BY <3>1
  <2>5. CASE ProbeShell(a)
    <3>1. Either(a, {Proceed(a, "osRouter", {})})  BY <2>5 DEF ProbeShell
    <3> QED  BY <3>1
  <2>6. CASE OpenSftpSession(a) \/ StartInteractiveShell(a)
    <3>1. Either(a, {Finish(a, "ok", {}), GiveUp(a, {})})
      BY <2>6 DEF OpenSftpSession, StartInteractiveShell
    <3> QED  BY <3>1
  <2>7. CASE DetectInteractiveShell(a)
    <3>1. Either(a, {Proceed(a, "shell", {"known_shell"}), Proceed(a, "shell", {}), GiveUp(a, {})})
      BY <2>7 DEF DetectInteractiveShell
    <3> QED  BY <3>1
  <2> QED  BY <2>1, <2>2, <2>3, <2>4, <2>5, <2>6, <2>7 DEF Using
<1> HIDE DEF Outcomes
<1> QED  BY <1>3, <1>4, EitherSound

LEMMA AttemptsInvHolds == ConnectSpec => []AttemptsInv
<1>1. ConnectInit => AttemptsInv
  <2> SUFFICES ASSUME ConnectInit PROVE AttemptsInv  OBVIOUS
  <2>1. PICK plan \in AttemptPlans :
          attempt = [a \in Attempts |->
                       [kind |-> plan[a], pc |-> "start", key |-> "none", left |-> 0,
                        events |-> {}, offered |-> {}, result |-> "running"]]
    BY DEF ConnectInit
  <2>2. ASSUME NEW a \in Attempts PROVE Unchecked(attempt[a])
    <3>1. plan[a] \in AttemptKinds  BY <2>1, AttemptPlansAssumption
    <3>2. 0 \in 0..MaxIdentities /\ {} \cap Rejecting = {}  BY ConnectAssumption
    <3>3. "start" \in Reaching /\ "start" # "learn"  BY DEF Reaching
    <3> QED  BY <2>1, <3>1, <3>2, <3>3 DEF Unchecked, AttemptRecords
  <2>3. \A a \in Attempts : attempt[a] \in AttemptRecords  BY <2>2 DEF Unchecked
  <2>4. knownHosts \in Seq(HostKeys) /\ Len(knownHosts) <= MaxKnown
    <3>1. knownHosts = <<>> \/ \E k \in HostKeys : knownHosts = <<k>>  BY DEF ConnectInit
    <3>2. CASE knownHosts = <<>>  BY <3>2, ConnectAssumption
    <3>3. CASE \E k \in HostKeys : knownHosts = <<k>>
      <4>1. PICK k \in HostKeys : knownHosts = <<k>>  BY <3>3
      <4>2. <<k>> \in Seq(HostKeys) /\ Len(<<k>>) = 1  OBVIOUS
      <4> QED  BY <4>1, <4>2, ConnectAssumption
    <3> QED  BY <3>1, <3>2, <3>3
  <2> QED  BY <2>1, <2>2, <2>3, <2>4 DEF AttemptsInv, Sound
<1>2. AttemptsInv /\ [ConnectNext]_connectVars => AttemptsInv'
  <2>1. ASSUME AttemptsInv, ConnectNext PROVE AttemptsInv'
    BY <2>1, Stages, StartingKeeps, DiallingKeeps, CheckingKeeps, AuthenticatingKeeps, UsingKeeps
  <2>2. ASSUME AttemptsInv, UNCHANGED connectVars PROVE AttemptsInv'
    BY <2>2 DEF AttemptsInv, connectVars
  <2> QED  BY <2>1, <2>2
<1> QED  BY <1>1, <1>2, PTL DEF ConnectSpec

(* The types of the records of all attempts and of the known_hosts file,   *)
(* whose lines of the host stay within the bound.                          *)
THEOREM ConnectTyped == ConnectSpec => []ConnectTypeOK
<1>1. AttemptsInv => ConnectTypeOK
  BY StagesApart DEF AttemptsInv, ConnectTypeOK, Sound, Unchecked, Trusted, TurnedAway,
     AttemptRecords, Kind
<1> QED  BY <1>1, AttemptsInvHolds, PTL

(* No attempt offers a credential or succeeds unless its own check of the  *)
(* host key (check_server_key in ssh.rs) ended in trust, whatever the      *)
(* other attempts write to known_hosts meanwhile.                          *)
THEOREM CredentialsAfterTrust == ConnectSpec => []TrustBeforeCredentials
<1>1. AttemptsInv => TrustBeforeCredentials
  BY DEF AttemptsInv, TrustBeforeCredentials, Sound, Unchecked, Trusted, TurnedAway
<1> QED  BY <1>1, AttemptsInvHolds, PTL

-----------------------------------------------------------------------------
(* SFTP tasks.  What a task holds, and what it has found out about it.     *)

TaskSteps ==
  {"start", "open", "request", "working", "lookup", "age", "expire", "closeExpired",
   "authenticate", "insert", "acquire", "privileged", "forget", "finish", "done"}
TaskRecords ==
  [kind : {"plain", "list", "cached"}, password : BOOLEAN, pc : TaskSteps,
   held : SftpTaskIds \cup {NoSession}, result : {"running", "ok", "error"}]
SessionRecords ==
  [open : BOOLEAN, expired : BOOLEAN, user : SftpTaskIds \cup {NoSession}]

TasksTyped ==
  /\ flags \in [SftpTaskIds -> {"none", "clear", "set"}]
  /\ sftpTask \in [SftpTaskIds -> TaskRecords]
  /\ session \in [SftpTaskIds -> SessionRecords]
  /\ cached \in SftpTaskIds \cup {NoSession}
  /\ closing \in SftpTaskIds \cup {NoSession}
  /\ early \subseteq SftpTaskIds

(* A task has its result when it is over, and a task that was cancelled    *)
(* early still has its flag until then and did not come to work.           *)
Ended(t) == sftpTask[t].pc \in {"finish", "done"}
EarlyInv ==
  /\ \A t \in SftpTaskIds : ~Ended(t) => sftpTask[t].result = "running"
  /\ \A t \in early : /\ sftpTask[t].pc # "working" /\ sftpTask[t].result # "ok"
                      /\ ~Ended(t) => flags[t] = "set"

(* The session of a task exists once the task is past its authentication,  *)
(* to which it does not return.                                            *)
OpenedSteps == {"insert", "acquire", "privileged", "forget", "finish", "done"}
HoldingSteps == {"age", "expire", "closeExpired", "insert", "acquire", "privileged", "forget"}
HasOpened(s) == sftpTask[s].pc \in OpenedSteps
Holding(t) == sftpTask[t].pc \in HoldingSteps
SessionsInv ==
  /\ \A t \in SftpTaskIds : Holding(t) => Held(t) \in SftpTaskIds
  /\ \A t \in SftpTaskIds : Held(t) # NoSession => HasOpened(Held(t))
  /\ cached # NoSession => HasOpened(cached)
(* What a task has found out about the session it holds stays true.        *)
VerdictsInv ==
  \A t \in SftpTaskIds :
    /\ sftpTask[t].pc = "expire" => session[Held(t)].expired
    /\ sftpTask[t].pc = "forget" => ~session[Held(t)].open
TasksInv == TasksTyped /\ EarlyInv /\ SessionsInv /\ VerdictsInv

(* One task moves, the others stay as they are.                            *)
Moved(t, pc, ses, res) ==
  /\ sftpTask' \in [SftpTaskIds -> TaskRecords]
  /\ sftpTask'[t].pc = pc /\ sftpTask'[t].held = ses /\ sftpTask'[t].result = res
  /\ \A u \in SftpTaskIds \ {t} : sftpTask'[u] = sftpTask[u]

LEMMA TaskMoves ==
  ASSUME TasksTyped, NEW t \in SftpTaskIds, NEW pc \in TaskSteps,
         NEW ses \in SftpTaskIds \cup {NoSession}, NEW res \in {"running", "ok", "error"}
  PROVE  /\ To(t, pc) => Moved(t, pc, Held(t), sftpTask[t].result)
         /\ With(t, pc, ses) => Moved(t, pc, ses, sftpTask[t].result)
         /\ Ends(t, res) => Moved(t, "finish", Held(t), res)
         /\ sftpTask' = [sftpTask EXCEPT ![t].pc = pc, ![t].result = res]
              => Moved(t, pc, Held(t), res)
<1>1. "finish" \in TaskSteps  BY DEF TaskSteps
<1> QED  BY <1>1 DEF TasksTyped, TaskRecords, To, With, Ends, Moved, Held


(* What the steps of a task have in common, enough for the invariant: the  *)
(* record it leaves, and how flags, sessions and the cache may move.       *)
FlagsStay(t) == early' = early /\ \A u \in early : flags[u] = "set" => flags'[u] = "set"
CacheFollows(ses) == cached' \in {NoSession, cached, ses}
SessionsStay(t) ==
  \A u \in SftpTaskIds :
    /\ session[u].expired => session'[u].expired
    /\ session'[u].open => session[u].open \/ (u = t /\ ~HasOpened(t))
Leads(t, pc, ses, res) ==
  /\ pc \notin {"finish", "done"} => res = "running"
  /\ Ended(t) => pc \in {"finish", "done"}
  /\ t \in early => pc # "working" /\ res # "ok"
  /\ pc \in HoldingSteps => ses \in SftpTaskIds
  /\ HasOpened(t) => pc \in OpenedSteps
  /\ ses # NoSession => (ses = t /\ pc \in OpenedSteps) \/ HasOpened(ses)
  /\ pc = "expire" => session'[ses].expired
  /\ pc = "forget" => ~session'[ses].open

LEMMA EarlyKept ==
  ASSUME TasksInv, NEW t \in SftpTaskIds, NEW pc, NEW ses, NEW res,
         Moved(t, pc, ses, res), Leads(t, pc, ses, res), FlagsStay(t)
  PROVE  EarlyInv'
<1>1. ASSUME NEW u \in SftpTaskIds PROVE (~Ended(u) => sftpTask[u].result = "running")'
  <2>1. CASE u = t  BY <2>1 DEF Moved, Leads, Ended
  <2>2. CASE u # t  BY <2>2 DEF Moved, TasksInv, EarlyInv, Ended
  <2> QED  BY <2>1, <2>2
<1>2. ASSUME NEW u \in early
      PROVE  /\ sftpTask'[u].pc # "working" /\ sftpTask'[u].result # "ok"
             /\ Ended(u)' \/ flags'[u] = "set"
  <2>0. u \in SftpTaskIds  BY DEF TasksInv, TasksTyped
  <2>1. Ended(u) \/ flags'[u] = "set"  BY DEF TasksInv, EarlyInv, FlagsStay
  <2>2. CASE u = t  BY <2>1, <2>2 DEF Moved, Leads, Ended
  <2>3. CASE u # t  BY <2>0, <2>1, <2>3 DEF Moved, TasksInv, EarlyInv, Ended
  <2> QED  BY <2>2, <2>3
<1> QED  BY <1>1, <1>2 DEF EarlyInv, FlagsStay

LEMMA SessionsKept ==
  ASSUME TasksInv, NEW t \in SftpTaskIds, NEW pc, NEW ses, NEW res,
         Moved(t, pc, ses, res), Leads(t, pc, ses, res), CacheFollows(ses)
  PROVE  SessionsInv'
<1>1. \A s \in SftpTaskIds : HasOpened(s) => HasOpened(s)'
  BY DEF Moved, Leads, HasOpened
<1>2. NoSession \notin SftpTaskIds /\ (ses # NoSession => HasOpened(ses)')
  <2>1. CASE ses = t  BY <2>1, SftpTasksAssumption DEF Moved, Leads, HasOpened
  <2>2. ASSUME ses # t, ses # NoSession PROVE HasOpened(ses)'
    <3>1. HasOpened(ses)  BY <2>2 DEF Leads
    <3>2. ses \in SftpTaskIds  BY <2>2 DEF TasksInv, TasksTyped, TaskRecords, Moved
    <3> QED  BY <1>1, <3>1, <3>2
  <2> QED  BY <2>1, <2>2, SftpTasksAssumption
<1>3. ASSUME NEW u \in SftpTaskIds
      PROVE  /\ Holding(u)' => Held(u)' \in SftpTaskIds
             /\ Held(u)' # NoSession => HasOpened(Held(u))'
  <2>1. CASE u = t  BY <1>2, <2>1 DEF Moved, Leads, Holding, Held, HasOpened
  <2>2. CASE u # t
    <3>1. sftpTask'[u] = sftpTask[u]  BY <2>2 DEF Moved
    <3>2. Held(u) \in SftpTaskIds \cup {NoSession}  BY DEF TasksInv, TasksTyped, TaskRecords, Held
    <3>3. Held(u) # NoSession => sftpTask'[Held(u)].pc \in OpenedSteps
      BY <1>1, <3>2 DEF TasksInv, SessionsInv, HasOpened
    <3> QED  BY <3>1, <3>3 DEF TasksInv, SessionsInv, Holding, Held, HasOpened
  <2> QED  BY <2>1, <2>2
<1>4. cached # NoSession => sftpTask'[cached].pc \in OpenedSteps
  BY <1>1 DEF TasksInv, TasksTyped, SessionsInv, HasOpened
<1>5. cached' # NoSession => HasOpened(cached)'
  BY <1>2, <1>4 DEF CacheFollows, HasOpened
<1> QED  BY <1>3, <1>5 DEF SessionsInv, HasOpened

LEMMA VerdictsKept ==
  ASSUME TasksInv, NEW t \in SftpTaskIds, NEW pc, NEW ses, NEW res,
         Moved(t, pc, ses, res), Leads(t, pc, ses, res), SessionsStay(t)
  PROVE  VerdictsInv'
<1> SUFFICES ASSUME NEW u \in SftpTaskIds
             PROVE  /\ sftpTask'[u].pc = "expire" => session'[sftpTask'[u].held].expired
                    /\ sftpTask'[u].pc = "forget" => ~session'[sftpTask'[u].held].open
  BY DEF VerdictsInv, Held
<1>1. CASE u = t  BY <1>1 DEF Moved, Leads
<1>2. CASE u # t
  <2>1. sftpTask'[u] = sftpTask[u]  BY <1>2 DEF Moved
  <2>2. sftpTask[u].pc \in {"expire", "forget"} => Held(u) \in SftpTaskIds /\ HasOpened(Held(u))
    BY SftpTasksAssumption DEF TasksInv, SessionsInv, Holding, HoldingSteps
  <2> QED  BY <2>1, <2>2 DEF TasksInv, VerdictsInv, SessionsStay, Held
<1> QED  BY <1>1, <1>2

LEMMA TaskStepKeeps ==
  ASSUME TasksInv, NEW t \in SftpTaskIds, NEW pc, NEW ses, NEW res,
         Moved(t, pc, ses, res), Leads(t, pc, ses, res),
         FlagsStay(t), CacheFollows(ses), SessionsStay(t),
         flags' \in [SftpTaskIds -> {"none", "clear", "set"}],
         session' \in [SftpTaskIds -> SessionRecords], closing' = closing
  PROVE  TasksInv'
<1>1. ses \in SftpTaskIds \cup {NoSession}  BY DEF Moved, TaskRecords
<1>2. TasksTyped'  BY <1>1 DEF TasksInv, TasksTyped, Moved, FlagsStay, CacheFollows
<1> QED  BY <1>2, EarlyKept, SessionsKept, VerdictsKept DEF TasksInv

LEMMA BeginKeeps ==
  ASSUME TasksInv, NEW t \in SftpTaskIds, BeginTask(t) \/ BeginListing(t)
  PROVE  TasksInv'
<1>1. TasksTyped  BY DEF TasksInv
<1>2. sftpTask[t].pc = "start" /\ sftpTask[t].result = "running"
  BY DEF TasksInv, EarlyInv, Ended, BeginTask, BeginListing, In
<1>3. \/ \E pc \in {"lookup", "open"} : Moved(t, pc, Held(t), "running")
      \/ \E pc \in {"finish", "done"} : Moved(t, pc, Held(t), "error")
  <2>2. {"lookup", "open", "finish", "done"} \subseteq TaskSteps  BY DEF TaskSteps
  <2> QED  BY <1>1, <1>2, <2>2, TaskMoves DEF BeginTask, BeginListing
<1>4. flags' \in [SftpTaskIds -> {"none", "clear", "set"}] /\ FlagsStay(t)
  BY <1>1 DEF TasksTyped, BeginTask, BeginListing, SftpTaskCancelFlag, FlagOrNew, FlagsStay
<1>5. UNCHANGED <<cached, session, closing>>  BY DEF BeginTask, BeginListing
<1>6. CacheFollows(Held(t)) /\ SessionsStay(t) /\ session' \in [SftpTaskIds -> SessionRecords]
  BY <1>1, <1>5 DEF CacheFollows, SessionsStay, TasksTyped
<1>7. \A pc \in {"lookup", "open"} : Leads(t, pc, Held(t), "running")
  BY <1>2 DEF TasksInv, SessionsInv, Leads, Ended, HasOpened, HoldingSteps, OpenedSteps
<1>8. \A pc \in {"finish", "done"} : Leads(t, pc, Held(t), "error")
  BY <1>2 DEF TasksInv, SessionsInv, Leads, Ended, HasOpened, HoldingSteps, OpenedSteps
<1> QED  BY <1>3, <1>4, <1>5, <1>6, <1>7, <1>8, TaskStepKeeps

(* Most steps of a task leave the flags and the sessions as they are.      *)
LEMMA PlainStepKeeps ==
  ASSUME TasksInv, NEW t \in SftpTaskIds, NEW pc, NEW ses, NEW res,
         Moved(t, pc, ses, res), Leads(t, pc, ses, res), CacheFollows(ses),
         UNCHANGED <<flags, session, closing, early>>
  PROVE  TasksInv'
<1>1. FlagsStay(t) /\ SessionsStay(t)  BY DEF FlagsStay, SessionsStay
<1>2. flags' \in [SftpTaskIds -> {"none", "clear", "set"}]
      /\ session' \in [SftpTaskIds -> SessionRecords]
  BY DEF TasksInv, TasksTyped
<1> QED  BY <1>1, <1>2, TaskStepKeeps

(* A step by which a task ends with an error is always in order.           *)
LEMMA ErrorLeads ==
  ASSUME TasksInv, NEW t \in SftpTaskIds
  PROVE  Leads(t, "finish", Held(t), "error")
BY DEF TasksInv, SessionsInv, Leads, Ended, HasOpened, HoldingSteps, OpenedSteps

LEMMA OwnKeeps ==
  ASSUME TasksInv, NEW t \in SftpTaskIds, OpenOwn(t) \/ PerformOwn(t) \/ ConcludeOwn(t)
  PROVE  TasksInv'
<1>1. TasksTyped /\ sftpTask[t].pc \in {"open", "request", "working"}
      /\ sftpTask[t].result = "running"
  BY DEF TasksInv, EarlyInv, Ended, OpenOwn, PerformOwn, ConcludeOwn, In
<1>2. UNCHANGED <<flags, session, closing, early>> /\ CacheFollows(Held(t))
  BY DEF OpenOwn, PerformOwn, ConcludeOwn, CacheFollows
<1>3. \/ Ends(t, "error") \/ (In(t, "open") /\ To(t, "request"))
      \/ (~Cancelled(t) /\ In(t, "request") /\ To(t, "working"))
      \/ (In(t, "working") /\ Ends(t, "ok"))
  BY DEF OpenOwn, PerformOwn, ConcludeOwn
<1>4. CASE Ends(t, "error")
  <2>1. Moved(t, "finish", Held(t), "error")
    BY <1>1, <1>4, TaskMoves DEF TaskSteps, TasksTyped, TaskRecords, Held
  <2> QED  BY <1>2, <2>1, ErrorLeads, PlainStepKeeps
<1>5. CASE In(t, "open") /\ To(t, "request")
  <2>1. Moved(t, "request", Held(t), "running")
    BY <1>1, <1>5, TaskMoves DEF TaskSteps, TasksTyped, TaskRecords, Held
  <2>2. Leads(t, "request", Held(t), "running")
    BY <1>1 DEF TasksInv, SessionsInv, Leads, Ended, HasOpened, HoldingSteps, OpenedSteps
  <2> QED  BY <1>2, <2>1, <2>2, PlainStepKeeps
<1>6. CASE ~Cancelled(t) /\ In(t, "request") /\ To(t, "working")
  <2>1. Moved(t, "working", Held(t), "running")
    BY <1>1, <1>6, TaskMoves DEF TaskSteps, TasksTyped, TaskRecords, Held
  <2>2. t \notin early  BY <1>1, <1>6 DEF TasksInv, EarlyInv, Ended, Cancelled
  <2>3. Leads(t, "working", Held(t), "running")
    BY <1>1, <2>2 DEF TasksInv, SessionsInv, Leads, Ended, HasOpened, HoldingSteps, OpenedSteps
  <2> QED  BY <1>2, <2>1, <2>3, PlainStepKeeps
<1>7. CASE In(t, "working") /\ Ends(t, "ok")
  <2>1. Moved(t, "finish", Held(t), "ok")
    BY <1>1, <1>7, TaskMoves DEF TaskSteps, TasksTyped, TaskRecords, Held
  <2>2. t \notin early  BY <1>7 DEF TasksInv, EarlyInv, In
  <2>3. Leads(t, "finish", Held(t), "ok")
    BY <2>2 DEF TasksInv, SessionsInv, Leads, Ended, HasOpened, HoldingSteps, OpenedSteps
  <2> QED  BY <1>2, <2>1, <2>3, PlainStepKeeps
<1> QED  BY <1>3, <1>4, <1>5, <1>6, <1>7

LEMMA LookupKeeps ==
  ASSUME TasksInv, NEW t \in SftpTaskIds,
         LookupSession(t) \/ CheckLifetime(t) \/ ExpireSession(t)
  PROVE  TasksInv'
<1>1. TasksTyped /\ sftpTask[t].pc \in {"lookup", "age", "expire"}
      /\ sftpTask[t].result = "running"
  BY DEF TasksInv, EarlyInv, Ended, LookupSession, CheckLifetime, ExpireSession, In
<1>2. UNCHANGED <<flags, session, closing, early>>
  BY DEF LookupSession, CheckLifetime, ExpireSession
<1>3. ASSUME NEW pc \in {"authenticate", "age", "expire", "acquire", "closeExpired"},
             NEW ses \in SftpTaskIds \cup {NoSession}, With(t, pc, ses),
             pc # "authenticate" => ses # NoSession,
             ses # NoSession => HasOpened(ses),
             pc = "expire" => session[ses].expired, CacheFollows(ses)
      PROVE  TasksInv'
  <2>1. Moved(t, pc, ses, "running")
    BY <1>1, <1>3, TaskMoves DEF TaskSteps
  <2>2. Leads(t, pc, ses, "running")
    BY <1>1, <1>2, <1>3 DEF Leads, Ended, HasOpened, HoldingSteps, OpenedSteps
  <2> QED  BY <1>2, <1>3, <2>1, <2>2, PlainStepKeeps
<1>4. To(t, "expire") => With(t, "expire", Held(t))
  BY <1>1 DEF To, With, Held, TasksTyped, TaskRecords
<1>5. To(t, "acquire") => With(t, "acquire", Held(t))
  BY <1>1 DEF To, With, Held, TasksTyped, TaskRecords
<1>6. To(t, "closeExpired") => With(t, "closeExpired", Held(t))
  BY <1>1 DEF To, With, Held, TasksTyped, TaskRecords
<1>7. CASE LookupSession(t)
  <2>1. cached \in SftpTaskIds \cup {NoSession} /\ (cached # NoSession => HasOpened(cached))
    BY DEF TasksInv, TasksTyped, SessionsInv
  <2>2. cached' = cached /\ CacheFollows(cached)  BY <1>7 DEF LookupSession, CacheFollows
  <2>3. CASE cached = NoSession  BY <1>3, <1>7, <2>1, <2>2, <2>3 DEF LookupSession
  <2>4. CASE cached # NoSession  BY <1>3, <1>7, <2>1, <2>2, <2>4 DEF LookupSession
  <2> QED  BY <2>3, <2>4
<1>8. CASE CheckLifetime(t) \/ ExpireSession(t)
  <2>1. Held(t) \in SftpTaskIds /\ Held(t) # NoSession /\ HasOpened(Held(t))
    BY <1>8, SftpTasksAssumption
    DEF TasksInv, SessionsInv, CheckLifetime, ExpireSession, In, Holding, HoldingSteps
  <2>2. CASE CheckLifetime(t)
    <3>1. CacheFollows(Held(t))  BY <2>2 DEF CheckLifetime, CacheFollows
    <3>2. CASE session[Held(t)].expired
      BY <1>3, <1>4, <2>1, <2>2, <3>1, <3>2 DEF CheckLifetime
    <3>3. CASE ~session[Held(t)].expired
      BY <1>3, <1>5, <2>1, <2>2, <3>1, <3>3 DEF CheckLifetime
    <3> QED  BY <3>2, <3>3
  <2>3. CASE ExpireSession(t)
    <3>1. CacheFollows(Held(t)) /\ CacheFollows(NoSession)  BY <2>3 DEF ExpireSession, CacheFollows
    <3>2. With(t, "authenticate", NoSession) \/ To(t, "closeExpired")  BY <2>3 DEF ExpireSession
    <3>3. CASE To(t, "closeExpired")  BY <1>3, <1>6, <2>1, <3>1, <3>3
    <3>4. CASE With(t, "authenticate", NoSession)  BY <1>3, <3>1, <3>4
    <3> QED  BY <3>2, <3>3, <3>4
  <2> QED  BY <1>8, <2>2, <2>3
<1> QED  BY <1>7, <1>8

LEMMA CloseCachedSessionKeeps ==
  ASSUME TasksInv, NEW t \in SftpTaskIds, CloseCachedSession(t)
  PROVE  TasksInv'
<1>1. TasksTyped /\ In(t, "closeExpired") /\ sftpTask[t].result = "running"
  BY DEF TasksInv, EarlyInv, Ended, CloseCachedSession, In
<1>2. Moved(t, "authenticate", NoSession, "running")
  BY <1>1, TaskMoves DEF CloseCachedSession, TaskSteps
<1>3. Leads(t, "authenticate", NoSession, "running")
  BY <1>1 DEF Leads, Ended, In, HasOpened, HoldingSteps, OpenedSteps
<1>4. session' = [session EXCEPT ![Held(t)].open = FALSE]
      /\ UNCHANGED <<flags, cached, closing, early>>
  BY DEF CloseCachedSession
<1>5. SessionsStay(t) /\ session' \in [SftpTaskIds -> SessionRecords]
  BY <1>1, <1>4 DEF TasksTyped, SessionRecords, SessionsStay
<1>6. FlagsStay(t) /\ CacheFollows(NoSession)  BY <1>4 DEF FlagsStay, CacheFollows
<1>7. flags' \in [SftpTaskIds -> {"none", "clear", "set"}]  BY <1>1, <1>4 DEF TasksTyped
<1> QED  BY <1>2, <1>3, <1>4, <1>5, <1>6, <1>7, TaskStepKeeps

LEMMA AuthenticateKeeps ==
  ASSUME TasksInv, NEW t \in SftpTaskIds, Authenticate(t)
  PROVE  TasksInv'
<1>1. TasksTyped /\ In(t, "authenticate") /\ sftpTask[t].result = "running"
  BY DEF TasksInv, EarlyInv, Ended, Authenticate, In
<1>2. UNCHANGED <<flags, cached, closing, early>>  BY DEF Authenticate
<1>3. CASE Ends(t, "error") /\ UNCHANGED session
  <2>1. Moved(t, "finish", Held(t), "error")
    BY <1>1, <1>3, TaskMoves DEF TaskSteps, TasksTyped, TaskRecords, Held
  <2>2. CacheFollows(Held(t))  BY <1>2 DEF CacheFollows
  <2> QED  BY <1>2, <1>3, <2>1, <2>2, ErrorLeads, PlainStepKeeps
<1>4. CASE With(t, "insert", t) /\ session' = [session EXCEPT ![t].open = TRUE]
  <2>1. Moved(t, "insert", t, "running")  BY <1>1, <1>4, TaskMoves DEF TaskSteps
  <2>2. Leads(t, "insert", t, "running")
    BY <1>1 DEF Leads, Ended, In, HasOpened, HoldingSteps, OpenedSteps
  <2>3. SessionsStay(t) /\ session' \in [SftpTaskIds -> SessionRecords]
    BY <1>1, <1>4 DEF TasksTyped, SessionRecords, SessionsStay, In, HasOpened, OpenedSteps
  <2>4. FlagsStay(t) /\ CacheFollows(t)  BY <1>2 DEF FlagsStay, CacheFollows
  <2>5. flags' \in [SftpTaskIds -> {"none", "clear", "set"}]  BY <1>1, <1>2 DEF TasksTyped
  <2> QED  BY <1>2, <2>1, <2>2, <2>3, <2>4, <2>5, TaskStepKeeps
<1> QED  BY <1>3, <1>4 DEF Authenticate

(* A task that holds its session inserts it, takes its lock and uses it.   *)
LEMMA UseKeeps ==
  ASSUME TasksInv, NEW t \in SftpTaskIds,
         InsertSession(t) \/ AcquireSession(t) \/ PerformPrivileged(t) \/ ForgetFailed(t)
  PROVE  TasksInv'
<1>1. TasksTyped /\ sftpTask[t].pc \in {"insert", "acquire", "privileged", "forget"}
      /\ sftpTask[t].result = "running"
  BY DEF TasksInv, EarlyInv, Ended, InsertSession, AcquireSession, PerformPrivileged,
         ForgetFailed, In
<1>2. Held(t) \in SftpTaskIds /\ HasOpened(Held(t))
  BY <1>1, SftpTasksAssumption DEF TasksInv, SessionsInv, Holding, HoldingSteps
<1>3. UNCHANGED <<flags, closing, early>> /\ CacheFollows(Held(t))
  BY DEF InsertSession, AcquireSession, PerformPrivileged, ForgetFailed, Forget, ForgetOwn,
         CacheFollows
<1>4. session' \in [SftpTaskIds -> SessionRecords]
      /\ \A u \in SftpTaskIds :
           session'[u].open = session[u].open /\ session'[u].expired = session[u].expired
  BY <1>1, <1>2 DEF TasksTyped, SessionRecords, InsertSession, AcquireSession,
     PerformPrivileged, ForgetFailed
<1>5. FlagsStay(t) /\ SessionsStay(t) /\ flags' \in [SftpTaskIds -> {"none", "clear", "set"}]
  BY <1>1, <1>3, <1>4 DEF TasksTyped, FlagsStay, SessionsStay
<1>6. \/ Ends(t, "error") \/ To(t, "acquire") \/ To(t, "privileged")
      \/ (~Cancelled(t) /\ Ends(t, "ok")) \/ (~session[Held(t)].open /\ To(t, "forget"))
  BY DEF InsertSession, AcquireSession, PerformPrivileged, ForgetFailed
<1>7. CASE Ends(t, "error")
  <2>1. Moved(t, "finish", Held(t), "error")
    BY <1>1, <1>2, <1>7, TaskMoves DEF TaskSteps, Held
  <2> QED  BY <1>3, <1>4, <1>5, <2>1, ErrorLeads, TaskStepKeeps
<1>8. ASSUME NEW pc \in {"acquire", "privileged"}, To(t, pc) PROVE TasksInv'
  <2>1. Moved(t, pc, Held(t), "running")  BY <1>1, <1>2, <1>8, TaskMoves DEF TaskSteps
  <2>2. Leads(t, pc, Held(t), "running")
    BY <1>1, <1>2, <1>8 DEF Leads, Ended, HasOpened, HoldingSteps, OpenedSteps
  <2> QED  BY <1>3, <1>4, <1>5, <2>1, <2>2, TaskStepKeeps
<1>9. CASE ~Cancelled(t) /\ Ends(t, "ok")
  <2>1. Moved(t, "finish", Held(t), "ok")  BY <1>1, <1>2, <1>9, TaskMoves DEF TaskSteps, Held
  <2>2. t \notin early  BY <1>1, <1>9 DEF TasksInv, EarlyInv, Ended, Cancelled
  <2>3. Leads(t, "finish", Held(t), "ok")
    BY <1>1, <1>2, <2>2 DEF Leads, Ended, HasOpened, HoldingSteps, OpenedSteps
  <2> QED  BY <1>3, <1>4, <1>5, <2>1, <2>3, TaskStepKeeps
<1>10. CASE ~session[Held(t)].open /\ To(t, "forget")
  <2>1. Moved(t, "forget", Held(t), "running")  BY <1>1, <1>2, <1>10, TaskMoves DEF TaskSteps
  <2>2. Leads(t, "forget", Held(t), "running")
    BY <1>1, <1>2, <1>4, <1>10 DEF Leads, Ended, HasOpened, HoldingSteps, OpenedSteps
  <2> QED  BY <1>3, <1>4, <1>5, <2>1, <2>2, TaskStepKeeps
<1> QED  BY <1>6, <1>7, <1>8, <1>9, <1>10

LEMMA FinishKeeps ==
  ASSUME TasksInv, NEW t \in SftpTaskIds, FinishTask(t)
  PROVE  TasksInv'
<1>1. TasksTyped /\ In(t, "finish")  BY DEF TasksInv, FinishTask
<1>2. UNCHANGED <<cached, session, closing, early>> /\ flags' = [flags EXCEPT ![t] = "none"]
  BY DEF FinishTask
<1>3. Moved(t, "done", Held(t), sftpTask[t].result)
  BY <1>1, TaskMoves DEF FinishTask, TaskSteps, TasksTyped, TaskRecords, Held
<1>4. \A u \in SftpTaskIds \ {t} : sftpTask'[u] = sftpTask[u] /\ flags'[u] = flags[u]
  BY <1>1, <1>2, <1>3 DEF Moved, TasksTyped
<1>5. sftpTask'[t].pc = "done" /\ sftpTask'[t].result = sftpTask[t].result  BY <1>3 DEF Moved
<1>6. EarlyInv'
  BY <1>1, <1>2, <1>4, <1>5 DEF TasksInv, TasksTyped, EarlyInv, Ended, In
<1>7. Leads(t, "done", Held(t), sftpTask[t].result)
  BY <1>1 DEF TasksInv, EarlyInv, SessionsInv, Leads, Ended, In, HasOpened, HoldingSteps,
     OpenedSteps
<1>8. CacheFollows(Held(t)) /\ SessionsStay(t)  BY <1>2 DEF CacheFollows, SessionsStay
<1>9. SessionsInv' /\ VerdictsInv'  BY <1>3, <1>7, <1>8, SessionsKept, VerdictsKept
<1>10. TasksTyped'  BY <1>1, <1>2, <1>3 DEF TasksTyped, Moved
<1> QED  BY <1>6, <1>9, <1>10 DEF TasksInv

(* The calls from outside, and what happens to the sessions.               *)
LEMMA CancelKeeps ==
  ASSUME TasksInv, (\E t \in SftpTaskIds : CancelSftpTask(t)) \/ CancelAllSftpTasks
  PROVE  TasksInv'
<1>1. UNCHANGED <<sftpTask, cached, session, closing>>  BY DEF CancelSftpTask, CancelAllSftpTasks
<1>2. flags' \in [SftpTaskIds -> {"none", "clear", "set"}]
      /\ \A u \in SftpTaskIds : flags[u] = "set" => flags'[u] = "set"
  BY DEF CancelSftpTask, CancelAllSftpTasks, TasksInv, TasksTyped
<1>3. early' \subseteq SftpTaskIds
      /\ \A u \in early' : u \in early \/ (Waiting(u) /\ flags'[u] = "set")
  BY DEF CancelSftpTask, CancelAllSftpTasks, TasksInv, TasksTyped
<1>4. TasksTyped' /\ SessionsInv' /\ VerdictsInv'
  BY <1>1, <1>2, <1>3 DEF TasksInv, TasksTyped, SessionsInv, VerdictsInv, HasOpened, Holding, Held
<1>5. \A u \in SftpTaskIds : Waiting(u) => ~Ended(u) /\ sftpTask[u].pc # "working"
  BY DEF Waiting, Ended
<1>6. EarlyInv'
  <2>1. ASSUME NEW u \in early' PROVE sftpTask[u].pc # "working" /\ sftpTask[u].result # "ok"
                                      /\ (~Ended(u) => flags'[u] = "set")
    BY <1>2, <1>3, <1>5 DEF TasksInv, TasksTyped, EarlyInv
  <2> QED  BY <1>1, <2>1 DEF TasksInv, EarlyInv, Ended
<1> QED  BY <1>4, <1>6 DEF TasksInv

LEMMA SessionMovesKeep ==
  ASSUME TasksInv,
         \/ CloseSudoSession \/ CloseTaken
         \/ \E s \in SftpTaskIds : SessionAges(s) \/ SessionBreaks(s)
  PROVE  TasksInv'
<1>1. UNCHANGED <<flags, sftpTask, early>>
  BY DEF CloseSudoSession, CloseTaken, SessionAges, SessionBreaks
<1>2. TasksTyped'
  <2>1. cached' \in SftpTaskIds \cup {NoSession} /\ closing' \in SftpTaskIds \cup {NoSession}
    BY DEF TasksInv, TasksTyped, CloseSudoSession, CloseTaken, SessionAges, SessionBreaks
  <2>2. session' \in [SftpTaskIds -> SessionRecords]
    <3>1. \/ UNCHANGED session
          \/ \E s \in SftpTaskIds : \/ session' = [session EXCEPT ![s].open = FALSE]
                                    \/ session' = [session EXCEPT ![s].expired = TRUE]
      BY DEF TasksInv, TasksTyped, CloseSudoSession, CloseTaken, SessionAges, SessionBreaks
    <3>2. session \in [SftpTaskIds -> SessionRecords]  BY DEF TasksInv, TasksTyped
    <3>3. ASSUME NEW s \in SftpTaskIds
          PROVE  /\ [session[s] EXCEPT !.open = FALSE] \in SessionRecords
                 /\ [session[s] EXCEPT !.expired = TRUE] \in SessionRecords
      BY <3>2 DEF SessionRecords
    <3> QED  BY <3>1, <3>2, <3>3
  <2> QED  BY <1>1, <2>1, <2>2 DEF TasksInv, TasksTyped
<1>3. \A u \in SftpTaskIds : /\ session[u].expired => session'[u].expired
                             /\ session'[u].open => session[u].open
  BY DEF TasksInv, TasksTyped, SessionRecords, CloseSudoSession, CloseTaken, SessionAges,
     SessionBreaks
<1>4. cached' \in {NoSession, cached}
  BY DEF CloseSudoSession, CloseTaken, SessionAges, SessionBreaks
<1>5. EarlyInv' /\ SessionsInv'
  BY <1>1, <1>4 DEF TasksInv, EarlyInv, SessionsInv, Ended, HasOpened, Holding, Held
<1>6. VerdictsInv'
  BY <1>1, <1>3 DEF TasksInv, VerdictsInv, SessionsInv, Holding, Held, HoldingSteps
<1> QED  BY <1>2, <1>5, <1>6 DEF TasksInv

LEMMA TasksInvHolds == TasksSpec => []TasksInv
<1>1. TasksInit => TasksInv
  <2> SUFFICES ASSUME TasksInit PROVE TasksInv  OBVIOUS
  <2>1. PICK plan \in TaskPlans :
          sftpTask = [t \in SftpTaskIds |->
                        [kind |-> plan[t].kind, password |-> plan[t].password, pc |-> "start",
                         held |-> NoSession, result |-> "running"]]
    BY DEF TasksInit
  <2>2. \A t \in SftpTaskIds : plan[t] \in TaskKinds  BY <2>1, SftpTasksAssumption
  <2>3. \A t \in SftpTaskIds : sftpTask[t] \in TaskRecords
    BY <2>1, <2>2 DEF TaskKinds, TaskRecords, TaskSteps
  <2>4. TasksTyped  BY <2>1, <2>3 DEF TasksInit, TasksTyped, SessionRecords
  <2> QED  BY <2>1, <2>4 DEF TasksInit, TasksInv, EarlyInv, SessionsInv, VerdictsInv, Ended,
              Holding, HoldingSteps, Held
<1>2. TasksInv /\ [TasksNext]_tasksVars => TasksInv'
  <2>1. ASSUME TasksInv, TasksNext PROVE TasksInv'
    BY <2>1, BeginKeeps, OwnKeeps, LookupKeeps, CloseCachedSessionKeeps, AuthenticateKeeps,
       UseKeeps, FinishKeeps, CancelKeeps, SessionMovesKeep DEF TasksNext
  <2>2. ASSUME TasksInv, UNCHANGED tasksVars PROVE TasksInv'
    BY <2>2 DEF TasksInv, TasksTyped, EarlyInv, SessionsInv, VerdictsInv, Ended, Holding,
       HasOpened, Held, tasksVars
  <2> QED  BY <2>1, <2>2
<1> QED  BY <1>1, <1>2, PTL DEF TasksSpec

(* The types of the flags, the sessions and what the tasks hold.           *)
THEOREM TasksTypes == TasksSpec => []TasksTypeOK
<1>1. TasksInv => TasksTypeOK
  BY DEF TasksInv, TasksTyped, TasksTypeOK, TaskRecords, SessionRecords
<1> QED  BY <1>1, TasksInvHolds, PTL

(* A task that was cancelled before its work began never reports success,  *)
(* whichever of the cancel and the call that starts the task comes first   *)
(* (sftp_task_cancel_flag takes the flag that the cancel left).            *)
THEOREM EarlyCancels == TasksSpec => []EarlyCancelWins
<1>1. TasksInv => EarlyCancelWins  BY DEF TasksInv, EarlyInv, EarlyCancelWins
<1> QED  BY <1>1, TasksInvHolds, PTL

(* A privileged session that works and is not too old leaves the cache     *)
(* only when the user closes it or a newer one takes its place.            *)
THEOREM SessionsStayCached == TasksSpec => SudoSessionKept
<1>1. TasksInv /\ [TasksNext]_tasksVars => [SessionKept]_tasksVars
  <2> SUFFICES ASSUME TasksInv, TasksNext, cached # NoSession, cached' = NoSession
               PROVE  closing' = cached \/ session[cached].expired \/ ~session[cached].open
    BY DEF SessionKept
  <2>1. CASE CloseSudoSession  BY <2>1 DEF CloseSudoSession
  <2>2. ASSUME NEW t \in SftpTaskIds, InsertSession(t) PROVE FALSE
    BY <2>2, SftpTasksAssumption
    DEF InsertSession, TasksInv, SessionsInv, In, Holding, HoldingSteps
  <2>3. ASSUME NEW t \in SftpTaskIds, ExpireSession(t) PROVE session[cached].expired
    BY <2>3 DEF ExpireSession, TasksInv, VerdictsInv, In
  <2>4. ASSUME NEW t \in SftpTaskIds, ForgetFailed(t) PROVE ~session[cached].open
    BY <2>4 DEF ForgetFailed, Forget, ForgetOwn, TasksInv, VerdictsInv, In
  <2>5. ASSUME UNCHANGED cached PROVE FALSE  BY <2>5
  <2> QED
    BY <2>1, <2>2, <2>3, <2>4, <2>5
    DEF TasksNext, BeginTask, BeginListing, OpenOwn, PerformOwn, ConcludeOwn, LookupSession,
        CheckLifetime, CloseCachedSession, Authenticate, AcquireSession, PerformPrivileged,
        FinishTask, CancelSftpTask, SessionAges, SessionBreaks, CancelAllSftpTasks, CloseTaken
<1> QED  BY <1>1, TasksInvHolds, PTL DEF TasksSpec, SudoSessionKept

-----------------------------------------------------------------------------
(* Port forwarding.  What a worker's record says of itself, and how the    *)
(* manager's map and the call in progress relate to the workers.           *)

WorkerSteps == {"unborn", "connect", "bind", "loop", "gone"}
StreamSteps == {"free", "socks", "open", "dial", "proxy"}
WorkerRecords ==
  [type : ForwardTypes, id : Forwards, pc : WorkerSteps, stop : BOOLEAN, holds : BOOLEAN,
   online : BOOLEAN, state : Statuses, problem : BOOLEAN, active : Nat,
   streams : [Streams -> StreamSteps]]
CallRecords ==
  [op : {"none", "start", "stop"}, id : Forwards, type : ForwardTypes,
   pc : {"idle", "stop", "join", "spawn", "settle", "return"}]

Busy(r) == {s \in Streams : r.streams[s] # "free"}
Alive(r) == r.pc \in {"connect", "bind", "loop"}

(* The count is that of the busy streams, of which a worker that is not    *)
(* alive has none; and only a worker in its loop holds the port.           *)
WorkerOK(r) ==
  /\ r \in WorkerRecords
  /\ r.active = Cardinality(Busy(r))
  /\ ~Alive(r) => Busy(r) = {}
  /\ r.holds => r.pc = "loop"

(* A worker that is alive is the one the manager knows for its rule, and   *)
(* the call in progress spawns only when the manager knows none.           *)
ForwardInv ==
  /\ runtimes \in [Forwards -> ForwardWorkers \cup {NoWorker}]
  /\ call \in CallRecords
  /\ forward \in [ForwardWorkers -> WorkerRecords]
  /\ \A w \in ForwardWorkers :
       WorkerOK(forward[w]) /\ (Alive(forward[w]) => runtimes[forward[w].id] = w)
  /\ call.pc = "spawn" => runtimes[call.id] = NoWorker
  /\ call.pc = "join" => runtimes[call.id] # NoWorker

LEMMA BusyFinite ==
  ASSUME NEW r
  PROVE  IsFiniteSet(Busy(r)) /\ Cardinality(Busy(r)) \in 0..Cardinality(Streams)
<1>1. Busy(r) \subseteq Streams  BY DEF Busy
<1>2. IsFiniteSet(Busy(r)) /\ Cardinality(Busy(r)) <= Cardinality(Streams)
  BY <1>1, FS_Subset, ForwardAssumption
<1>3. Cardinality(Busy(r)) \in Nat /\ Cardinality(Streams) \in Nat
  BY <1>2, FS_CardinalityType, ForwardAssumption
<1> QED  BY <1>2, <1>3

(* The operators that change a worker's record.                            *)
LEMMA SetStatusOK ==
  ASSUME NEW r, WorkerOK(r), NEW state \in Statuses, NEW problem \in BOOLEAN,
         state = "running" \/ Busy(r) = {}
  PROVE  /\ WorkerOK(SetStatus(r, state, problem))
         /\ SetStatus(r, state, problem).pc = r.pc /\ SetStatus(r, state, problem).id = r.id
<1> DEFINE new == SetStatus(r, state, problem)
<1>1. /\ new \in WorkerRecords /\ new.pc = r.pc /\ new.id = r.id /\ new.holds = r.holds
      /\ new.streams = r.streams
      /\ new.active = IF state = "running" THEN r.active ELSE 0
  BY DEF WorkerOK, WorkerRecords, SetStatus
<1>2. Busy(new) = Busy(r)  BY <1>1 DEF Busy
<1>3. Busy(r) = {} => r.active = 0  BY FS_EmptySet DEF WorkerOK
<1> HIDE DEF new
<1>4. WorkerOK(new)  BY <1>1, <1>2, <1>3 DEF WorkerOK, Alive
<1> QED  BY <1>1, <1>4 DEF new

LEMMA OverOK ==
  ASSUME NEW w, NEW r, WorkerOK(r), NEW state \in Statuses \ {"running"}, NEW problem \in BOOLEAN
  PROVE  /\ WorkerOK(Over(w, SetStatus(r, state, problem)))
         /\ Over(w, SetStatus(r, state, problem)).id = r.id
         /\ Over(w, SetStatus(r, state, problem)).pc = "gone"
<1> DEFINE new == Over(w, SetStatus(r, state, problem))
<1>1. /\ new \in WorkerRecords /\ new.pc = "gone" /\ new.id = r.id /\ new.holds = FALSE
      /\ new.streams = [s \in Streams |-> "free"] /\ new.active = 0
  BY DEF WorkerOK, WorkerRecords, SetStatus, Over, WorkerSteps, StreamSteps
<1> HIDE DEF new
<1>2. Busy(new) = {} /\ Cardinality(Busy(new)) = 0  BY <1>1, FS_EmptySet DEF Busy
<1>3. WorkerOK(new)  BY <1>1, <1>2 DEF WorkerOK
<1> QED  BY <1>1, <1>3 DEF new

(* A stream that is taken, moves on, or is left.                           *)
LEMMA TakeStreamOK ==
  ASSUME NEW r, WorkerOK(r), Alive(r), NEW s \in Streams, r.streams[s] = "free",
         NEW step \in StreamSteps \ {"free"}
  PROVE  LET new == [r EXCEPT !.active = @ + 1, !.streams[s] = step] IN
         WorkerOK(new) /\ new.pc = r.pc /\ new.id = r.id
<1> DEFINE new == [r EXCEPT !.active = @ + 1, !.streams[s] = step]
<1> DEFINE counted == [r EXCEPT !.active = @ + 1]
<1>0. counted \in WorkerRecords /\ counted.active = r.active + 1 /\ counted.streams = r.streams
      /\ counted.pc = r.pc /\ counted.id = r.id /\ counted.holds = r.holds
  BY DEF WorkerOK, WorkerRecords
<1>0a. new = [counted EXCEPT !.streams[s] = step]  OBVIOUS
<1> HIDE DEF counted
<1>1. /\ new \in WorkerRecords /\ new.pc = r.pc /\ new.id = r.id /\ new.holds = r.holds
      /\ new.streams = [r.streams EXCEPT ![s] = step] /\ new.active = r.active + 1
  BY <1>0, <1>0a DEF WorkerRecords
<1> HIDE DEF new
<1>2. Busy(new) = Busy(r) \cup {s} /\ s \notin Busy(r)
  BY <1>1 DEF Busy, WorkerOK, WorkerRecords, StreamSteps
<1>3. Cardinality(Busy(new)) = Cardinality(Busy(r)) + 1
  BY <1>2, BusyFinite, FS_AddElement
<1>4. WorkerOK(new)  BY <1>1, <1>3 DEF WorkerOK, Alive
<1> QED  BY <1>1, <1>4 DEF new

LEMMA MoveStreamOK ==
  ASSUME NEW r, WorkerOK(r), NEW s \in Streams, r.streams[s] # "free",
         NEW step \in StreamSteps \ {"free"}
  PROVE  LET new == [r EXCEPT !.streams[s] = step] IN
         WorkerOK(new) /\ new.pc = r.pc /\ new.id = r.id
<1> DEFINE new == [r EXCEPT !.streams[s] = step]
<1>1. /\ new \in WorkerRecords /\ new.pc = r.pc /\ new.id = r.id /\ new.holds = r.holds
      /\ new.streams = [r.streams EXCEPT ![s] = step] /\ new.active = r.active
  BY DEF WorkerOK, WorkerRecords
<1> HIDE DEF new
<1>2. Busy(new) = Busy(r)  BY <1>1 DEF Busy, WorkerOK, WorkerRecords, StreamSteps
<1>3. WorkerOK(new)  BY <1>1, <1>2 DEF WorkerOK, Alive
<1> QED  BY <1>1, <1>3 DEF new

LEMMA LeaveOK ==
  ASSUME NEW w, WorkerOK(forward[w]), NEW s \in Streams, forward[w].streams[s] # "free"
  PROVE  WorkerOK(Leave(w, s)) /\ Leave(w, s).pc = forward[w].pc /\ Leave(w, s).id = forward[w].id
<1> DEFINE r == forward[w]
<1> DEFINE new == [r EXCEPT !.streams[s] = "free", !.active = IF @ > 0 THEN @ - 1 ELSE 0]
<1>0. Leave(w, s) = new  BY DEF Leave, LeaveCounted
<1> HIDE DEF r
<1>1. WorkerOK(r) /\ r.streams[s] # "free"  BY DEF r
<1> DEFINE freed == [r EXCEPT !.streams[s] = "free"]
<1>0a. freed \in WorkerRecords /\ freed.active = r.active
       /\ freed.streams = [r.streams EXCEPT ![s] = "free"]
       /\ freed.pc = r.pc /\ freed.id = r.id /\ freed.holds = r.holds
  BY <1>1 DEF WorkerOK, WorkerRecords, StreamSteps
<1> DEFINE fewer == IF r.active > 0 THEN r.active - 1 ELSE 0
<1>0b. new = [freed EXCEPT !.active = fewer]  OBVIOUS
<1>0c. fewer \in Nat  BY <1>1 DEF WorkerOK, WorkerRecords
<1> HIDE DEF freed, fewer
<1>2. /\ new \in WorkerRecords /\ new.pc = r.pc /\ new.id = r.id /\ new.holds = r.holds
      /\ new.streams = [r.streams EXCEPT ![s] = "free"]
      /\ new.active = fewer
  BY <1>0a, <1>0b, <1>0c DEF WorkerRecords
<1> HIDE DEF new
<1>3. Busy(new) = Busy(r) \ {s} /\ s \in Busy(r)
  BY <1>1, <1>2 DEF Busy, WorkerOK, WorkerRecords
<1>4. Cardinality(Busy(new)) = Cardinality(Busy(r)) - 1 /\ Cardinality(Busy(r)) \in Nat
      /\ Cardinality(Busy(new)) \in Nat
  <2>1. Cardinality(Busy(r) \ {s}) = Cardinality(Busy(r)) - 1
    BY <1>3, BusyFinite, FS_RemoveElement
  <2>2. Cardinality(Busy(r)) \in Nat /\ Cardinality(Busy(new)) \in Nat  BY BusyFinite
  <2> QED  BY <1>3, <2>1, <2>2
<1>5. WorkerOK(new)  BY <1>1, <1>2, <1>3, <1>4 DEF WorkerOK, Alive, fewer
<1> QED  BY <1>0, <1>2, <1>5 DEF r

(* A step of a worker's thread.                                            *)
LEMMA WorkerStepKeeps ==
  ASSUME ForwardInv, NEW w \in ForwardWorkers, NEW rec, Update(w, rec), WorkerOK(rec),
         rec.id = forward[w].id, Alive(rec) => Alive(forward[w])
  PROVE  ForwardInv'
<1>1. rec \in WorkerRecords  BY DEF WorkerOK
<1>2. forward' = [forward EXCEPT ![w] = rec] /\ runtimes' = runtimes /\ call' = call
  BY DEF Update
<1>3. forward' \in [ForwardWorkers -> WorkerRecords]  BY <1>1, <1>2 DEF ForwardInv
<1>4. ASSUME NEW v \in ForwardWorkers
      PROVE  WorkerOK(forward'[v]) /\ (Alive(forward'[v]) => runtimes[forward'[v].id] = v)
  BY <1>2 DEF ForwardInv
<1> QED  BY <1>2, <1>3, <1>4 DEF ForwardInv

LEMMA FailsKeeps ==
  ASSUME ForwardInv, NEW w \in ForwardWorkers, Fails(w) \/ Stops(w)
  PROVE  ForwardInv'
<1> DEFINE Rec(state, problem) == Over(w, SetStatus(forward[w], state, problem))
<1>1. WorkerOK(forward[w])  BY DEF ForwardInv
<1>2. PICK state \in {"error", "stopped"}, problem \in BOOLEAN : Update(w, Rec(state, problem))
  BY DEF Fails, Stops
<1>3. WorkerOK(Rec(state, problem)) /\ Rec(state, problem).id = forward[w].id
      /\ Rec(state, problem).pc = "gone"
  BY <1>1, <1>2, OverOK DEF Statuses
<1> HIDE DEF Rec
<1> QED  BY <1>2, <1>3, WorkerStepKeeps DEF Alive

LEMMA StartupKeeps ==
  ASSUME ForwardInv, NEW w \in ForwardWorkers, ConnectForward(w) \/ BindLocal(w) \/ RequestRemote(w)
  PROVE  ForwardInv'
<1>1. WorkerOK(forward[w])  BY DEF ForwardInv
<1>2. CASE Fails(w)  BY <1>2, FailsKeeps
<1>3. CASE Thread(w, "connect") /\ Update(w, [forward[w] EXCEPT !.pc = "bind", !.online = TRUE])
  <2> DEFINE r == forward[w]
  <2> DEFINE rec == [r EXCEPT !.pc = "bind", !.online = TRUE]
  <2>1. WorkerOK(r) /\ r.pc = "connect" /\ Update(w, rec)  BY <1>1, <1>3 DEF Thread
  <2> HIDE DEF r
  <2>2. /\ rec \in WorkerRecords /\ rec.pc = "bind" /\ rec.id = r.id /\ rec.holds = r.holds
        /\ rec.streams = r.streams /\ rec.active = r.active
    BY <2>1 DEF WorkerOK, WorkerRecords, WorkerSteps
  <2> HIDE DEF rec
  <2>3. Busy(rec) = Busy(r)  BY <2>2 DEF Busy
  <2>4. WorkerOK(rec) /\ Alive(rec) /\ Alive(r)  BY <2>1, <2>2, <2>3 DEF WorkerOK, Alive
  <2> QED  BY <2>1, <2>2, <2>4, WorkerStepKeeps DEF r
<1>4. CASE Thread(w, "bind") /\ Update(w, Running(w))
  <2> DEFINE r == forward[w]
  <2> DEFINE rec == [r EXCEPT !.pc = "loop", !.holds = TRUE]
  <2>1. WorkerOK(r) /\ r.pc = "bind" /\ Update(w, SetStatus(rec, "running", FALSE))
    BY <1>1, <1>4 DEF Thread, Running
  <2> HIDE DEF r
  <2>2. /\ rec \in WorkerRecords /\ rec.pc = "loop" /\ rec.id = r.id
        /\ rec.streams = r.streams /\ rec.active = r.active
    BY <2>1 DEF WorkerOK, WorkerRecords, WorkerSteps
  <2> HIDE DEF rec
  <2>3. Busy(rec) = Busy(r)  BY <2>2 DEF Busy
  <2>4. WorkerOK(rec) /\ Alive(rec) /\ Alive(r)  BY <2>1, <2>2, <2>3 DEF WorkerOK, Alive
  <2>5. /\ WorkerOK(SetStatus(rec, "running", FALSE))
        /\ SetStatus(rec, "running", FALSE).id = r.id
    BY <2>2, <2>4, SetStatusOK DEF Statuses
  <2> QED  BY <2>1, <2>4, <2>5, WorkerStepKeeps DEF r
<1> QED  BY <1>2, <1>3, <1>4 DEF ConnectForward, BindLocal, RequestRemote

LEMMA AcceptingKeeps ==
  ASSUME ForwardInv, NEW w \in ForwardWorkers,
         \/ LoopStops(w) \/ LoopAcceptFails(w) \/ LoopAccepts(w)
         \/ RemoteStops(w) \/ ForwardedChannel(w)
  PROVE  ForwardInv'
<1> DEFINE Grown(s, step) == [forward[w] EXCEPT !.active = @ + 1, !.streams[s] = step]
<1>1. WorkerOK(forward[w])  BY DEF ForwardInv
<1>2. CASE Fails(w) \/ Stops(w)  BY <1>2, FailsKeeps
<1>3. ASSUME NEW s \in Streams, NEW step \in {"socks", "open", "dial"}, Alive(forward[w]),
             forward[w].streams[s] = "free", Update(w, Grown(s, step))
      PROVE  ForwardInv'
  <2>1. /\ WorkerOK(Grown(s, step)) /\ Grown(s, step).pc = forward[w].pc
        /\ Grown(s, step).id = forward[w].id
    <3> DEFINE r == forward[w]
    <3>1. WorkerOK(r) /\ Alive(r) /\ r.streams[s] = "free" /\ step \in StreamSteps \ {"free"}
      BY <1>1, <1>3 DEF StreamSteps
    <3> HIDE DEF r
    <3>2. LET new == [r EXCEPT !.active = @ + 1, !.streams[s] = step] IN
          WorkerOK(new) /\ new.pc = r.pc /\ new.id = r.id
      BY <3>1, TakeStreamOK
    <3> QED  BY <3>2 DEF r
  <2> HIDE DEF Grown
  <2> QED  BY <1>3, <2>1, WorkerStepKeeps DEF Alive
<1>4. CASE LoopAccepts(w)
  <2>1. Alive(forward[w])  BY <1>4 DEF LoopAccepts, Accepting, Thread, Alive
  <2>2. \/ Fails(w)
        \/ \E s \in Streams, step \in {"socks", "open"} :
             forward[w].streams[s] = "free" /\ Update(w, Grown(s, step))
    BY <1>4 DEF LoopAccepts
  <2> HIDE DEF Grown
  <2> QED  BY <1>2, <1>3, <2>1, <2>2
<1>5. CASE ForwardedChannel(w)
  <2>1. Alive(forward[w])  BY <1>5 DEF ForwardedChannel, Alive
  <2>2. \E s \in Streams : forward[w].streams[s] = "free" /\ Update(w, Grown(s, "dial"))
    BY <1>5 DEF ForwardedChannel
  <2> HIDE DEF Grown
  <2> QED  BY <1>3, <2>1, <2>2
<1> QED  BY <1>2, <1>4, <1>5 DEF LoopStops, LoopAcceptFails, RemoteStops

LEMMA StreamsKeep ==
  ASSUME ForwardInv, NEW w \in ForwardWorkers, NEW s \in Streams,
         \/ ReadSocksDestination(w, s) \/ OpenChannel(w, s)
         \/ DialDestination(w, s) \/ ProxyEnds(w, s)
  PROVE  ForwardInv'
<1> DEFINE Next(step) == [forward[w] EXCEPT !.streams[s] = step]
<1>1. WorkerOK(forward[w]) /\ forward[w].streams[s] # "free"
  BY DEF ForwardInv, ReadSocksDestination, OpenChannel, DialDestination, ProxyEnds, StreamAt
<1>2. \/ Update(w, Leave(w, s)) \/ Update(w, SetStatus(Leave(w, s), "running", TRUE))
      \/ \E step \in {"open", "proxy"} : Update(w, Next(step))
  BY DEF ReadSocksDestination, OpenChannel, DialDestination, ProxyEnds, Complains
<1>3. /\ WorkerOK(Leave(w, s)) /\ Leave(w, s).pc = forward[w].pc
      /\ Leave(w, s).id = forward[w].id
  BY <1>1, LeaveOK
<1>4. CASE Update(w, Leave(w, s))  BY <1>3, <1>4, WorkerStepKeeps DEF Alive
<1>5. CASE Update(w, SetStatus(Leave(w, s), "running", TRUE))
  <2>1. LET rec == SetStatus(Leave(w, s), "running", TRUE) IN
        WorkerOK(rec) /\ rec.pc = forward[w].pc /\ rec.id = forward[w].id
    BY <1>3, SetStatusOK DEF Statuses
  <2> QED  BY <1>5, <2>1, WorkerStepKeeps DEF Alive
<1>6. ASSUME NEW step \in {"open", "proxy"}, Update(w, Next(step)) PROVE ForwardInv'
  <2>1. WorkerOK(Next(step)) /\ Next(step).pc = forward[w].pc /\ Next(step).id = forward[w].id
    BY <1>1, <1>6, MoveStreamOK DEF StreamSteps
  <2> HIDE DEF Next
  <2> QED  BY <1>6, <2>1, WorkerStepKeeps DEF Alive
<1> HIDE DEF Next
<1> QED  BY <1>2, <1>4, <1>5, <1>6

LEMMA SshConnectionClosesKeeps ==
  ASSUME ForwardInv, NEW w \in ForwardWorkers, SshConnectionCloses(w)
  PROVE  ForwardInv'
<1> DEFINE r == forward[w]
<1> DEFINE rec == [r EXCEPT !.online = FALSE]
<1>1. WorkerOK(r) /\ Update(w, rec)  BY DEF ForwardInv, SshConnectionCloses
<1> HIDE DEF r
<1>2. /\ rec \in WorkerRecords /\ rec.pc = r.pc /\ rec.id = r.id /\ rec.holds = r.holds
      /\ rec.streams = r.streams /\ rec.active = r.active
  BY <1>1 DEF WorkerOK, WorkerRecords
<1> HIDE DEF rec
<1>3. Busy(rec) = Busy(r)  BY <1>2 DEF Busy
<1>4. WorkerOK(rec) /\ Alive(rec) = Alive(r)  BY <1>1, <1>2, <1>3 DEF WorkerOK, Alive
<1> QED  BY <1>1, <1>2, <1>4, WorkerStepKeeps DEF r

(* The manager.                                                            *)
LEMMA CallStepKeeps ==
  ASSUME ForwardInv, UNCHANGED <<runtimes, forward>>, call' \in CallRecords,
         call'.pc = "spawn" => runtimes[call'.id] = NoWorker,
         call'.pc = "join" => runtimes[call'.id] # NoWorker
  PROVE  ForwardInv'
BY DEF ForwardInv

LEMMA UnbornOK == WorkerOK(Unborn)
<1> DEFINE r == Unborn
<1>1. /\ r \in WorkerRecords /\ r.pc = "unborn" /\ r.holds = FALSE /\ r.active = 0
      /\ r.streams = [s \in Streams |-> "free"]
  BY ForwardAssumption DEF Unborn, WorkerRecords, WorkerSteps, StreamSteps, ForwardTypes, Statuses
<1> HIDE DEF r
<1>2. Busy(r) = {} /\ Cardinality(Busy(r)) = 0  BY <1>1, FS_EmptySet DEF Busy
<1> QED  BY <1>1, <1>2 DEF WorkerOK, Alive, r

LEMMA IdleTyped == Idle \in CallRecords /\ Idle.pc = "idle"
BY ForwardAssumption DEF Idle, CallRecords, ForwardTypes

LEMMA TakeRuntimeKeeps ==
  ASSUME ForwardInv, TakeRuntime
  PROVE  ForwardInv'
<1>1. call \in CallRecords /\ NextPc \in {"spawn", "return"}  BY DEF ForwardInv, NextPc
<1>2. CASE runtimes[call.id] = NoWorker
  <2>1. call' = [call EXCEPT !.pc = NextPc] /\ UNCHANGED <<runtimes, forward>>
    BY <1>2 DEF TakeRuntime
  <2>2. call' \in CallRecords /\ call'.id = call.id /\ call'.pc = NextPc
    BY <1>1, <2>1 DEF CallRecords
  <2> QED  BY <1>1, <1>2, <2>1, <2>2, CallStepKeeps
<1>3. CASE runtimes[call.id] # NoWorker
  <2> DEFINE v == runtimes[call.id]
  <2> DEFINE r == forward[v]
  <2> DEFINE rec == [r EXCEPT !.stop = TRUE]
  <2>1. v \in ForwardWorkers  BY <1>1, <1>3 DEF ForwardInv, CallRecords
  <2>2. call' = [call EXCEPT !.pc = "join"] /\ UNCHANGED runtimes
        /\ forward' = [forward EXCEPT ![v] = rec]
    BY <1>3, <2>1 DEF TakeRuntime, ForwardInv
  <2>3. call' \in CallRecords /\ call'.id = call.id /\ call'.pc = "join"
    BY <1>1, <2>2 DEF CallRecords
  <2>4. WorkerOK(r) /\ (Alive(r) => runtimes[r.id] = v)  BY <2>1 DEF ForwardInv
  <2> HIDE DEF r
  <2>5. /\ rec \in WorkerRecords /\ rec.pc = r.pc /\ rec.id = r.id /\ rec.holds = r.holds
        /\ rec.streams = r.streams /\ rec.active = r.active
    BY <2>4 DEF WorkerOK, WorkerRecords
  <2> HIDE DEF rec
  <2>6. Busy(rec) = Busy(r)  BY <2>5 DEF Busy
  <2>7. WorkerOK(rec) /\ (Alive(rec) => runtimes[rec.id] = v)
    BY <2>4, <2>5, <2>6 DEF WorkerOK, Alive
  <2>8. forward' \in [ForwardWorkers -> WorkerRecords]  BY <2>2, <2>5 DEF ForwardInv
  <2>9. \A w \in ForwardWorkers :
          WorkerOK(forward'[w]) /\ (Alive(forward'[w]) => runtimes[forward'[w].id] = w)
    BY <2>2, <2>7 DEF ForwardInv
  <2>10. runtimes'[call'.id] # NoWorker  BY <1>3, <2>2, <2>3
  <2> HIDE DEF v
  <2> QED  BY <2>2, <2>3, <2>8, <2>9, <2>10 DEF ForwardInv
<1> QED  BY <1>2, <1>3

LEMMA JoinWorkerKeeps ==
  ASSUME ForwardInv, JoinWorker
  PROVE  ForwardInv'
<1> DEFINE i == call.id
<1> DEFINE v == runtimes[i]
<1> DEFINE rec == SetStatus(forward[v], "stopped", FALSE)
<1>1. i \in Forwards /\ v \in ForwardWorkers /\ forward[v].pc = "gone"
  BY DEF ForwardInv, CallRecords, JoinWorker, WorkerJoined, JoinsFirst, Gone
<1>2. call' = [call EXCEPT !.pc = NextPc] /\ runtimes' = [runtimes EXCEPT ![i] = NoWorker]
      /\ forward' = [forward EXCEPT ![v] = rec]
  BY <1>1 DEF JoinWorker, ForwardInv
<1>3. WorkerOK(forward[v]) /\ Busy(forward[v]) = {}  BY <1>1 DEF ForwardInv, WorkerOK, Alive
<1>4. WorkerOK(rec) /\ rec.pc = "gone"  BY <1>1, <1>3, SetStatusOK DEF Statuses
<1> HIDE DEF rec
<1>5. rec \in WorkerRecords /\ ~Alive(rec) /\ ~Alive(forward[v])  BY <1>1, <1>4 DEF WorkerOK, Alive
<1>6. runtimes' \in [Forwards -> ForwardWorkers \cup {NoWorker}] /\ runtimes'[i] = NoWorker
  BY <1>1, <1>2 DEF ForwardInv
<1>7. call' \in CallRecords /\ call'.id = i /\ call'.pc \in {"spawn", "return"}
  BY <1>2 DEF ForwardInv, CallRecords, NextPc
<1>8. forward' \in [ForwardWorkers -> WorkerRecords]  BY <1>2, <1>5 DEF ForwardInv
<1>9. ASSUME NEW w \in ForwardWorkers
      PROVE  WorkerOK(forward'[w]) /\ (Alive(forward'[w]) => runtimes'[forward'[w].id] = w)
  <2>1. CASE w = v  BY <1>1, <1>2, <1>4, <1>5, <2>1 DEF ForwardInv
  <2>2. CASE w # v
    <3>1. forward'[w] = forward[w]  BY <1>2, <2>2 DEF ForwardInv
    <3>2. WorkerOK(forward[w]) /\ (Alive(forward[w]) => runtimes[forward[w].id] = w)
      BY DEF ForwardInv
    <3>3. Alive(forward[w]) => forward[w].id # i  BY <2>2, <3>2
    <3>4. forward[w].id \in Forwards  BY <3>2 DEF WorkerOK, WorkerRecords
    <3>5. Alive(forward[w]) => runtimes'[forward[w].id] = w
      BY <1>2, <3>2, <3>3, <3>4 DEF ForwardInv
    <3> QED  BY <3>1, <3>2, <3>5
  <2> QED  BY <2>1, <2>2
<1> HIDE DEF i, v
<1> QED  BY <1>6, <1>7, <1>8, <1>9 DEF ForwardInv

LEMMA SpawnWorkerKeeps ==
  ASSUME ForwardInv, SpawnWorker
  PROVE  ForwardInv'
<1> DEFINE i == call.id
<1>1. call \in CallRecords /\ i \in Forwards /\ runtimes[i] = NoWorker
  BY DEF ForwardInv, CallRecords, SpawnWorker
<1>2. CASE call' = [call EXCEPT !.pc = "return"] /\ UNCHANGED <<runtimes, forward>>
  <2>1. call' \in CallRecords /\ call'.pc = "return"  BY <1>1, <1>2 DEF CallRecords
  <2> QED  BY <1>2, <2>1, CallStepKeeps
<1>3. ASSUME NEW v \in ForwardWorkers, forward[v].pc = "unborn",
             forward' = [forward EXCEPT ![v] = [Unborn EXCEPT !.type = call.type, !.id = i,
                                                              !.pc = "connect"]],
             runtimes' = [runtimes EXCEPT ![i] = v], call' = [call EXCEPT !.pc = "settle"]
      PROVE  ForwardInv'
  <2> DEFINE r == Unborn
  <2> DEFINE rec == [r EXCEPT !.type = call.type, !.id = i, !.pc = "connect"]
  <2>1. WorkerOK(r) /\ ~r.holds  BY UnbornOK DEF Unborn
  <2>2. forward' = [forward EXCEPT ![v] = rec]  BY <1>3
  <2> HIDE DEF r
  <2>3. /\ rec \in WorkerRecords /\ rec.pc = "connect" /\ rec.id = i /\ rec.holds = r.holds
        /\ rec.streams = r.streams /\ rec.active = r.active
    BY <1>1, <2>1 DEF WorkerOK, WorkerRecords, WorkerSteps, CallRecords
  <2> HIDE DEF rec
  <2>4. Busy(rec) = Busy(r)  BY <2>3 DEF Busy
  <2>5. WorkerOK(rec)  BY <2>1, <2>3, <2>4 DEF WorkerOK, Alive
  <2>6. runtimes' \in [Forwards -> ForwardWorkers \cup {NoWorker}] /\ runtimes'[i] = v
    BY <1>1, <1>3 DEF ForwardInv
  <2>7. call' \in CallRecords /\ call'.pc = "settle"  BY <1>1, <1>3 DEF CallRecords
  <2>8. forward' \in [ForwardWorkers -> WorkerRecords]  BY <2>2, <2>3 DEF ForwardInv
  <2>9. ASSUME NEW w \in ForwardWorkers
        PROVE  WorkerOK(forward'[w]) /\ (Alive(forward'[w]) => runtimes'[forward'[w].id] = w)
    <3>1. CASE w = v  BY <2>2, <2>3, <2>5, <2>6, <3>1 DEF ForwardInv
    <3>2. CASE w # v
      <4>1. forward'[w] = forward[w]  BY <2>2, <3>2 DEF ForwardInv
      <4>2. WorkerOK(forward[w]) /\ (Alive(forward[w]) => runtimes[forward[w].id] = w)
        BY DEF ForwardInv
      <4>3. Alive(forward[w]) => forward[w].id # i  BY <1>1, <4>2, ForwardAssumption
      <4>4. forward[w].id \in Forwards  BY <4>2 DEF WorkerOK, WorkerRecords
      <4>5. Alive(forward[w]) => runtimes'[forward[w].id] = w
        BY <1>3, <4>2, <4>3, <4>4 DEF ForwardInv
      <4> QED  BY <4>1, <4>2, <4>5
    <3> QED  BY <3>1, <3>2
  <2> QED  BY <2>6, <2>7, <2>8, <2>9 DEF ForwardInv
<1> QED  BY <1>2, <1>3 DEF SpawnWorker

LEMMA CallsKeep ==
  ASSUME ForwardInv,
         \/ \E i \in Forwards, type \in ForwardTypes, op \in {"start", "stop"} :
              BeginCall(op, i, type)
         \/ InitialStatus \/ ReturnCall
  PROVE  ForwardInv'
<1>1. UNCHANGED <<runtimes, forward>>  BY DEF BeginCall, InitialStatus, ReturnCall
<1>2. call' \in CallRecords /\ call'.pc \in {"stop", "return", "idle"}
  BY IdleTyped DEF ForwardInv, CallRecords, BeginCall, InitialStatus, ReturnCall
<1> QED  BY <1>1, <1>2, CallStepKeeps

LEMMA ForwardInvHolds == ForwardSpec => []ForwardInv
<1>1. ForwardInit => ForwardInv
  <2>1. WorkerOK(Unborn) /\ ~Alive(Unborn) /\ Unborn \in WorkerRecords
    BY UnbornOK DEF Alive, Unborn, WorkerOK
  <2> QED  BY <2>1, IdleTyped DEF ForwardInit, ForwardInv
<1>2. ForwardInv /\ [ForwardNext]_forwardVars => ForwardInv'
  <2>1. ASSUME ForwardInv, ForwardNext PROVE ForwardInv'
    <3>1. \A i \in Forwards : BeginCall("stop", i, "local") =>
             \E type \in ForwardTypes, op \in {"start", "stop"} : BeginCall(op, i, type)
      BY DEF ForwardTypes
    <3> QED
      BY <2>1, <3>1, StartupKeeps, AcceptingKeeps, StreamsKeep, SshConnectionClosesKeeps,
         TakeRuntimeKeeps, JoinWorkerKeeps, SpawnWorkerKeeps, CallsKeep DEF ForwardNext
  <2>2. ASSUME ForwardInv, UNCHANGED forwardVars PROVE ForwardInv'
    BY <2>2 DEF ForwardInv, forwardVars
  <2> QED  BY <2>1, <2>2
<1> QED  BY <1>1, <1>2, PTL DEF ForwardSpec

(* The types of the manager's map and of the workers' status, whose count  *)
(* of connections stays within their number.                               *)
THEOREM ForwardTyped == ForwardSpec => []ForwardTypeOK
<1>1. ForwardInv => ForwardTypeOK
  BY BusyFinite DEF ForwardInv, ForwardTypeOK, WorkerOK, WorkerRecords, CallRecords
<1> QED  BY <1>1, ForwardInvHolds, PTL

(* A rule's port is held by one worker at most, the one the manager knows, *)
(* and the number of connections that the status shows is their number     *)
(* (port_forward.rs: start and stop join the old worker; every connection  *)
(* counts itself in and out).                                              *)
THEOREM PortsHeldOnce == ForwardSpec => []PortHeldOnce
<1>1. ForwardInv => PortHeldOnce
  BY DEF ForwardInv, PortHeldOnce, WorkerOK, Alive, Busy
<1> QED  BY <1>1, ForwardInvHolds, PTL

-----------------------------------------------------------------------------
(* The files of an SFTP task.  What an upload has put beside its target,   *)
(* and where a complete item is to be found.                               *)

TransferSteps ==
  {"start", "check", "stage", "send", "commit", "publishNew", "overwrite", "preserve", "publish",
   "restore", "discard", "clean", "create", "receive", "target", "delete", "remove", "rename",
   "total", "open", "copy", "make", "done"}
FileTasks ==
  [request : Requests, pc : TransferSteps, kind : {"file", "folder"}, left : SUBSET Parts,
   written : SUBSET Parts, result : {"running", "ok", "error"}]
Files == [Paths -> Items \cup {NoItem}]

Staging(t) == UniqueStagingPath(t, "upload")
Backup(t) == UniqueStagingPath(t, "backup")
Uploads(t) == Op(t) = "upload"

TransferTyped ==
  /\ remote \in Files
  /\ held \subseteq Names
  /\ task \in [Tasks -> FileTasks]
  /\ \A t \in Tasks : (task[t].pc = "done") = (task[t].result # "running")
  /\ \A t \in Tasks : task[t].pc \in {"delete", "remove"} => Op(t) \in {"delete", "move", "copy"}
  /\ stopping \in [Tasks -> BOOLEAN]
  /\ online \in [Tasks -> BOOLEAN]
  /\ faults \in 0..MaxFaults
  /\ posix \in BOOLEAN

(* The staging path of an upload t is empty until it is staged, holds what *)
(* has been sent, and from the commit on is whole or already moved away;   *)
(* the backup path is empty until the old item has been moved to it.       *)
StagingOK(t) ==
  /\ task[t].pc \in {"start", "check", "stage"} => remote[Staging(t)] = NoItem
  /\ task[t].pc \in {"check", "stage"} => task[t].left = Parts
  /\ task[t].pc = "send" =>
       remote[Staging(t)] # NoItem /\ Parts \ task[t].left \subseteq remote[Staging(t)].parts
  /\ task[t].pc \in {"commit", "publishNew", "overwrite"} => Complete(remote[Staging(t)])
  /\ task[t].pc \in {"preserve", "publish"} =>
       remote[Staging(t)] = NoItem \/ Complete(remote[Staging(t)])
  /\ task[t].pc \notin {"publish", "restore", "discard", "clean", "done"} =>
       remote[Backup(t)] = NoItem

(* A file that nobody copies over or deletes is a whole one.               *)
WholeFile(i) == i # NoItem /\ i.kind = "file" => Complete(i)
FilesOK ==
  /\ \A n \in Names : Taken(n) \/ WholeFile(remote[n])
  /\ \A t \in Tasks : Uploads(t) => Taken(Target(t)) \/ WholeFile(remote[Backup(t)])

(* The item that a name held is there, or waits at a backup path that its  *)
(* upload is not about to remove.                                          *)
Kept(n) ==
  \/ Complete(remote[n])
  \/ \E t \in Tasks : Uploads(t) /\ Target(t) = n /\ task[t].pc # "discard"
                        /\ Complete(remote[Backup(t)])

TransferInv ==
  /\ TransferTyped
  /\ \A t \in Tasks : Uploads(t) => StagingOK(t)
  /\ FilesOK
  /\ \A n \in held : Taken(n) \/ Kept(n)

(* The paths of tasks and purposes differ from each other and from names.  *)
LEMMA PathsDiffer ==
  /\ \A t \in Tasks : /\ Staging(t) \in Paths /\ Backup(t) \in Paths /\ Staging(t) # Backup(t)
                      /\ Staging(t) \notin Names /\ Backup(t) \notin Names
  /\ \A t, u \in Tasks : t # u => Staging(t) # Staging(u) /\ Backup(t) # Backup(u)
  /\ \A t, u \in Tasks : Staging(t) # Backup(u)
  /\ Names \subseteq Paths
BY StagingAssumption DEF Staging, Backup, UniqueStagingPath, Paths, Purposes

(* One task moves, over the files `rem`, and the others stay as they are.  *)
Does(t, rem, rec) ==
  /\ remote' = rem /\ task' = [task EXCEPT ![t] = rec]
  /\ held' = held /\ UNCHANGED <<stopping, posix>>
  /\ online' \in [Tasks -> BOOLEAN] /\ faults' \in 0..MaxFaults

LEMMA RequestDoes ==
  ASSUME TransferTyped, NEW t \in Tasks, NEW after, NEW good, NEW bad, Request(t, after, good, bad)
  PROVE  Does(t, after, good) \/ Does(t, after, bad) \/ Does(t, remote, bad)
<1>1. UNCHANGED <<held, stopping, posix>>  BY DEF Request
<1>2. online' \in [Tasks -> BOOLEAN] /\ faults' \in 0..MaxFaults
  BY TransferAssumption DEF Request, TransferTyped
<1>3. \/ remote' = after /\ task' = [task EXCEPT ![t] = good]
      \/ remote' \in {remote, after} /\ task' = [task EXCEPT ![t] = bad]
  BY DEF Request
<1> QED  BY <1>1, <1>2, <1>3 DEF Does

LEMMA AttemptDoes ==
  ASSUME TransferTyped, NEW t \in Tasks, NEW after, NEW good, NEW bad,
         NEW possible \in BOOLEAN, Attempt(t, possible, after, good, bad)
  PROVE  \/ possible /\ (Does(t, after, good) \/ Does(t, after, bad))
         \/ Does(t, remote, bad)
BY RequestDoes DEF Attempt

LEMMA LocalDoes ==
  ASSUME TransferTyped, NEW t \in Tasks, NEW next, Local(t, next)
  PROVE  Does(t, remote, next)
BY DEF TransferTyped, Local, Does

LEMMA StatDoes ==
  ASSUME TransferTyped, NEW t \in Tasks, NEW p, NEW found, NEW absent, Stat(t, p, found, absent)
  PROVE  (remote[p] # NoItem /\ Does(t, remote, found)) \/ Does(t, remote, absent)
<1>1. CASE remote[p] # NoItem  BY <1>1, RequestDoes DEF Stat
<1>2. CASE remote[p] = NoItem  BY <1>2, RequestDoes DEF Stat
<1> QED  BY <1>1, <1>2

LEMMA RemotePathTotalDoes ==
  ASSUME TransferTyped, NEW t \in Tasks, NEW p, NEW next, RemotePathTotal(t, p, next)
  PROVE  (remote[p] # NoItem /\ Does(t, remote, next)) \/ Does(t, remote, Failed(t))
<1> DEFINE there == remote[p] # NoItem
<1>1. there \in BOOLEAN  OBVIOUS
<1>2. Local(t, Failed(t)) \/ Attempt(t, there, remote, next, Failed(t))
  BY DEF RemotePathTotal
<1> HIDE DEF there
<1> QED  BY <1>1, <1>2, LocalDoes, AttemptDoes DEF there

LEMMA RenameDoes ==
  ASSUME TransferTyped, NEW t \in Tasks, NEW from, NEW to, NEW good, NEW bad,
         Rename(t, from, to, good, bad)
  PROVE  LET after == [remote EXCEPT ![to] = remote[from], ![from] = NoItem] IN
         \/ CanRename(from, to) /\ (Does(t, after, good) \/ Does(t, after, bad))
         \/ Does(t, remote, bad)
<1> DEFINE may == CanRename(from, to)
<1>1. may \in BOOLEAN  BY DEF CanRename
<1>2. Attempt(t, may, [remote EXCEPT ![to] = remote[from], ![from] = NoItem], good, bad)
  BY DEF Rename
<1> HIDE DEF may
<1> QED  BY <1>1, <1>2, AttemptDoes DEF may

(* What the record a task goes on with must be, and the operators that     *)
(* make one.                                                               *)
GoesOn(t, rec) ==
  /\ rec \in FileTasks /\ rec.request = task[t].request
  /\ (rec.pc = "done") = (rec.result # "running")
  /\ rec.pc \in {"delete", "remove"} => Op(t) \in {"delete", "move", "copy"}

LEMMA RecordsGoOn ==
  ASSUME TransferTyped, NEW t \in Tasks, task[t].pc # "done"
  PROVE  /\ GoesOn(t, Failed(t)) /\ Failed(t).pc = "done"
         /\ GoesOn(t, Succeeded(t)) /\ Succeeded(t).pc = "done"
         /\ \A pc \in TransferSteps \ {"done"} :
              (pc \in {"delete", "remove"} => Op(t) \in {"delete", "move", "copy"})
                => /\ GoesOn(t, Goto(t, pc)) /\ Goto(t, pc).pc = pc
                   /\ Goto(t, pc).left = task[t].left /\ Goto(t, pc).kind = task[t].kind
<1> DEFINE r == task[t]
<1>1. r \in FileTasks /\ r.result = "running" /\ r.pc # "done"  BY DEF TransferTyped, FileTasks
<1> HIDE DEF r
<1>2. /\ [r EXCEPT !.pc = "done", !.result = "error"] \in FileTasks
      /\ [r EXCEPT !.pc = "done", !.result = "error"].request = r.request
      /\ [r EXCEPT !.pc = "done", !.result = "error"].pc = "done"
      /\ [r EXCEPT !.pc = "done", !.result = "error"].result = "error"
  BY <1>1 DEF FileTasks, TransferSteps
<1>3. /\ [r EXCEPT !.pc = "done", !.result = "ok"] \in FileTasks
      /\ [r EXCEPT !.pc = "done", !.result = "ok"].request = r.request
      /\ [r EXCEPT !.pc = "done", !.result = "ok"].pc = "done"
      /\ [r EXCEPT !.pc = "done", !.result = "ok"].result = "ok"
  BY <1>1 DEF FileTasks, TransferSteps
<1>4. ASSUME NEW pc \in TransferSteps \ {"done"}
      PROVE  /\ [r EXCEPT !.pc = pc] \in FileTasks
             /\ [r EXCEPT !.pc = pc].request = r.request
             /\ [r EXCEPT !.pc = pc].pc = pc /\ [r EXCEPT !.pc = pc].result = "running"
             /\ [r EXCEPT !.pc = pc].left = r.left /\ [r EXCEPT !.pc = pc].kind = r.kind
  BY <1>1 DEF FileTasks
<1> QED  BY <1>2, <1>3, <1>4 DEF GoesOn, Failed, Succeeded, Goto, r

(* What tasks were asked for does not change.                              *)
LEMMA RequestsStay ==
  ASSUME TransferTyped, NEW t \in Tasks, NEW rem, NEW rec, Does(t, rem, rec), GoesOn(t, rec)
  PROVE  /\ task' \in [Tasks -> FileTasks] /\ task'[t] = rec
         /\ \A u \in Tasks \ {t} : task'[u] = task[u]
         /\ \A u \in Tasks : Op(u)' = Op(u) /\ Target(u)' = Target(u) /\ Source(u)' = Source(u)
         /\ \A n : Taken(n)' = Taken(n)
<1>1. /\ task' \in [Tasks -> FileTasks] /\ task'[t] = rec
      /\ \A u \in Tasks \ {t} : task'[u] = task[u]
  BY DEF TransferTyped, Does, GoesOn
<1>2. \A u \in Tasks : task'[u].request = task[u].request  BY <1>1 DEF GoesOn
<1>3. \A u \in Tasks : Op(u)' = Op(u) /\ Target(u)' = Target(u) /\ Source(u)' = Source(u)
  BY <1>2 DEF Op, Target, Source
<1>4. ASSUME NEW n PROVE Taken(n)' = Taken(n)
  <2>1. Taken(n)' => Taken(n)  BY <1>3 DEF Taken
  <2>2. Taken(n) => Taken(n)'  BY <1>3 DEF Taken
  <2>3. Taken(n) \in BOOLEAN /\ Taken(n)' \in BOOLEAN  BY DEF Taken
  <2> QED  BY <2>1, <2>2, <2>3
<1> QED  BY <1>1, <1>3, <1>4

LEMMA TypedStep ==
  ASSUME TransferTyped, NEW t \in Tasks, NEW rem \in Files, NEW rec, Does(t, rem, rec),
         GoesOn(t, rec)
  PROVE  TransferTyped'
<1>1. task' \in [Tasks -> FileTasks]  BY RequestsStay
<1>2. ASSUME NEW u \in Tasks
      PROVE  /\ (task'[u].pc = "done") = (task'[u].result # "running")
             /\ task'[u].pc \in {"delete", "remove"} => Op(u)' \in {"delete", "move", "copy"}
  <2>1. Op(u)' = Op(u)  BY RequestsStay
  <2>2. CASE u = t  BY <2>1, <2>2, RequestsStay DEF GoesOn
  <2>3. CASE u # t
    <3>1. task'[u] = task[u]  BY <2>3, RequestsStay
    <3> QED  BY <2>1, <3>1 DEF TransferTyped
  <2> QED  BY <2>2, <2>3
<1>3. remote' \in Files /\ held' \subseteq Names /\ stopping' \in [Tasks -> BOOLEAN]
      /\ online' \in [Tasks -> BOOLEAN] /\ faults' \in 0..MaxFaults /\ posix' \in BOOLEAN
  BY DEF Does, TransferTyped
<1> QED  BY <1>1, <1>2, <1>3 DEF TransferTyped

(* A step of a task that does not upload changes no path that counts: it   *)
(* writes to names that are taken, or makes a folder where nothing was.    *)
LEMMA OutsideStepKeeps ==
  ASSUME TransferInv, NEW t \in Tasks, ~Uploads(t), NEW rem \in Files, NEW rec,
         Does(t, rem, rec), GoesOn(t, rec),
         \A p \in Paths : \/ rem[p] = remote[p]
                          \/ p \in Names /\ Taken(p)
                          \/ p \in Names /\ remote[p] = NoItem /\ rem[p].kind = "folder"
  PROVE  TransferInv'
<1>1. TransferTyped /\ TransferTyped'  BY TypedStep DEF TransferInv
<1>2. /\ \A u \in Tasks \ {t} : task'[u] = task[u]
      /\ \A u \in Tasks : Op(u)' = Op(u) /\ Target(u)' = Target(u)
      /\ \A n : Taken(n)' = Taken(n)
  BY <1>1, RequestsStay
<1>3. remote' = rem /\ held' = held  BY DEF Does
<1>4. ASSUME NEW u \in Tasks, Uploads(u)
      PROVE  /\ task'[u] = task[u] /\ u # t
             /\ remote'[Staging(u)] = remote[Staging(u)] /\ remote'[Backup(u)] = remote[Backup(u)]
  BY <1>2, <1>3, <1>4, PathsDiffer DEF Uploads
<1>5. ASSUME NEW u \in Tasks, Uploads(u)' PROVE StagingOK(u)'
  <2>1. Uploads(u)  BY <1>2, <1>5 DEF Uploads
  <2> QED  BY <1>4, <2>1 DEF TransferInv, StagingOK, Staging, Backup, UniqueStagingPath
<1>6. FilesOK'
  <2>1. ASSUME NEW n \in Names PROVE Taken(n) \/ WholeFile(rem[n])
    BY PathsDiffer DEF TransferInv, FilesOK, WholeFile
  <2>2. ASSUME NEW u \in Tasks, Uploads(u)
        PROVE Taken(Target(u)) \/ WholeFile(remote'[Backup(u)])
    BY <1>4, <2>2 DEF TransferInv, FilesOK
  <2> QED
    BY <1>2, <1>3, <2>1, <2>2 DEF FilesOK, Uploads, Backup, UniqueStagingPath
<1>7. ASSUME NEW n \in held, ~Taken(n) PROVE Kept(n)'
  <2>1. n \in Names /\ n \in Paths  BY <1>1, PathsDiffer DEF TransferTyped
  <2>2. Kept(n)  BY <1>7 DEF TransferInv
  <2>3. CASE Complete(remote[n])
    BY <1>3, <1>7, <2>1, <2>3 DEF Complete, Kept
  <2>4. CASE \E u \in Tasks : Uploads(u) /\ Target(u) = n /\ task[u].pc # "discard"
                                /\ Complete(remote[Backup(u)])
    BY <1>2, <1>4, <2>4 DEF Kept, Uploads, Backup, UniqueStagingPath
  <2> QED  BY <2>2, <2>3, <2>4 DEF Kept
<1> QED  BY <1>1, <1>2, <1>3, <1>5, <1>6, <1>7 DEF TransferInv

(* A step of an upload touches its own two paths and its target; what it   *)
(* must do so that the invariant holds.                                    *)
Safe(t, pc, rem) ==
  Complete(rem[Target(t)]) \/ (pc # "discard" /\ Complete(rem[Backup(t)]))
LEMMA UploadStepKeeps ==
  ASSUME TransferInv, NEW t \in Tasks, Uploads(t), NEW rem \in Files, NEW rec,
         Does(t, rem, rec), GoesOn(t, rec), StagingOK(t)',
         \A p \in Paths \ {Staging(t), Backup(t), Target(t)} : rem[p] = remote[p],
         \/ Taken(Target(t))
         \/ /\ WholeFile(rem[Target(t)]) /\ WholeFile(rem[Backup(t)])
            /\ Safe(t, task[t].pc, remote) => Safe(t, rec.pc, rem)
  PROVE  TransferInv'
<1>1. TransferTyped /\ TransferTyped'  BY TypedStep DEF TransferInv
<1>2. /\ \A u \in Tasks \ {t} : task'[u] = task[u]
      /\ task'[t] = rec
      /\ \A u \in Tasks : Op(u)' = Op(u) /\ Target(u)' = Target(u)
      /\ \A n : Taken(n)' = Taken(n)
  BY <1>1, RequestsStay
<1>3. remote' = rem /\ held' = held  BY DEF Does
<1>4. \A u \in Tasks : Target(u) \in Names
  BY <1>1 DEF TransferTyped, FileTasks, Requests, Target
<1>5. ASSUME NEW u \in Tasks \ {t}
      PROVE  remote'[Staging(u)] = remote[Staging(u)] /\ remote'[Backup(u)] = remote[Backup(u)]
  BY <1>3, <1>4, PathsDiffer
<1>6. ASSUME NEW u \in Tasks, Uploads(u)' PROVE StagingOK(u)'
  <2>1. CASE u = t  BY <2>1
  <2>2. CASE u # t
    <3>1. Uploads(u) /\ task'[u] = task[u]  BY <1>2, <1>6, <2>2 DEF Uploads
    <3>2. StagingOK(u)  BY <3>1 DEF TransferInv
    <3> QED  BY <1>5, <2>2, <3>1, <3>2 DEF StagingOK, Staging, Backup, UniqueStagingPath
  <2> QED  BY <2>1, <2>2
<1>7. FilesOK'
  <2>1. ASSUME NEW n \in Names PROVE Taken(n) \/ WholeFile(rem[n])
    <3>1. CASE n = Target(t)  BY <3>1 DEF TransferInv, FilesOK
    <3>2. CASE n # Target(t)  BY <3>2, PathsDiffer DEF TransferInv, FilesOK
    <3> QED  BY <3>1, <3>2
  <2>2. ASSUME NEW u \in Tasks, Uploads(u)
        PROVE Taken(Target(u)) \/ WholeFile(remote'[Backup(u)])
    <3>1. CASE u = t  BY <1>3, <3>1
    <3>2. CASE u # t  BY <1>5, <2>2, <3>2 DEF TransferInv, FilesOK
    <3> QED  BY <3>1, <3>2
  <2> QED
    BY <1>2, <1>3, <2>1, <2>2 DEF FilesOK, Uploads, Backup, UniqueStagingPath
<1>8. ASSUME NEW n \in held, ~Taken(n) PROVE Kept(n)'
  <2>1. n \in Names /\ n \in Paths /\ n # Staging(t) /\ n # Backup(t)
    BY <1>1, PathsDiffer DEF TransferTyped
  <2>2. Kept(n)  BY <1>8 DEF TransferInv
  <2>3. ASSUME NEW u \in Tasks \ {t}, Uploads(u), Target(u) = n, task[u].pc # "discard",
               Complete(remote[Backup(u)])
        PROVE  Kept(n)'
    BY <1>2, <1>5, <2>3 DEF Kept, Uploads, Backup, UniqueStagingPath
  <2>4. ASSUME Target(t) = n, Safe(t, task[t].pc, remote) PROVE Kept(n)'
    <3>1. Safe(t, rec.pc, rem)  BY <1>8, <2>4
    <3> QED  BY <1>2, <1>3, <2>4, <3>1 DEF Kept, Safe, Uploads, Backup, UniqueStagingPath
  <2>5. CASE Complete(remote[n])
    <3>1. CASE n = Target(t)  BY <2>4, <2>5, <3>1 DEF Safe
    <3>2. CASE n # Target(t)
      <4>1. rem[n] = remote[n]  BY <2>1, <3>2
      <4> QED  BY <1>3, <2>5, <4>1 DEF Kept
    <3> QED  BY <3>1, <3>2
  <2>6. CASE \E u \in Tasks : Uploads(u) /\ Target(u) = n /\ task[u].pc # "discard"
                                /\ Complete(remote[Backup(u)])
    <3>1. PICK u \in Tasks : Uploads(u) /\ Target(u) = n /\ task[u].pc # "discard"
                               /\ Complete(remote[Backup(u)])
      BY <2>6
    <3>2. CASE u = t  BY <2>4, <3>1, <3>2 DEF Safe
    <3>3. CASE u # t  BY <2>3, <3>1, <3>3
    <3> QED  BY <3>2, <3>3
  <2> QED  BY <2>2, <2>5, <2>6 DEF Kept
<1> QED  BY <1>1, <1>2, <1>3, <1>6, <1>7, <1>8 DEF TransferInv

LEMMA QuietStepKeeps ==
  ASSUME TransferInv, NEW t \in Tasks, ~Uploads(t), NEW rec, Does(t, remote, rec), GoesOn(t, rec)
  PROVE  TransferInv'
<1>1. remote \in Files  BY DEF TransferInv, TransferTyped
<1> QED  BY <1>1, OutsideStepKeeps

LEMMA WriteStepKeeps ==
  ASSUME TransferInv, NEW t \in Tasks, ~Uploads(t), NEW n \in Names, Taken(n),
         NEW item \in Items \cup {NoItem}, NEW rec,
         Does(t, [remote EXCEPT ![n] = item], rec), GoesOn(t, rec)
  PROVE  TransferInv'
<1> DEFINE rem == [remote EXCEPT ![n] = item]
<1>1. rem \in Files /\ \A p \in Paths : rem[p] = remote[p] \/ (p \in Names /\ Taken(p))
  BY PathsDiffer DEF TransferInv, TransferTyped, Files
<1> HIDE DEF rem
<1>2. Does(t, rem, rec)  BY DEF rem
<1> QED  BY <1>1, <1>2, OutsideStepKeeps

(* The paths of a task that does not upload.                               *)
LEMMA NamesTaken ==
  ASSUME TransferTyped, NEW t \in Tasks
  PROVE  /\ Source(t) \in Names /\ Target(t) \in Names
         /\ Op(t) \in {"delete", "move", "copy"} => Taken(Target(t))
         /\ Op(t) = "move" => Taken(Source(t))
         /\ Op(t) # "upload" => ~Uploads(t)
BY DEF TransferTyped, FileTasks, Requests, Op, Source, Target, Taken, Uploads

(* The other records that operations go on with.                           *)
LEMMA PartsGoOn ==
  ASSUME TransferTyped, NEW t \in Tasks, task[t].pc # "done", NEW i \in Parts
  PROVE  /\ GoesOn(t, PartDone(t, i)) /\ PartDone(t, i).pc = task[t].pc
         /\ PartDone(t, i).left = task[t].left \ {i}
         /\ GoesOn(t, [PartDone(t, i) EXCEPT !.written = @ \cup {i}])
<1> DEFINE r == task[t]
<1> DEFINE q == [r EXCEPT !.left = @ \ {i}]
<1>1. r \in FileTasks /\ r.result = "running" /\ r.pc # "done"
      /\ (r.pc \in {"delete", "remove"} => Op(t) \in {"delete", "move", "copy"})
  BY DEF TransferTyped, FileTasks
<1>2. PartDone(t, i) = q  BY DEF PartDone
<1> HIDE DEF r
<1>3. q \in FileTasks /\ q.request = r.request /\ q.pc = r.pc /\ q.result = "running"
      /\ q.left = r.left \ {i}
  BY <1>1 DEF FileTasks
<1> HIDE DEF q
<1> DEFINE w == [q EXCEPT !.written = @ \cup {i}]
<1>4. w \in FileTasks /\ w.request = q.request /\ w.pc = q.pc /\ w.result = q.result
  BY <1>3 DEF FileTasks
<1> QED  BY <1>1, <1>2, <1>3, <1>4 DEF GoesOn, r

LEMMA ListedGoesOn ==
  ASSUME TransferTyped, NEW t \in Tasks, task[t].pc # "done", NEW p \in Paths, remote[p] # NoItem,
         NEW pc \in TransferSteps \ {"done"},
         pc \in {"delete", "remove"} => Op(t) \in {"delete", "move", "copy"}
  PROVE  GoesOn(t, Listed(t, p, pc))
<1> DEFINE r == task[t]
<1> DEFINE i == remote[p]
<1>1. r \in FileTasks /\ r.result = "running"  BY DEF TransferTyped, FileTasks
<1>2. i.kind \in {"file", "folder"} /\ i.parts \in SUBSET Parts
  BY DEF TransferTyped, Files, Items
<1>3. Listed(t, p, pc) = [r EXCEPT !.pc = pc, !.kind = i.kind, !.left = i.parts]  BY DEF Listed
<1> HIDE DEF r, i
<1> DEFINE a == [r EXCEPT !.pc = pc]
<1> DEFINE b == [a EXCEPT !.kind = i.kind]
<1> DEFINE c == [b EXCEPT !.left = i.parts]
<1>4. [r EXCEPT !.pc = pc, !.kind = i.kind, !.left = i.parts] = c  OBVIOUS
<1>5. a \in FileTasks /\ a.request = r.request /\ a.pc = pc /\ a.result = "running"
  BY <1>1 DEF FileTasks
<1> HIDE DEF a
<1>6. b \in FileTasks /\ b.request = r.request /\ b.pc = pc /\ b.result = "running"
  BY <1>2, <1>5 DEF FileTasks
<1> HIDE DEF b
<1>7. c \in FileTasks /\ c.request = r.request /\ c.pc = pc /\ c.result = "running"
  BY <1>2, <1>6 DEF FileTasks
<1> HIDE DEF c
<1> QED  BY <1>3, <1>4, <1>7 DEF GoesOn, r

LEMMA NextPartsTyped ==
  ASSUME TransferTyped, NEW t \in Tasks PROVE NextParts(t) \subseteq Parts
BY DEF TransferTyped, FileTasks, NextParts

(* Download reads the host's files.                                        *)
LEMMA ReadPartDoes ==
  ASSUME TransferTyped, NEW t \in Tasks, NEW i, NEW after, NEW good, ReadPart(t, i, after, good)
  PROVE  \/ Does(t, after, good) \/ Does(t, after, Failed(t))
         \/ Does(t, remote, Failed(t)) \/ Does(t, remote, Succeeded(t))
<1>1. Request(t, after, good, Failed(t)) \/ Local(t, Failed(t)) \/ Local(t, Succeeded(t))
  BY DEF ReadPart
<1> QED  BY <1>1, RequestDoes, LocalDoes

LEMMA DownloadKeeps ==
  ASSUME TransferInv, NEW t \in Tasks, DownloadStart(t) \/ DownloadCreate(t) \/ DownloadPart(t)
  PROVE  TransferInv'
<1>1. TransferTyped /\ ~Uploads(t) /\ task[t].pc \in {"start", "create", "receive"}
  BY NamesTaken DEF TransferInv, DownloadStart, DownloadCreate, DownloadPart, At
<1>2. task[t].pc # "done"  BY <1>1
<1>3. GoesOn(t, Failed(t)) /\ GoesOn(t, Succeeded(t))  BY <1>1, <1>2, RecordsGoOn
<1>4. CASE Does(t, remote, Failed(t)) \/ Does(t, remote, Succeeded(t))
  BY <1>1, <1>3, <1>4, QuietStepKeeps
<1>5. CASE DownloadStart(t)
  <2>1. \/ remote[Source(t)] # NoItem /\ Does(t, remote, Listed(t, Source(t), "create"))
        \/ Does(t, remote, Failed(t))
    BY <1>1, <1>5, RemotePathTotalDoes DEF DownloadStart
  <2>2. Source(t) \in Paths  BY <1>1, NamesTaken, PathsDiffer
  <2>3. remote[Source(t)] # NoItem => GoesOn(t, Listed(t, Source(t), "create"))
    BY <1>1, <1>2, <2>2, ListedGoesOn DEF TransferSteps
  <2> QED  BY <1>1, <1>4, <2>1, <2>3, QuietStepKeeps
<1>6. CASE DownloadCreate(t)
  <2> DEFINE r == task[t]
  <2> DEFINE rec == [r EXCEPT !.pc = "receive", !.written = {}]
  <2>1. Does(t, remote, rec) \/ Does(t, remote, Failed(t))
    BY <1>1, <1>6, LocalDoes DEF DownloadCreate
  <2>2. r \in FileTasks /\ r.result = "running"  BY <1>1 DEF TransferTyped, FileTasks
  <2> HIDE DEF r
  <2>3. rec \in FileTasks /\ rec.request = r.request /\ rec.pc = "receive" /\ rec.result = "running"
    BY <2>2 DEF FileTasks, TransferSteps
  <2>4. GoesOn(t, rec)  BY <2>3 DEF GoesOn, r
  <2> HIDE DEF rec
  <2> QED  BY <1>1, <1>4, <2>1, <2>4, QuietStepKeeps
<1>7. CASE DownloadPart(t)
  <2>1. ASSUME NEW i \in NextParts(t),
               ReadPart(t, i, remote, [PartDone(t, i) EXCEPT !.written = @ \cup {i}])
        PROVE  TransferInv'
    <3> DEFINE rec == [PartDone(t, i) EXCEPT !.written = @ \cup {i}]
    <3>1. GoesOn(t, rec)  BY <1>1, <1>2, NextPartsTyped, PartsGoOn
    <3>2. ReadPart(t, i, remote, rec)  BY <2>1
    <3> HIDE DEF rec
    <3>3. Does(t, remote, rec) \/ Does(t, remote, Failed(t)) \/ Does(t, remote, Succeeded(t))
      BY <1>1, <3>2, ReadPartDoes
    <3> QED  BY <1>1, <1>4, <3>1, <3>3, QuietStepKeeps
  <2>2. CASE Local(t, Failed(t)) \/ Local(t, Succeeded(t))  BY <1>1, <1>4, <2>2, LocalDoes
  <2> QED  BY <1>7, <2>1, <2>2 DEF DownloadPart
<1> QED  BY <1>5, <1>6, <1>7

(* Delete, move and copy write to what they take.                          *)
LEMMA DeleteKeeps ==
  ASSUME TransferInv, NEW t \in Tasks, DeleteStart(t) \/ DeletePart(t)
  PROVE  TransferInv'
<1> DEFINE n == Target(t)
<1>1. TransferTyped /\ task[t].pc # "done" /\ Op(t) \in {"delete", "move", "copy"}
  BY DEF TransferInv, TransferTyped, DeleteStart, DeletePart, At
<1>2. ~Uploads(t) /\ n \in Names /\ Taken(n) /\ n \in Paths
  BY <1>1, NamesTaken, PathsDiffer
<1>3. GoesOn(t, Failed(t)) /\ GoesOn(t, AfterDelete(t))
  BY <1>1, RecordsGoOn DEF AfterDelete, TransferSteps
<1>4. CASE Does(t, remote, Failed(t))  BY <1>2, <1>3, <1>4, QuietStepKeeps
<1>5. CASE DeleteStart(t)
  <2>1. \/ remote[n] # NoItem /\ Does(t, remote, Listed(t, n, "remove"))
        \/ Does(t, remote, Failed(t))
    BY <1>1, <1>5, RemotePathTotalDoes DEF DeleteStart
  <2>2. remote[n] # NoItem => GoesOn(t, Listed(t, n, "remove"))
    BY <1>1, <1>2, ListedGoesOn DEF TransferSteps
  <2> QED  BY <1>2, <1>4, <2>1, <2>2, QuietStepKeeps
<1>6. CASE DeletePart(t)
  <2> DEFINE fits == /\ remote[n] # NoItem /\ remote[n].kind = task[t].kind
                     /\ task[t].kind = "folder" => remote[n].parts = {}
  <2>1. CASE Local(t, Failed(t))  BY <1>1, <1>4, <2>1, LocalDoes
  <2>2. ASSUME NEW i \in task[t].left,
               Attempt(t, remote[n] # NoItem /\ i \in remote[n].parts,
                       [remote EXCEPT ![n] = IF @ = NoItem THEN @ ELSE Item(@.kind, @.parts \ {i})],
                       PartDone(t, i), Failed(t))
        PROVE  TransferInv'
    <3> DEFINE there == remote[n] # NoItem /\ i \in remote[n].parts
    <3> DEFINE item == IF remote[n] = NoItem THEN NoItem
                       ELSE Item(remote[n].kind, remote[n].parts \ {i})
    <3>1. i \in Parts /\ GoesOn(t, PartDone(t, i))
      BY <1>1, PartsGoOn DEF TransferTyped, FileTasks
    <3>2. item \in Items \cup {NoItem}
      BY <1>1, <1>2 DEF TransferTyped, Files, Items, Item
    <3>3. [remote EXCEPT ![n] = IF @ = NoItem THEN @ ELSE Item(@.kind, @.parts \ {i})]
            = [remote EXCEPT ![n] = item]
      BY <1>1, <1>2 DEF TransferTyped, Files
    <3>4. Attempt(t, there, [remote EXCEPT ![n] = item], PartDone(t, i), Failed(t))
          /\ there \in BOOLEAN
      BY <2>2, <3>3
    <3> HIDE DEF item, there
    <3>5. \/ Does(t, [remote EXCEPT ![n] = item], PartDone(t, i))
          \/ Does(t, [remote EXCEPT ![n] = item], Failed(t)) \/ Does(t, remote, Failed(t))
      BY <1>1, <3>4, AttemptDoes
    <3> QED  BY <1>2, <1>3, <1>4, <3>1, <3>2, <3>5, WriteStepKeeps
  <2>3. CASE Attempt(t, fits, [remote EXCEPT ![n] = NoItem], AfterDelete(t), Failed(t))
    <3>1. fits \in BOOLEAN  OBVIOUS
    <3> HIDE DEF fits
    <3>2. \/ Does(t, [remote EXCEPT ![n] = NoItem], AfterDelete(t))
          \/ Does(t, [remote EXCEPT ![n] = NoItem], Failed(t)) \/ Does(t, remote, Failed(t))
      BY <1>1, <2>3, <3>1, AttemptDoes
    <3> QED  BY <1>2, <1>3, <1>4, <3>2, WriteStepKeeps
  <2> QED  BY <1>6, <2>1, <2>2, <2>3 DEF DeletePart
<1> QED  BY <1>5, <1>6

LEMMA MoveCopyKeeps ==
  ASSUME TransferInv, NEW t \in Tasks,
         \/ MoveCheck(t) \/ CopyCheck(t) \/ ReplaceTarget(t) \/ CopyTotal(t) \/ MoveRename(t)
  PROVE  TransferInv'
<1>1. TransferTyped /\ task[t].pc # "done" /\ Op(t) \in {"move", "copy"}
  BY DEF TransferInv, MoveCheck, CopyCheck, ReplaceTarget, CopyTotal, MoveRename, At
<1>2. ~Uploads(t) /\ Source(t) \in Names /\ Source(t) \in Paths /\ Target(t) \in Names
      /\ Taken(Target(t)) /\ (Op(t) = "move" => Taken(Source(t)))
  BY <1>1, NamesTaken, PathsDiffer
<1>3. GoesOn(t, Failed(t)) /\ GoesOn(t, Succeeded(t))
      /\ \A pc \in {"target", "delete", "rename", "total"} : GoesOn(t, Goto(t, pc))
  BY <1>1, RecordsGoOn DEF TransferSteps
<1>4. CASE \/ Does(t, remote, Failed(t))
           \/ \E pc \in {"target", "delete", "rename", "total"} : Does(t, remote, Goto(t, pc))
  BY <1>2, <1>3, <1>4, QuietStepKeeps
<1>5. CASE MoveCheck(t) \/ CopyCheck(t)
  BY <1>1, <1>4, <1>5, LocalDoes, RemotePathTotalDoes DEF MoveCheck, CopyCheck
<1>6. CASE ReplaceTarget(t)
  <2> DEFINE found == IF task[t].request.replace THEN Goto(t, "delete") ELSE Failed(t)
  <2> DEFINE absent == Goto(t, IF Op(t) = "move" THEN "rename" ELSE "total")
  <2>1. Stat(t, Target(t), found, absent)  BY <1>6 DEF ReplaceTarget
  <2>2. Does(t, remote, found) \/ Does(t, remote, absent)
    <3> HIDE DEF found, absent
    <3> QED  BY <1>1, <2>1, StatDoes
  <2> QED  BY <1>4, <2>2
<1>7. CASE CopyTotal(t)
  <2>1. \/ remote[Source(t)] # NoItem /\ Does(t, remote, Listed(t, Source(t), "open"))
        \/ Does(t, remote, Failed(t))
    BY <1>1, <1>7, RemotePathTotalDoes DEF CopyTotal
  <2>2. remote[Source(t)] # NoItem => GoesOn(t, Listed(t, Source(t), "open"))
    BY <1>1, <1>2, ListedGoesOn DEF TransferSteps
  <2> QED  BY <1>2, <1>4, <2>1, <2>2, QuietStepKeeps
<1>8. CASE MoveRename(t)
  <2> DEFINE s == Source(t)
  <2> DEFINE d == Target(t)
  <2> DEFINE rem == [remote EXCEPT ![d] = remote[s], ![s] = NoItem]
  <2>1. Op(t) = "move" /\ Rename(t, s, d, Succeeded(t), Failed(t))  BY <1>8 DEF MoveRename, At
  <2>2. \/ Does(t, rem, Succeeded(t)) \/ Does(t, rem, Failed(t)) \/ Does(t, remote, Failed(t))
    BY <1>1, <2>1, RenameDoes
  <2>3. rem \in Files /\ \A p \in Paths : rem[p] = remote[p] \/ p = s \/ p = d
    BY <1>1, <1>2 DEF TransferTyped, Files
  <2> HIDE DEF rem
  <2>4. \A p \in Paths : rem[p] = remote[p] \/ (p \in Names /\ Taken(p))
    BY <1>2, <2>1, <2>3
  <2> QED  BY <1>2, <1>3, <1>4, <2>2, <2>3, <2>4, OutsideStepKeeps
<1> QED  BY <1>5, <1>6, <1>7, <1>8

LEMMA CopyWritesKeep ==
  ASSUME TransferInv, NEW t \in Tasks, CopyOpen(t) \/ CopyPart(t)
  PROVE  TransferInv'
<1> DEFINE n == Target(t)
<1>1. TransferTyped /\ task[t].pc # "done" /\ Op(t) = "copy"
  BY DEF TransferInv, CopyOpen, CopyPart, At
<1>2. ~Uploads(t) /\ n \in Names /\ Taken(n) /\ n \in Paths /\ remote \in Files
  BY <1>1, NamesTaken, PathsDiffer DEF TransferTyped
<1>3. GoesOn(t, Failed(t)) /\ GoesOn(t, Succeeded(t)) /\ GoesOn(t, Goto(t, "copy"))
  BY <1>1, RecordsGoOn DEF TransferSteps
<1>4. CASE Does(t, remote, Failed(t)) \/ Does(t, remote, Succeeded(t))
  BY <1>2, <1>3, <1>4, QuietStepKeeps
<1>5. CASE CopyOpen(t)
  <2> DEFINE folder == IF remote[n] = NoItem THEN Item("folder", {}) ELSE remote[n]
  <2> DEFINE free(k) == remote[n] = NoItem \/ remote[n].kind = k
  <2>1. folder \in Items \cup {NoItem} /\ Item("file", {}) \in Items
    BY <1>2 DEF Files, Items, Item
  <2>2. [remote EXCEPT ![n] = IF @ = NoItem THEN Item("folder", {}) ELSE @]
          = [remote EXCEPT ![n] = folder]
    BY <1>2 DEF Files
  <2>3. \/ Local(t, Failed(t))
        \/ Attempt(t, free("folder"), [remote EXCEPT ![n] = folder], Goto(t, "copy"), Failed(t))
        \/ Attempt(t, free("file"), [remote EXCEPT ![n] = Item("file", {})], Goto(t, "copy"),
                   Failed(t))
    BY <1>5, <2>2 DEF CopyOpen, EnsureDirectory, CreateFile
  <2>4. \A k : free(k) \in BOOLEAN  OBVIOUS
  <2> HIDE DEF folder, free
  <2>5. \/ Does(t, remote, Failed(t))
        \/ \E item \in {folder, Item("file", {})}, rec \in {Goto(t, "copy"), Failed(t)} :
             Does(t, [remote EXCEPT ![n] = item], rec)
    BY <1>1, <2>3, <2>4, LocalDoes, AttemptDoes
  <2> QED  BY <1>2, <1>3, <1>4, <2>1, <2>5, WriteStepKeeps
<1>6. CASE CopyPart(t)
  <2>1. CASE Local(t, Failed(t)) \/ Local(t, Succeeded(t))  BY <1>1, <1>4, <2>1, LocalDoes
  <2>2. ASSUME NEW i \in NextParts(t),
               ReadPart(t, i, WithPart(n, task[t].kind, i), PartDone(t, i))
        PROVE  TransferInv'
    <3> DEFINE item == IF remote[n] = NoItem THEN Item(task[t].kind, {i})
                       ELSE Item(remote[n].kind, remote[n].parts \cup {i})
    <3>1. i \in Parts /\ GoesOn(t, PartDone(t, i))  BY <1>1, NextPartsTyped, PartsGoOn
    <3>2. item \in Items
      BY <1>1, <1>2, <3>1 DEF TransferTyped, FileTasks, Files, Items, Item
    <3>3. WithPart(n, task[t].kind, i) = [remote EXCEPT ![n] = item]
      BY <1>2 DEF WithPart, Files
    <3> HIDE DEF item
    <3>4. \/ Does(t, [remote EXCEPT ![n] = item], PartDone(t, i))
          \/ Does(t, [remote EXCEPT ![n] = item], Failed(t))
          \/ Does(t, remote, Failed(t)) \/ Does(t, remote, Succeeded(t))
      BY <1>1, <2>2, <3>3, ReadPartDoes
    <3> QED  BY <1>2, <1>3, <1>4, <3>1, <3>2, <3>4, WriteStepKeeps
  <2> QED  BY <1>6, <2>1, <2>2 DEF CopyPart
<1> QED  BY <1>5, <1>6

(* A folder is made only where nothing is.                                 *)
LEMMA MkdirKeeps ==
  ASSUME TransferInv, NEW t \in Tasks, MkdirCheck(t) \/ MkdirCreate(t)
  PROVE  TransferInv'
<1> DEFINE n == Target(t)
<1>1. TransferTyped /\ task[t].pc # "done" /\ Op(t) = "mkdir"
  BY DEF TransferInv, MkdirCheck, MkdirCreate, At
<1>2. ~Uploads(t) /\ n \in Names /\ n \in Paths /\ remote \in Files
  BY <1>1, NamesTaken, PathsDiffer DEF TransferTyped
<1>3. GoesOn(t, Failed(t)) /\ GoesOn(t, Succeeded(t)) /\ GoesOn(t, Goto(t, "make"))
  BY <1>1, RecordsGoOn DEF TransferSteps
<1>4. CASE Does(t, remote, Failed(t)) \/ Does(t, remote, Goto(t, "make"))
  BY <1>2, <1>3, <1>4, QuietStepKeeps
<1>5. CASE MkdirCheck(t)  BY <1>1, <1>4, <1>5, LocalDoes, StatDoes DEF MkdirCheck
<1>6. CASE MkdirCreate(t)
  <2> DEFINE rem == [remote EXCEPT ![n] = Item("folder", {})]
  <2> DEFINE there == remote[n] = NoItem
  <2>1. Attempt(t, there, rem, Succeeded(t), Failed(t))  BY <1>6 DEF MkdirCreate
  <2>2. there \in BOOLEAN  OBVIOUS
  <2>3. rem \in Files
    BY <1>2 DEF Files, Items, Item
  <2>4. \A p \in Paths : p # n => rem[p] = remote[p]  BY <1>2 DEF Files
  <2>5. rem[n].kind = "folder"  BY <1>2 DEF Files, Item
  <2> HIDE DEF rem, there
  <2>6. (there /\ (Does(t, rem, Succeeded(t)) \/ Does(t, rem, Failed(t))))
        \/ Does(t, remote, Failed(t))
    BY <1>1, <2>1, <2>2, AttemptDoes
  <2>7. there => \A p \in Paths : \/ rem[p] = remote[p]
                                  \/ p \in Names /\ remote[p] = NoItem /\ rem[p].kind = "folder"
    BY <1>2, <2>4, <2>5 DEF there
  <2> QED  BY <1>2, <1>3, <1>4, <2>3, <2>6, <2>7, OutsideStepKeeps
<1> QED  BY <1>5, <1>6

-----------------------------------------------------------------------------
(* The steps of an upload, one after the other.                            *)

(* What is known of the two paths of an upload.                            *)
LEMMA UploadKnows ==
  ASSUME TransferInv, NEW t \in Tasks, Uploads(t)
  PROVE  /\ TransferTyped /\ StagingOK(t) /\ remote \in Files
         /\ Staging(t) \in Paths /\ Backup(t) \in Paths /\ Target(t) \in Paths
         /\ Staging(t) # Backup(t) /\ Target(t) # Staging(t) /\ Target(t) # Backup(t)
         /\ ~Taken(Target(t)) => WholeFile(remote[Target(t)]) /\ WholeFile(remote[Backup(t)])
<1>1. TransferTyped /\ StagingOK(t) /\ remote \in Files  BY DEF TransferInv, TransferTyped
<1>2. Target(t) \in Names  BY <1>1, NamesTaken
<1> QED  BY <1>1, <1>2, PathsDiffer DEF TransferInv, FilesOK

(* The condition on the paths for the state after the step.                *)
StagedAs(t, rem, rec) ==
  /\ rec.pc \in {"start", "check", "stage"} => rem[Staging(t)] = NoItem
  /\ rec.pc \in {"check", "stage"} => rec.left = Parts
  /\ rec.pc = "send" =>
       rem[Staging(t)] # NoItem /\ Parts \ rec.left \subseteq rem[Staging(t)].parts
  /\ rec.pc \in {"commit", "publishNew", "overwrite"} => Complete(rem[Staging(t)])
  /\ rec.pc \in {"preserve", "publish"} =>
       rem[Staging(t)] = NoItem \/ Complete(rem[Staging(t)])
  /\ rec.pc \notin {"publish", "restore", "discard", "clean", "done"} => rem[Backup(t)] = NoItem

LEMMA StagedNext ==
  ASSUME TransferTyped, NEW t \in Tasks, NEW rem, NEW rec, Does(t, rem, rec), GoesOn(t, rec),
         StagedAs(t, rem, rec)
  PROVE  StagingOK(t)'
<1>1. remote' = rem /\ task'[t] = rec  BY RequestsStay DEF Does
<1> QED  BY <1>1 DEF StagedAs, StagingOK, Staging, Backup, UniqueStagingPath

(* An upload that only changes its staging path.                           *)
LEMMA StagingStepKeeps ==
  ASSUME TransferInv, NEW t \in Tasks, Uploads(t), NEW rem \in Files, NEW rec,
         Does(t, rem, rec), GoesOn(t, rec), StagedAs(t, rem, rec), rec.pc # "discard",
         \A p \in Paths \ {Staging(t)} : rem[p] = remote[p]
  PROVE  TransferInv'
<1>1. TransferTyped /\ StagingOK(t)'  BY StagedNext DEF TransferInv
<1>2. rem[Target(t)] = remote[Target(t)] /\ rem[Backup(t)] = remote[Backup(t)]
  BY UploadKnows
<1>3. ~Taken(Target(t)) => WholeFile(rem[Target(t)]) /\ WholeFile(rem[Backup(t)])
  BY <1>2, UploadKnows
<1>4. Safe(t, task[t].pc, remote) => Safe(t, rec.pc, rem)  BY <1>2 DEF Safe
<1> QED  BY <1>1, <1>3, <1>4, UploadStepKeeps

LEMMA PreparingKeeps ==
  ASSUME TransferInv, NEW t \in Tasks, LocalPathTotal(t) \/ UploadCheck(t)
  PROVE  TransferInv'
<1>1. /\ Uploads(t) /\ task[t].pc \in {"start", "check"} /\ task[t].pc # "done"
      /\ TransferTyped /\ StagingOK(t) /\ remote \in Files
  BY UploadKnows DEF LocalPathTotal, UploadCheck, At, Uploads
<1>2. GoesOn(t, Failed(t)) /\ Failed(t).pc = "done"
      /\ GoesOn(t, Goto(t, "stage")) /\ Goto(t, "stage").pc = "stage"
      /\ Goto(t, "stage").left = task[t].left
  BY <1>1, RecordsGoOn DEF TransferSteps
<1>3. CASE Does(t, remote, Failed(t))
  <2>1. StagedAs(t, remote, Failed(t))  BY <1>2 DEF StagedAs
  <2> QED  BY <1>1, <1>2, <1>3, <2>1, StagingStepKeeps
<1>4. CASE LocalPathTotal(t)
  <2> DEFINE r == task[t]
  <2> DEFINE k == r.request.kind
  <2> DEFINE a == [r EXCEPT !.pc = "check"]
  <2> DEFINE b == [a EXCEPT !.kind = k]
  <2> DEFINE rec == [b EXCEPT !.left = Parts]
  <2>1. [task[t] EXCEPT !.pc = "check", !.kind = task[t].request.kind, !.left = Parts] = rec
    OBVIOUS
  <2>2. Does(t, remote, rec) \/ Does(t, remote, Failed(t))
    BY <1>1, <1>4, <2>1, LocalDoes DEF LocalPathTotal
  <2>3. r \in FileTasks /\ r.result = "running" /\ k \in {"file", "folder"} /\ r.pc = "start"
    BY <1>1, <1>4 DEF TransferTyped, FileTasks, Requests, LocalPathTotal, At
  <2>4. r.pc = "start" => remote[Staging(t)] = NoItem /\ remote[Backup(t)] = NoItem
    BY <1>1 DEF StagingOK
  <2>5. r = task[t]  OBVIOUS
  <2> HIDE DEF r, k
  <2>6. a \in FileTasks /\ a.request = r.request /\ a.pc = "check" /\ a.result = "running"
    BY <2>3 DEF FileTasks, TransferSteps
  <2> HIDE DEF a
  <2>7. b \in FileTasks /\ b.request = r.request /\ b.pc = "check" /\ b.result = "running"
    BY <2>3, <2>6 DEF FileTasks
  <2> HIDE DEF b
  <2>8. rec \in FileTasks /\ rec.request = r.request /\ rec.pc = "check"
        /\ rec.result = "running" /\ rec.left = Parts
    BY <2>7 DEF FileTasks
  <2> HIDE DEF rec
  <2>9. GoesOn(t, rec)  BY <2>5, <2>8 DEF GoesOn
  <2>10. StagedAs(t, remote, rec)  BY <2>3, <2>4, <2>8 DEF StagedAs
  <2> QED  BY <1>1, <1>3, <2>2, <2>8, <2>9, <2>10, StagingStepKeeps
<1>5. CASE UploadCheck(t)
  <2>1. Does(t, remote, Goto(t, "stage")) \/ Does(t, remote, Failed(t))
    BY <1>1, <1>5, LocalDoes, StatDoes DEF UploadCheck
  <2>2. StagedAs(t, remote, Goto(t, "stage"))
    BY <1>1, <1>2, <1>5 DEF StagedAs, StagingOK, UploadCheck, At
  <2> QED  BY <1>1, <1>2, <1>3, <2>1, <2>2, StagingStepKeeps
<1> QED  BY <1>4, <1>5

(* A step that only puts an item at the staging path.                      *)
LEMMA PutStagingKeeps ==
  ASSUME TransferInv, NEW t \in Tasks, Uploads(t), NEW item \in Items \cup {NoItem}, NEW rec,
         Does(t, [remote EXCEPT ![Staging(t)] = item], rec), GoesOn(t, rec), rec.pc # "discard",
         StagedAs(t, [remote EXCEPT ![Staging(t)] = item], rec)
  PROVE  TransferInv'
<1> DEFINE rem == [remote EXCEPT ![Staging(t)] = item]
<1>1. rem \in Files /\ \A p \in Paths \ {Staging(t)} : rem[p] = remote[p]
  BY UploadKnows DEF Files
<1> HIDE DEF rem
<1>2. Does(t, rem, rec) /\ StagedAs(t, rem, rec)  BY DEF rem
<1> QED  BY <1>1, <1>2, StagingStepKeeps

LEMMA UploadStageKeeps ==
  ASSUME TransferInv, NEW t \in Tasks, UploadStage(t)
  PROVE  TransferInv'
<1> DEFINE s == Staging(t)
<1>1. Uploads(t) /\ task[t].pc = "stage"  BY DEF UploadStage, At, Uploads
<1>2. TransferTyped /\ remote \in Files /\ remote[s] = NoItem /\ remote[Backup(t)] = NoItem
      /\ task[t].left = Parts /\ s \in Paths /\ Backup(t) \in Paths /\ s # Backup(t)
  BY <1>1, UploadKnows DEF StagingOK
<1>3. \A pc \in {"send", "clean"} :
         GoesOn(t, Goto(t, pc)) /\ Goto(t, pc).pc = pc /\ Goto(t, pc).left = task[t].left
  BY <1>1, <1>2, RecordsGoOn DEF TransferSteps
<1> DEFINE Put(k) == [remote EXCEPT ![s] = Item(k, {})]
<1>4. UniqueStagingPath(t, "upload") = s  BY DEF Staging
<1>5. [remote EXCEPT ![s] = IF @ = NoItem THEN Item("folder", {}) ELSE @] = Put("folder")
  BY <1>2 DEF Files
<1> HIDE DEF s
<1>6. \/ Local(t, Goto(t, "clean"))
      \/ \E k \in {"file", "folder"} :
           Attempt(t, remote[s] = NoItem \/ remote[s].kind = k, Put(k), Goto(t, "send"),
                   Goto(t, "clean"))
  BY <1>1, <1>4, <1>5 DEF UploadStage, EnsureDirectory, CreateFile
<1> HIDE DEF Put
<1>7. \/ Does(t, remote, Goto(t, "clean"))
      \/ \E k \in {"file", "folder"} : Does(t, Put(k), Goto(t, "send"))
                                         \/ Does(t, Put(k), Goto(t, "clean"))
  <2>1. ASSUME NEW k \in {"file", "folder"},
               Attempt(t, remote[s] = NoItem \/ remote[s].kind = k, Put(k), Goto(t, "send"),
                       Goto(t, "clean"))
        PROVE  \/ Does(t, Put(k), Goto(t, "send")) \/ Does(t, Put(k), Goto(t, "clean"))
               \/ Does(t, remote, Goto(t, "clean"))
    BY <1>2, <2>1, RequestDoes DEF Attempt
  <2> QED  BY <1>2, <1>6, <2>1, LocalDoes
<1>8. CASE Does(t, remote, Goto(t, "clean"))
  <2>1. StagedAs(t, remote, Goto(t, "clean"))  BY <1>3 DEF StagedAs
  <2> QED  BY <1>1, <1>2, <1>3, <1>8, <2>1, StagingStepKeeps
<1>9. ASSUME NEW k \in {"file", "folder"}, NEW pc \in {"send", "clean"},
             Does(t, Put(k), Goto(t, pc))
      PROVE  TransferInv'
  <2>1. Item(k, {}) \in Items /\ Item(k, {}) # NoItem
    BY TransferAssumption DEF Items, Item
  <2>2. Put(k)[s] = Item(k, {}) /\ Put(k)[Backup(t)] = NoItem  BY <1>2 DEF Put, Files
  <2>3. StagedAs(t, Put(k), Goto(t, pc))
    BY <1>2, <1>3, <2>1, <2>2 DEF StagedAs, s
  <2>4. Goto(t, pc).pc # "discard" /\ GoesOn(t, Goto(t, pc))  BY <1>3
  <2> QED  BY <1>1, <1>9, <2>1, <2>3, <2>4, PutStagingKeeps DEF Put, s
<1> QED  BY <1>7, <1>8, <1>9

LEMMA UploadSendKeeps ==
  ASSUME TransferInv, NEW t \in Tasks, UploadSend(t)
  PROVE  TransferInv'
<1> DEFINE s == Staging(t)
<1>1. Uploads(t) /\ task[t].pc = "send"  BY DEF UploadSend, At, Uploads
<1>2. TransferTyped /\ remote \in Files /\ remote[s] # NoItem /\ remote[Backup(t)] = NoItem
      /\ Parts \ task[t].left \subseteq remote[s].parts
      /\ s \in Paths /\ Backup(t) \in Paths /\ s # Backup(t)
  BY <1>1, UploadKnows DEF StagingOK
<1>3. \A pc \in {"commit", "clean"} : GoesOn(t, Goto(t, pc)) /\ Goto(t, pc).pc = pc
  BY <1>1, <1>2, RecordsGoOn DEF TransferSteps
<1>4. remote[s] \in Items  BY <1>2 DEF Files
<1>5. CASE Does(t, remote, Goto(t, "clean"))
  <2>1. StagedAs(t, remote, Goto(t, "clean"))  BY <1>3 DEF StagedAs
  <2> QED  BY <1>1, <1>2, <1>3, <1>5, <2>1, StagingStepKeeps
<1>6. CASE task[t].left = {} /\ Does(t, remote, Goto(t, "commit"))
  <2>1. Complete(remote[s])  BY <1>2, <1>4, <1>6 DEF Complete, Items
  <2>2. StagedAs(t, remote, Goto(t, "commit"))  BY <1>2, <1>3, <2>1 DEF StagedAs
  <2> QED  BY <1>1, <1>2, <1>3, <1>6, <2>2, StagingStepKeeps
<1>7. ASSUME NEW i \in NextParts(t),
             Request(t, WithPart(s, task[t].kind, i), PartDone(t, i), Goto(t, "clean"))
      PROVE  TransferInv'
  <2> DEFINE item == Item(remote[s].kind, remote[s].parts \cup {i})
  <2> DEFINE rem == [remote EXCEPT ![s] = item]
  <2>1. i \in Parts /\ GoesOn(t, PartDone(t, i)) /\ PartDone(t, i).pc = "send"
        /\ PartDone(t, i).left = task[t].left \ {i}
    BY <1>1, <1>2, NextPartsTyped, PartsGoOn
  <2>2. item \in Items /\ item # NoItem /\ item.parts = remote[s].parts \cup {i}
    BY <1>4, <2>1, TransferAssumption DEF Items, Item
  <2>3. WithPart(s, task[t].kind, i) = rem  BY <1>2 DEF WithPart, Files
  <2> HIDE DEF item
  <2>4. rem[s] = item /\ rem[Backup(t)] = NoItem  BY <1>2 DEF Files
  <2>5. StagedAs(t, rem, PartDone(t, i)) /\ StagedAs(t, rem, Goto(t, "clean"))
    BY <1>2, <1>3, <2>1, <2>2, <2>4 DEF StagedAs
  <2>6. Does(t, rem, PartDone(t, i)) \/ Does(t, rem, Goto(t, "clean"))
        \/ Does(t, remote, Goto(t, "clean"))
    BY <1>2, <1>7, <2>3, RequestDoes
  <2>7. GoesOn(t, Goto(t, "clean")) /\ Goto(t, "clean").pc = "clean"  BY <1>3
  <2> QED  BY <1>1, <1>5, <2>1, <2>2, <2>5, <2>6, <2>7, PutStagingKeeps
<1>8. CASE Local(t, Goto(t, "clean"))  BY <1>2, <1>5, <1>8, LocalDoes
<1>9. CASE task[t].left = {} /\ Local(t, Goto(t, "commit"))  BY <1>2, <1>6, <1>9, LocalDoes
<1> QED  BY <1>7, <1>8, <1>9 DEF UploadSend, Staging

LEMMA CommitCheckKeeps ==
  ASSUME TransferInv, NEW t \in Tasks, CommitCheck(t)
  PROVE  TransferInv'
<1>1. Uploads(t) /\ task[t].pc = "commit"  BY DEF CommitCheck, At, Uploads
<1>2. TransferTyped /\ remote \in Files /\ Complete(remote[Staging(t)])
      /\ remote[Backup(t)] = NoItem
  BY <1>1, UploadKnows DEF StagingOK
<1>3. \A pc \in {"overwrite", "clean", "publishNew"} :
         GoesOn(t, Goto(t, pc)) /\ Goto(t, pc).pc = pc
  BY <1>1, <1>2, RecordsGoOn DEF TransferSteps
<1>4. \E pc \in {"overwrite", "clean", "publishNew"} : Does(t, remote, Goto(t, pc))
  BY <1>2, StatDoes DEF CommitCheck
<1>5. \A pc \in {"overwrite", "clean", "publishNew"} : StagedAs(t, remote, Goto(t, pc))
  BY <1>2, <1>3 DEF StagedAs
<1> QED  BY <1>1, <1>2, <1>3, <1>4, <1>5, StagingStepKeeps

-----------------------------------------------------------------------------
(* The renames of the commit.                                              *)

(* One item moves from one path of the upload to another.                  *)
Carried(from, to) == [remote EXCEPT ![to] = remote[from], ![from] = NoItem]
LEMMA CarriedFiles ==
  ASSUME TransferInv, NEW t \in Tasks, Uploads(t),
         NEW from \in {Staging(t), Backup(t), Target(t)},
         NEW to \in {Staging(t), Backup(t), Target(t)} \ {from}
  PROVE  /\ Carried(from, to) \in Files
         /\ Carried(from, to)[to] = remote[from] /\ Carried(from, to)[from] = NoItem
         /\ \A p \in Paths \ {from, to} : Carried(from, to)[p] = remote[p]
<1>1. remote \in Files /\ from \in Paths /\ to \in Paths /\ from # to  BY UploadKnows
<1> QED  BY <1>1 DEF Carried, Files

LEMMA CarryDoes ==
  ASSUME TransferTyped, NEW t \in Tasks, NEW from, NEW to, NEW good, NEW bad,
         Rename(t, from, to, good, bad)
  PROVE  \/ CanRename(from, to) /\ (Does(t, Carried(from, to), good) \/ Does(t, Carried(from, to), bad))
         \/ Does(t, remote, bad)
BY RenameDoes DEF Carried

(* A failed or refused rename that left everything where it was.           *)
LEMMA StayKeeps ==
  ASSUME TransferInv, NEW t \in Tasks, Uploads(t), NEW rec, Does(t, remote, rec), GoesOn(t, rec),
         StagedAs(t, remote, rec), rec.pc # "discard"
  PROVE  TransferInv'
<1>1. remote \in Files  BY UploadKnows
<1> QED  BY <1>1, StagingStepKeeps

(* From the staging path to the target, over whatever was there.           *)
LEMMA PublishedKeeps ==
  ASSUME TransferInv, NEW t \in Tasks, Uploads(t), CanRename(Staging(t), Target(t)),
         Complete(remote[Staging(t)]) \/ remote[Staging(t)] = NoItem,
         NEW rec, Does(t, Carried(Staging(t), Target(t)), rec), GoesOn(t, rec),
         StagedAs(t, Carried(Staging(t), Target(t)), rec)
  PROVE  TransferInv'
<1> DEFINE rem == Carried(Staging(t), Target(t))
<1>1. Complete(remote[Staging(t)])  BY DEF CanRename
<1>2. /\ rem \in Files
      /\ rem[Target(t)] = remote[Staging(t)]
      /\ \A p \in Paths \ {Staging(t), Target(t)} : rem[p] = remote[p]
  BY UploadKnows, CarriedFiles
<1>3. rem[Backup(t)] = remote[Backup(t)]  BY <1>2, UploadKnows
<1>4. WholeFile(rem[Target(t)]) /\ Safe(t, rec.pc, rem)  BY <1>1, <1>2 DEF WholeFile, Safe
<1>5. ~Taken(Target(t)) => WholeFile(rem[Backup(t)])  BY <1>3, UploadKnows
<1>6. TransferTyped  BY DEF TransferInv
<1> HIDE DEF rem
<1>7. Does(t, rem, rec) /\ StagedAs(t, rem, rec)  BY DEF rem
<1>8. StagingOK(t)'  BY <1>2, <1>6, <1>7, StagedNext
<1> QED  BY <1>2, <1>4, <1>5, <1>7, <1>8, UploadStepKeeps

(* From the target to the empty backup path, and from there back.          *)
LEMMA PreservedKeeps ==
  ASSUME TransferInv, NEW t \in Tasks, Uploads(t), remote[Backup(t)] = NoItem,
         NEW rec, Does(t, Carried(Target(t), Backup(t)), rec), GoesOn(t, rec),
         StagedAs(t, Carried(Target(t), Backup(t)), rec), rec.pc # "discard"
  PROVE  TransferInv'
<1> DEFINE rem == Carried(Target(t), Backup(t))
<1>2. /\ rem \in Files
      /\ rem[Backup(t)] = remote[Target(t)] /\ rem[Target(t)] = NoItem
      /\ \A p \in Paths \ {Target(t), Backup(t)} : rem[p] = remote[p]
  BY UploadKnows, CarriedFiles
<1>3. Safe(t, task[t].pc, remote) => Safe(t, rec.pc, rem)
  BY <1>2 DEF Safe, Complete
<1>4. ~Taken(Target(t)) => WholeFile(rem[Target(t)]) /\ WholeFile(rem[Backup(t)])
  BY <1>2, UploadKnows DEF WholeFile
<1>6. TransferTyped  BY DEF TransferInv
<1> HIDE DEF rem
<1>7. Does(t, rem, rec) /\ StagedAs(t, rem, rec)  BY DEF rem
<1>8. StagingOK(t)'  BY <1>2, <1>6, <1>7, StagedNext
<1> QED  BY <1>2, <1>3, <1>4, <1>7, <1>8, UploadStepKeeps

LEMMA RestoredKeeps ==
  ASSUME TransferInv, NEW t \in Tasks, Uploads(t), CanRename(Backup(t), Target(t)),
         NEW rec, Does(t, Carried(Backup(t), Target(t)), rec), GoesOn(t, rec),
         StagedAs(t, Carried(Backup(t), Target(t)), rec), task[t].pc = "restore"
  PROVE  TransferInv'
<1> DEFINE rem == Carried(Backup(t), Target(t))
<1>2. /\ rem \in Files
      /\ rem[Target(t)] = remote[Backup(t)] /\ rem[Backup(t)] = NoItem
      /\ \A p \in Paths \ {Target(t), Backup(t)} : rem[p] = remote[p]
  BY UploadKnows, CarriedFiles
<1>3. ASSUME ~Taken(Target(t))
      PROVE  /\ WholeFile(rem[Target(t)]) /\ WholeFile(rem[Backup(t)])
             /\ Safe(t, task[t].pc, remote) => Safe(t, rec.pc, rem)
  <2>1. WholeFile(remote[Backup(t)])  BY <1>3, UploadKnows
  <2>2. WholeFile(rem[Target(t)]) /\ WholeFile(rem[Backup(t)])  BY <1>2, <2>1 DEF WholeFile
  <2>3. CASE remote[Target(t)] = NoItem  BY <1>2, <2>2, <2>3 DEF Safe, Complete
  <2>4. CASE remote[Target(t)] # NoItem
    <3>1. remote[Backup(t)] # NoItem /\ remote[Backup(t)].kind = "file"
      BY <2>4 DEF CanRename
    <3>2. Complete(rem[Target(t)])  BY <1>2, <2>1, <3>1 DEF WholeFile
    <3> QED  BY <2>2, <3>2 DEF Safe
  <2> QED  BY <2>3, <2>4
<1>6. TransferTyped  BY DEF TransferInv
<1> HIDE DEF rem
<1>7. Does(t, rem, rec) /\ StagedAs(t, rem, rec)  BY DEF rem
<1>8. StagingOK(t)'  BY <1>2, <1>6, <1>7, StagedNext
<1> QED  BY <1>2, <1>3, <1>7, <1>8, UploadStepKeeps

LEMMA CommitRenameKeeps ==
  ASSUME TransferInv, NEW t \in Tasks, CommitRename(t)
  PROVE  TransferInv'
<1> DEFINE s == Staging(t)
<1> DEFINE b == Backup(t)
<1> DEFINE n == Target(t)
<1> DEFINE Following == {"clean", "preserve", "publish", "discard", "restore"}
<1>1. /\ Uploads(t)
      /\ task[t].pc \in {"publishNew", "overwrite", "preserve", "publish", "restore"}
  BY DEF CommitRename, CommitKeepingBackup, At, Uploads
<1>2. /\ TransferTyped /\ StagingOK(t) /\ remote \in Files /\ task[t].pc # "done"
      /\ s \in Paths /\ b \in Paths /\ n \in Paths /\ s # b /\ n # s /\ n # b
  BY <1>1, UploadKnows
<1>3. /\ \A pc \in Following : GoesOn(t, Goto(t, pc)) /\ Goto(t, pc).pc = pc
      /\ GoesOn(t, Succeeded(t)) /\ Succeeded(t).pc = "done"
  BY <1>2, RecordsGoOn DEF TransferSteps
<1>4. UniqueStagingPath(t, "upload") = s /\ UniqueStagingPath(t, "backup") = b
  BY DEF Staging, Backup
<1>5. /\ Carried(s, n)[s] = NoItem /\ Carried(s, n)[b] = remote[b]
      /\ Carried(n, b)[s] = remote[s]
  BY <1>1, <1>2, CarriedFiles
<1> HIDE DEF Following, s, b, n
<1>6. CASE task[t].pc = "publishNew" /\ Rename(t, s, n, Succeeded(t), Goto(t, "clean"))
  <2>1. Complete(remote[s])  BY <1>2, <1>6 DEF StagingOK, s
  <2>2. \A rem : StagedAs(t, rem, Succeeded(t)) /\ StagedAs(t, rem, Goto(t, "clean"))
    BY <1>3 DEF StagedAs, Following
  <2>3. \/ CanRename(s, n) /\ \E rec \in {Succeeded(t), Goto(t, "clean")} : Does(t, Carried(s, n), rec)
        \/ Does(t, remote, Goto(t, "clean"))
    BY <1>2, <1>6, CarryDoes
  <2>4. CASE Does(t, remote, Goto(t, "clean"))
    BY <1>1, <1>3, <2>2, <2>4, StayKeeps DEF Following
  <2>5. CASE CanRename(s, n) /\ \E rec \in {Succeeded(t), Goto(t, "clean")} : Does(t, Carried(s, n), rec)
    BY <1>1, <1>3, <2>1, <2>2, <2>5, PublishedKeeps DEF Following, s, n
  <2> QED  BY <2>3, <2>4, <2>5
<1>7. CASE task[t].pc = "overwrite" /\ Rename(t, s, n, Succeeded(t), Goto(t, "preserve"))
  <2>1. Complete(remote[s]) /\ remote[b] = NoItem  BY <1>2, <1>7 DEF StagingOK, s, b
  <2>2. \A rem : StagedAs(t, rem, Succeeded(t))  BY <1>3 DEF StagedAs
  <2>3. StagedAs(t, remote, Goto(t, "preserve")) /\ StagedAs(t, Carried(s, n), Goto(t, "preserve"))
    BY <1>3, <1>5, <2>1 DEF StagedAs, Following, s, b
  <2>4. \/ CanRename(s, n) /\ \E rec \in {Succeeded(t), Goto(t, "preserve")} :
                                Does(t, Carried(s, n), rec)
        \/ Does(t, remote, Goto(t, "preserve"))
    BY <1>2, <1>7, CarryDoes
  <2>5. CASE Does(t, remote, Goto(t, "preserve"))
    BY <1>1, <1>3, <2>3, <2>5, StayKeeps DEF Following
  <2>6. CASE CanRename(s, n) /\ \E rec \in {Succeeded(t), Goto(t, "preserve")} :
                                  Does(t, Carried(s, n), rec)
    BY <1>1, <1>3, <2>1, <2>2, <2>3, <2>6, PublishedKeeps DEF Following, s, n
  <2> QED  BY <2>4, <2>5, <2>6
<1>8. CASE task[t].pc = "preserve" /\ Rename(t, n, b, Goto(t, "publish"), Goto(t, "clean"))
  <2>1. remote[b] = NoItem /\ (remote[s] = NoItem \/ Complete(remote[s]))
    BY <1>2, <1>8 DEF StagingOK, s, b
  <2>2. \A rem : StagedAs(t, rem, Goto(t, "clean"))  BY <1>3 DEF StagedAs, Following
  <2>3. StagedAs(t, Carried(n, b), Goto(t, "publish"))
    BY <1>3, <1>5, <2>1 DEF StagedAs, Following, s
  <2>4. \/ \E pc \in {"publish", "clean"} : Does(t, Carried(n, b), Goto(t, pc))
        \/ Does(t, remote, Goto(t, "clean"))
    BY <1>2, <1>8, CarryDoes
  <2>5. CASE Does(t, remote, Goto(t, "clean"))
    BY <1>1, <1>3, <2>2, <2>5, StayKeeps DEF Following
  <2>6. CASE \E pc \in {"publish", "clean"} : Does(t, Carried(n, b), Goto(t, pc))
    BY <1>1, <1>3, <2>1, <2>2, <2>3, <2>6, PreservedKeeps DEF Following, b, n
  <2> QED  BY <2>4, <2>5, <2>6
<1>9. CASE task[t].pc = "publish" /\ Rename(t, s, n, Goto(t, "discard"), Goto(t, "restore"))
  <2>1. remote[s] = NoItem \/ Complete(remote[s])  BY <1>2, <1>9 DEF StagingOK, s
  <2>2. \A rem : StagedAs(t, rem, Goto(t, "discard")) /\ StagedAs(t, rem, Goto(t, "restore"))
    BY <1>3 DEF StagedAs, Following
  <2>3. \/ CanRename(s, n) /\ \E pc \in {"discard", "restore"} : Does(t, Carried(s, n), Goto(t, pc))
        \/ Does(t, remote, Goto(t, "restore"))
    BY <1>2, <1>9, CarryDoes
  <2>4. CASE Does(t, remote, Goto(t, "restore"))
    BY <1>1, <1>3, <2>2, <2>4, StayKeeps DEF Following
  <2>5. CASE CanRename(s, n) /\ \E pc \in {"discard", "restore"} : Does(t, Carried(s, n), Goto(t, pc))
    BY <1>1, <1>3, <2>1, <2>2, <2>5, PublishedKeeps DEF Following, s, n
  <2> QED  BY <2>3, <2>4, <2>5
<1>10. CASE task[t].pc = "restore" /\ Rename(t, b, n, Goto(t, "clean"), Goto(t, "clean"))
  <2>1. \A rem : StagedAs(t, rem, Goto(t, "clean"))  BY <1>3 DEF StagedAs, Following
  <2>2. \/ CanRename(b, n) /\ Does(t, Carried(b, n), Goto(t, "clean"))
        \/ Does(t, remote, Goto(t, "clean"))
    BY <1>2, <1>10, CarryDoes
  <2>3. CASE Does(t, remote, Goto(t, "clean"))
    BY <1>1, <1>3, <2>1, <2>3, StayKeeps DEF Following
  <2>4. CASE CanRename(b, n) /\ Does(t, Carried(b, n), Goto(t, "clean"))
    BY <1>1, <1>3, <1>10, <2>1, <2>4, RestoredKeeps DEF Following, b, n
  <2> QED  BY <2>2, <2>3, <2>4
<1> QED
  BY <1>4, <1>6, <1>7, <1>8, <1>9, <1>10 DEF CommitRename, CommitKeepingBackup, At, n

(* What is left of an item that is being removed: it, or part of a folder. *)
Shrunk(item, i) == item = NoItem \/ item = i \/ item.kind = "folder"

(* remove_remote_path_quiet, on the backup path and on the staging path.   *)
LEMMA RemoveQuietDoes ==
  ASSUME TransferTyped, NEW t \in Tasks, NEW p \in Paths, NEW end, RemoveQuiet(t, p, end)
  PROVE  \E item \in Items \cup {NoItem}, rec \in {task[t], end} :
           Does(t, [remote EXCEPT ![p] = item], rec) /\ Shrunk(item, remote[p])
<1> DEFINE Goal(item, rec) == Does(t, [remote EXCEPT ![p] = item], rec) /\ Shrunk(item, remote[p])
<1>1. remote \in Files /\ remote[p] \in Items \cup {NoItem}  BY DEF TransferTyped, Files
<1>2. [remote EXCEPT ![p] = remote[p]] = remote  BY <1>1 DEF Files
<1>3. ASSUME NEW rec \in {task[t], end}, Does(t, remote, rec)
      PROVE  \E item \in Items \cup {NoItem} : Goal(item, rec)
  <2>1. Goal(remote[p], rec)  BY <1>2, <1>3 DEF Shrunk
  <2> QED  BY <1>1, <2>1
<1>4. CASE remote[p] = NoItem /\ Local(t, end)  BY <1>3, <1>4, LocalDoes
<1>5. ASSUME NEW i \in remote[p].parts, remote[p] # NoItem, remote[p].kind = "folder",
             Request(t, WithoutPart(p, i), task[t], end)
      PROVE  \E item \in Items \cup {NoItem}, rec \in {task[t], end} : Goal(item, rec)
  <2> DEFINE r == remote[p]
  <2> DEFINE item == [r EXCEPT !.parts = @ \ {i}]
  <2>1. WithoutPart(p, i) = [remote EXCEPT ![p] = item]  BY <1>1 DEF WithoutPart, Files
  <2>2. r \in Items /\ r.kind = "folder"  BY <1>1, <1>5
  <2> HIDE DEF r
  <2>3. item \in Items /\ item.kind = "folder"  BY <2>2 DEF Items
  <2> HIDE DEF item
  <2>4. \/ Does(t, [remote EXCEPT ![p] = item], task[t])
        \/ Does(t, [remote EXCEPT ![p] = item], end) \/ Does(t, remote, end)
    BY <1>5, <2>1, RequestDoes
  <2>5. CASE Does(t, remote, end)  BY <1>3, <2>5
  <2>6. ASSUME NEW rec \in {task[t], end}, Does(t, [remote EXCEPT ![p] = item], rec)
        PROVE  Goal(item, rec)
    BY <2>3, <2>6 DEF Shrunk
  <2> HIDE DEF Goal
  <2> QED  BY <2>3, <2>4, <2>5, <2>6
<1>6. CASE Request(t, [remote EXCEPT ![p] = NoItem], end, end)
  <2>1. Does(t, [remote EXCEPT ![p] = NoItem], end) \/ Does(t, remote, end)
    BY <1>6, RequestDoes
  <2>2. CASE Does(t, remote, end)  BY <1>3, <2>2
  <2>3. CASE Does(t, [remote EXCEPT ![p] = NoItem], end)
    <3>1. Goal(NoItem, end)  BY <2>3 DEF Shrunk
    <3> HIDE DEF Goal
    <3>2. NoItem \in Items \cup {NoItem} /\ end \in {task[t], end}  OBVIOUS
    <3>3. \E item \in Items \cup {NoItem}, rec \in {task[t], end} : Goal(item, rec)
      BY <3>1, <3>2
    <3> QED  BY <3>3 DEF Goal
  <2> QED  BY <2>1, <2>2, <2>3
<1>7. \E item \in Items \cup {NoItem}, rec \in {task[t], end} : Goal(item, rec)
  <2> HIDE DEF Goal
  <2> QED  BY <1>4, <1>5, <1>6 DEF RemoveQuiet, Goal
<1> QED  BY <1>7

LEMMA RemovalsKeep ==
  ASSUME TransferInv, NEW t \in Tasks, CommitDiscard(t) \/ UploadClean(t)
  PROVE  TransferInv'
<1>1. Uploads(t) /\ task[t].pc \in {"discard", "clean"}
  BY DEF CommitDiscard, UploadClean, At, Uploads
<1>2. TransferTyped /\ remote \in Files /\ task[t].pc # "done" /\ task[t] \in FileTasks
  BY <1>1, UploadKnows DEF TransferTyped
<1>3. GoesOn(t, Succeeded(t)) /\ Succeeded(t).pc = "done" /\ GoesOn(t, Failed(t))
      /\ Failed(t).pc = "done"
  BY <1>2, RecordsGoOn
<1>4. GoesOn(t, task[t])  BY <1>2 DEF GoesOn, TransferTyped
<1>5. \A rem, rec : rec.pc \in {"discard", "clean", "done"} => StagedAs(t, rem, rec)
  BY DEF StagedAs
<1>6. CASE CommitDiscard(t)
  <2> DEFINE b == Backup(t)
  <2>0. b \in Paths /\ b # Target(t) /\ Target(t) \in Paths /\ task[t].pc = "discard"
    BY <1>1, <1>6, UploadKnows DEF CommitDiscard, At
  <2>1. RemoveQuiet(t, b, Succeeded(t))  BY <1>6 DEF CommitDiscard, Backup
  <2> HIDE DEF b
  <2>2. PICK item \in Items \cup {NoItem}, rec \in {task[t], Succeeded(t)} :
               Does(t, [remote EXCEPT ![b] = item], rec) /\ Shrunk(item, remote[b])
    BY <1>2, <2>0, <2>1, RemoveQuietDoes
  <2> DEFINE rem == [remote EXCEPT ![b] = item]
  <2>3. rem \in Files /\ rem[b] = item /\ \A p \in Paths \ {b} : rem[p] = remote[p]
    BY <1>2, <2>0 DEF Files
  <2>4. Does(t, rem, rec)  BY <2>2
  <2>5. GoesOn(t, rec) /\ rec.pc \in {"discard", "done"}  BY <1>3, <1>4, <2>0, <2>2
  <2> HIDE DEF rem
  <2>6. StagedAs(t, rem, rec)  BY <1>5, <2>5
  <2>7. StagingOK(t)'  BY <1>2, <2>3, <2>4, <2>5, <2>6, StagedNext
  <2>8. ASSUME ~Taken(Target(t))
        PROVE  /\ WholeFile(rem[Target(t)]) /\ WholeFile(rem[b])
               /\ Safe(t, task[t].pc, remote) => Safe(t, rec.pc, rem)
    <3>1. WholeFile(remote[Target(t)]) /\ WholeFile(remote[b])
      BY <1>1, <2>8, UploadKnows DEF b
    <3>2. rem[Target(t)] = remote[Target(t)]  BY <2>0, <2>3
    <3>3. WholeFile(rem[b])  BY <2>2, <2>3, <3>1 DEF WholeFile, Shrunk
    <3>4. Safe(t, task[t].pc, remote) => Safe(t, rec.pc, rem)  BY <2>0, <3>2 DEF Safe
    <3> QED  BY <3>1, <3>2, <3>3, <3>4
  <2>9. \A p \in Paths \ {Staging(t), Backup(t), Target(t)} : rem[p] = remote[p]
    BY <2>3 DEF b
  <2> QED  BY <1>1, <2>3, <2>4, <2>5, <2>7, <2>8, <2>9, UploadStepKeeps DEF b
<1>7. CASE UploadClean(t)
  <2> DEFINE s == Staging(t)
  <2>0. s \in Paths /\ task[t].pc = "clean"
    BY <1>1, <1>7, UploadKnows DEF UploadClean, At
  <2>1. RemoveQuiet(t, s, Failed(t))  BY <1>7 DEF UploadClean, Staging
  <2> HIDE DEF s
  <2>2. PICK item \in Items \cup {NoItem}, rec \in {task[t], Failed(t)} :
               Does(t, [remote EXCEPT ![s] = item], rec) /\ Shrunk(item, remote[s])
    BY <1>2, <2>0, <2>1, RemoveQuietDoes
  <2>3. GoesOn(t, rec) /\ rec.pc \in {"clean", "done"}  BY <1>3, <1>4, <2>0, <2>2
  <2>4. StagedAs(t, [remote EXCEPT ![s] = item], rec)  BY <1>5, <2>3
  <2>5. rec.pc # "discard"  BY <2>3
  <2> QED  BY <1>1, <2>2, <2>3, <2>4, <2>5, PutStagingKeeps DEF s
<1> QED  BY <1>6, <1>7

(* A step that leaves the files and the tasks alone.                       *)
LEMMA FilesUnchanged ==
  ASSUME TransferInv, UNCHANGED <<remote, held, task, online, faults, posix>>,
         stopping' \in [Tasks -> BOOLEAN]
  PROVE  TransferInv'
<1>1. /\ \A t \in Tasks : /\ Op(t)' = Op(t) /\ Target(t)' = Target(t) /\ Source(t)' = Source(t)
                           /\ Staging(t)' = Staging(t) /\ Backup(t)' = Backup(t)
                           /\ Uploads(t)' = Uploads(t)
  BY DEF Op, Target, Source, Staging, Backup, Uploads, UniqueStagingPath
<1>2. TransferTyped'
  BY <1>1 DEF TransferInv, TransferTyped
<1>3. \A t \in Tasks : StagingOK(t)' = StagingOK(t)
  BY <1>1 DEF StagingOK
<1>4. \A n : Taken(n)' = Taken(n)
  BY <1>1 DEF Taken
<1>5. \A n : Kept(n)' = Kept(n)
  BY <1>1 DEF Kept
<1>6. FilesOK'
  BY <1>1, <1>4 DEF TransferInv, FilesOK
<1> QED  BY <1>1, <1>2, <1>3, <1>4, <1>5, <1>6 DEF TransferInv

LEMMA CancelTaskKeeps ==
  ASSUME TransferInv, NEW t \in Tasks, CancelTask(t)
  PROVE  TransferInv'
<1>1. UNCHANGED <<remote, held, task, online, faults, posix>>
      /\ stopping' \in [Tasks -> BOOLEAN]
  BY DEF TransferInv, TransferTyped, CancelTask
<1> QED  BY <1>1, FilesUnchanged

LEMMA TransferInvHolds == TransferSpec => []TransferInv
<1>1. TransferInit => TransferInv
  <2> SUFFICES ASSUME TransferInit PROVE TransferInv  OBVIOUS
  <2>1. PICK plan \in Plans :
          task = [t \in Tasks |-> [request |-> plan[t], pc |-> "start", kind |-> "file",
                                   left |-> {}, written |-> {}, result |-> "running"]]
    BY DEF TransferInit
  <2>2. \A t \in Tasks : plan[t] \in Requests  BY <2>1, PlansAssumption
  <2>3. task \in [Tasks -> FileTasks]
        /\ \A t \in Tasks : task[t].pc = "start" /\ task[t].result = "running"
    BY <2>1, <2>2 DEF FileTasks, TransferSteps
  <2>4. TransferTyped
    BY <2>3, TransferAssumption DEF TransferInit, TransferTyped, Files
  <2>5. \A p \in Paths : remote[p] = NoItem \/ (p \in Names /\ Complete(remote[p]))
    BY DEF TransferInit
  <2>6. \A t \in Tasks : remote[Staging(t)] = NoItem /\ remote[Backup(t)] = NoItem
    BY <2>5, PathsDiffer
  <2>7. \A t \in Tasks : StagingOK(t)  BY <2>3, <2>6 DEF StagingOK
  <2>8. FilesOK  BY <2>5, <2>6, PathsDiffer DEF FilesOK, WholeFile
  <2>9. \A n \in held : Kept(n)  BY <2>5, PathsDiffer DEF TransferInit, Kept
  <2> QED  BY <2>4, <2>7, <2>8, <2>9 DEF TransferInv
<1>2. TransferInv /\ [TransferNext]_transferVars => TransferInv'
  <2>1. ASSUME TransferInv, TransferNext PROVE TransferInv'
    BY <2>1, PreparingKeeps, UploadStageKeeps, UploadSendKeeps, CommitCheckKeeps,
       CommitRenameKeeps, RemovalsKeep, DownloadKeeps, DeleteKeeps, MoveCopyKeeps,
       CopyWritesKeep, MkdirKeeps, CancelTaskKeeps DEF TransferNext
  <2>2. ASSUME TransferInv, UNCHANGED transferVars PROVE TransferInv'
    <3>1. UNCHANGED <<remote, held, task, online, faults, posix>> /\ stopping' = stopping
      BY <2>2 DEF transferVars
    <3>2. stopping' \in [Tasks -> BOOLEAN]  BY <2>2, <3>1 DEF TransferInv, TransferTyped
    <3> QED  BY <2>2, <3>1, <3>2, FilesUnchanged
  <2> QED  BY <2>1, <2>2
<1> QED  BY <1>1, <1>2, PTL DEF TransferSpec

(* The types of the files and of the tasks, and the bound on the faults.   *)
THEOREM TransferTypes == TransferSpec => []TransferTypeOK
<1>1. TransferInv => TransferTypeOK
  BY DEF TransferInv, TransferTyped, TransferTypeOK, Files, FileTasks
<1> QED  BY <1>1, TransferInvHolds, PTL

(* Uploads alone never lose what was at a path: what the path held is      *)
(* there, or waits whole at the backup path of an upload to it, whatever   *)
(* request fails or is performed unnoticed, whenever a task is cancelled,  *)
(* and with any number of uploads to one target (commit_remote_staging_path*)
(* in ssh/sftp.rs).                                                        *)
THEOREM UploadsKeepTargets == TransferSpec => []UploadKeepsTarget
<1>1. TransferInv => UploadKeepsTarget
  BY DEF TransferInv, UploadKeepsTarget, Kept, Uploads, Backup
<1> QED  BY <1>1, TransferInvHolds, PTL

-----------------------------------------------------------------------------
(* Telnet negotiation.  The two sides of an option (what the client does,  *)
(* what the server does) are negotiated alike and apart: on and off are    *)
(* the client's commands about it, yes and no the server's.                *)

Negotiations ==
  [cmd : {"DO", "DONT", "WILL", "WONT"}, option : TelnetOptions, size : {0}]
Sizings == [cmd : {"SB"}, option : {"naws"}, size : WindowSizes]
ToServer == Negotiations \cup Sizings

\* What a queue says of one side of an option: nothing, one command, two in this order.
About(m, cs, o) == m.cmd \in cs /\ m.option = o
Silent(q, cs, o) == \A i \in 1..Len(q) : ~ About(q[i], cs, o)
Says(q, cs, o, c) ==
  \E i \in 1..Len(q) :
    /\ q[i].cmd = c
    /\ \A k \in 1..Len(q) : About(q[k], cs, o) <=> k = i
SaysBoth(q, cs, o, c, d) ==
  \E i, j \in 1..Len(q) :
    /\ i < j /\ q[i].cmd = c /\ q[j].cmd = d
    /\ \A k \in 1..Len(q) : About(q[k], cs, o) <=> k \in {i, j}

\* Queue r says what q says, or that and the command c at its end.
StillSays(q, r, cs, o) ==
  /\ Silent(q, cs, o) => Silent(r, cs, o)
  /\ \A c : Says(q, cs, o, c) => Says(r, cs, o, c)
  /\ \A c, d : SaysBoth(q, cs, o, c, d) => SaysBoth(r, cs, o, c, d)
AlsoSays(q, r, cs, o, e) ==
  /\ Silent(q, cs, o) => Says(r, cs, o, e)
  /\ \A c : Says(q, cs, o, c) => SaysBoth(r, cs, o, c, e)
\* Queue r lacks the first command of q, which is m, about this side.
Consumed(q, r, cs, o, m) ==
  /\ ~ Silent(q, cs, o)
  /\ \A c : Says(q, cs, o, c) => m.cmd = c /\ Silent(r, cs, o)
  /\ \A c, d : SaysBoth(q, cs, o, c, d) => m.cmd = c /\ Says(r, cs, o, d)

LEMMA AppendKeeps ==
  ASSUME NEW S, NEW q \in Seq(S), NEW m \in S, NEW cs, NEW o, ~ About(m, cs, o)
  PROVE  StillSays(q, Append(q, m), cs, o)
<1> DEFINE r == Append(q, m)
<1>1. /\ Len(q) \in Nat /\ Len(r) = Len(q) + 1 /\ r[Len(r)] = m
      /\ \A i \in 1..Len(q) : r[i] = q[i]
  OBVIOUS
<1>2. Silent(q, cs, o) => Silent(r, cs, o)
  BY <1>1 DEF Silent
<1>3. ASSUME NEW c, Says(q, cs, o, c) PROVE Says(r, cs, o, c)
  <2>1. PICK i \in 1..Len(q) :
          q[i].cmd = c /\ \A k \in 1..Len(q) : About(q[k], cs, o) <=> k = i
    BY <1>3 DEF Says
  <2>2. r[i].cmd = c /\ \A k \in 1..Len(r) : About(r[k], cs, o) <=> k = i
    BY <1>1, <2>1
  <2> QED
    BY <1>1, <2>2 DEF Says
<1>4. ASSUME NEW c, NEW d, SaysBoth(q, cs, o, c, d) PROVE SaysBoth(r, cs, o, c, d)
  <2>1. PICK i \in 1..Len(q), j \in 1..Len(q) :
          /\ i < j /\ q[i].cmd = c /\ q[j].cmd = d
          /\ \A k \in 1..Len(q) : About(q[k], cs, o) <=> k \in {i, j}
    BY <1>4 DEF SaysBoth
  <2>2. /\ i \in 1..Len(r) /\ j \in 1..Len(r) /\ r[i] = q[i] /\ r[j] = q[j]
        /\ \A k \in 1..Len(r) : About(r[k], cs, o) <=> k \in {i, j}
    BY <1>1, <2>1
  <2> HIDE DEF r
  <2> QED
    BY <2>1, <2>2 DEF SaysBoth
<1> HIDE DEF r
<1>5. StillSays(q, r, cs, o)
  BY <1>2, <1>3, <1>4, Zenon DEF StillSays
<1> QED
  BY <1>5 DEF r

LEMMA AppendAdds ==
  ASSUME NEW S, NEW q \in Seq(S), NEW m \in S, NEW cs, NEW o, About(m, cs, o)
  PROVE  AlsoSays(q, Append(q, m), cs, o, m.cmd)
<1> DEFINE r == Append(q, m)
<1>1. /\ Len(q) \in Nat /\ Len(r) = Len(q) + 1 /\ r[Len(r)] = m
      /\ \A i \in 1..Len(q) : r[i] = q[i]
  OBVIOUS
<1>2. ASSUME Silent(q, cs, o) PROVE Says(r, cs, o, m.cmd)
  <2>1. /\ r[Len(r)].cmd = m.cmd
        /\ \A k \in 1..Len(r) : About(r[k], cs, o) <=> k = Len(r)
    BY <1>1, <1>2 DEF Silent
  <2> QED
    BY <1>1, <2>1 DEF Says
<1>3. ASSUME NEW c, Says(q, cs, o, c) PROVE SaysBoth(r, cs, o, c, m.cmd)
  <2>1. PICK i \in 1..Len(q) :
          q[i].cmd = c /\ \A k \in 1..Len(q) : About(q[k], cs, o) <=> k = i
    BY <1>3 DEF Says
  <2>2. /\ r[i].cmd = c /\ r[Len(r)].cmd = m.cmd
        /\ \A k \in 1..Len(r) : About(r[k], cs, o) <=> k \in {i, Len(r)}
    BY <1>1, <2>1
  <2>3. i \in 1..Len(r) /\ Len(r) \in 1..Len(r) /\ i < Len(r)
    BY <1>1
  <2> QED
    BY <2>2, <2>3 DEF SaysBoth
<1> HIDE DEF r
<1>4. AlsoSays(q, r, cs, o, m.cmd)
  BY <1>2, <1>3, Zenon DEF AlsoSays
<1> QED
  BY <1>4 DEF r

LEMMA TailShifts ==
  ASSUME NEW S, NEW q \in Seq(S), q # <<>>
  PROVE  /\ Len(q) \in Nat \ {0} /\ Len(Tail(q)) = Len(q) - 1 /\ Head(q) = q[1]
         /\ \A i \in 1..Len(Tail(q)) : Tail(q)[i] = q[i + 1]
         /\ Head(q) \in S /\ Tail(q) \in Seq(S)
BY HeadTailProperties, EmptySeq

LEMMA TailKeeps ==
  ASSUME NEW S, NEW q \in Seq(S), q # <<>>, NEW cs, NEW o, ~ About(Head(q), cs, o)
  PROVE  StillSays(q, Tail(q), cs, o)
<1> DEFINE r == Tail(q)
<1>1. /\ Len(q) \in Nat \ {0} /\ Len(r) = Len(q) - 1 /\ Head(q) = q[1]
      /\ \A i \in 1..Len(r) : r[i] = q[i + 1]
  BY TailShifts
<1> HIDE DEF r
<1>2. Silent(q, cs, o) => Silent(r, cs, o)
  BY <1>1 DEF Silent
<1>3. ASSUME NEW c, Says(q, cs, o, c) PROVE Says(r, cs, o, c)
  <2>1. PICK i \in 1..Len(q) :
          q[i].cmd = c /\ \A k \in 1..Len(q) : About(q[k], cs, o) <=> k = i
    BY <1>3 DEF Says
  <2>2. i # 1
    BY <1>1, <2>1
  <2>3. i - 1 \in 1..Len(r) /\ r[i - 1].cmd = c
    BY <1>1, <2>1, <2>2
  <2>4. \A k \in 1..Len(r) : About(r[k], cs, o) <=> k = i - 1
    BY <1>1, <2>1
  <2> QED
    BY <2>3, <2>4 DEF Says
<1>4. ASSUME NEW c, NEW d, SaysBoth(q, cs, o, c, d) PROVE SaysBoth(r, cs, o, c, d)
  <2>1. PICK i \in 1..Len(q), j \in 1..Len(q) :
          /\ i < j /\ q[i].cmd = c /\ q[j].cmd = d
          /\ \A k \in 1..Len(q) : About(q[k], cs, o) <=> k \in {i, j}
    BY <1>4 DEF SaysBoth
  <2>2. i # 1 /\ j # 1
    BY <1>1, <2>1
  <2>3. i - 1 \in 1..Len(r) /\ j - 1 \in 1..Len(r) /\ i - 1 < j - 1
    BY <1>1, <2>1, <2>2
  <2>4. r[i - 1] = q[i] /\ r[j - 1] = q[j]
    BY <1>1, <2>3
  <2>5. \A k \in 1..Len(r) : About(r[k], cs, o) <=> k \in {i - 1, j - 1}
    BY <1>1, <2>1
  <2> QED
    BY <2>1, <2>3, <2>4, <2>5 DEF SaysBoth
<1>5. StillSays(q, r, cs, o)
  BY <1>2, <1>3, <1>4, Zenon DEF StillSays
<1> QED
  BY <1>5 DEF r

LEMMA TailTakes ==
  ASSUME NEW S, NEW q \in Seq(S), q # <<>>, NEW cs, NEW o, About(Head(q), cs, o)
  PROVE  Consumed(q, Tail(q), cs, o, Head(q))
<1> DEFINE r == Tail(q)
<1>1. /\ Len(q) \in Nat \ {0} /\ Len(r) = Len(q) - 1 /\ Head(q) = q[1]
      /\ \A i \in 1..Len(r) : r[i] = q[i + 1]
  BY TailShifts
<1> HIDE DEF r
<1>2. ~ Silent(q, cs, o)
  BY <1>1 DEF Silent
<1>3. ASSUME NEW c, Says(q, cs, o, c) PROVE Head(q).cmd = c /\ Silent(r, cs, o)
  <2>1. PICK i \in 1..Len(q) :
          q[i].cmd = c /\ \A k \in 1..Len(q) : About(q[k], cs, o) <=> k = i
    BY <1>3 DEF Says
  <2>2. i = 1
    BY <1>1, <2>1
  <2>3. \A k \in 1..Len(r) : ~ About(r[k], cs, o)
    BY <1>1, <2>1, <2>2
  <2> QED
    BY <1>1, <2>1, <2>2, <2>3 DEF Silent
<1>4. ASSUME NEW c, NEW d, SaysBoth(q, cs, o, c, d)
      PROVE  Head(q).cmd = c /\ Says(r, cs, o, d)
  <2>1. PICK i \in 1..Len(q), j \in 1..Len(q) :
          /\ i < j /\ q[i].cmd = c /\ q[j].cmd = d
          /\ \A k \in 1..Len(q) : About(q[k], cs, o) <=> k \in {i, j}
    BY <1>4 DEF SaysBoth
  <2>2. i = 1
    BY <1>1, <2>1
  <2>3. j - 1 \in 1..Len(r) /\ r[j - 1].cmd = d
    BY <1>1, <2>1, <2>2
  <2>4. \A k \in 1..Len(r) : About(r[k], cs, o) <=> k = j - 1
    BY <1>1, <2>1, <2>2
  <2> QED
    BY <1>1, <2>1, <2>2, <2>3, <2>4 DEF Says
<1>5. Consumed(q, r, cs, o, Head(q))
  BY <1>2, <1>3, <1>4, Zenon DEF Consumed
<1> QED
  BY <1>5 DEF r

-----------------------------------------------------------------------------
(* How far one side of an option has got: what the client says of it, what *)
(* the server says of it, and what is on its way (up to the server, down   *)
(* to the client).                                                         *)

Quiet(cl, srv) == cl = "No" /\ srv = "No"
Agreed(cl, srv) == cl = "Yes" /\ srv = "Yes"
\* The client's initial request has not come back.
Requesting(cl, srv, up, down, o, on, off, yes, no) ==
  /\ cl = "WantYes"
  /\ \/ srv = "No" /\ Says(up, {on, off}, o, on) /\ Silent(down, {yes, no}, o)
     \/ srv = "WantYes" /\ Says(up, {on, off}, o, on) /\ Says(down, {yes, no}, o, yes)
     \/ /\ Silent(up, {on, off}, o)
        /\ \/ srv = "Yes" /\ Says(down, {yes, no}, o, yes)
           \/ srv = "No" /\ Says(down, {yes, no}, o, no)
           \/ srv = "WantNo" /\ SaysBoth(down, {yes, no}, o, yes, no)
           \/ srv = "WantYes" /\ SaysBoth(down, {yes, no}, o, no, yes)
\* The server has asked for a change, and the answer has not come back.
Awaiting(cl, srv, up, down, o, on, off, yes, no, supported) ==
  \/ /\ srv = "WantYes"
     /\ \/ cl = "No" /\ Silent(up, {on, off}, o) /\ Says(down, {yes, no}, o, yes)
        \/ /\ supported /\ cl = "Yes"
           /\ Says(up, {on, off}, o, on) /\ Silent(down, {yes, no}, o)
        \/ /\ ~ supported /\ cl = "No"
           /\ Says(up, {on, off}, o, off) /\ Silent(down, {yes, no}, o)
  \/ /\ supported /\ srv = "WantNo"
     /\ \/ cl = "Yes" /\ Silent(up, {on, off}, o) /\ Says(down, {yes, no}, o, no)
        \/ cl = "No" /\ Says(up, {on, off}, o, off) /\ Silent(down, {yes, no}, o)
Negotiated(cl, srv, up, down, o, on, off, yes, no, supported) ==
  \/ /\ Silent(up, {on, off}, o) /\ Silent(down, {yes, no}, o)
     /\ Quiet(cl, srv) \/ (supported /\ Agreed(cl, srv))
  \/ supported /\ Requesting(cl, srv, up, down, o, on, off, yes, no)
  \/ Awaiting(cl, srv, up, down, o, on, off, yes, no, supported)

Sides(cl, srv, up, down) ==
  \A o \in TelnetOptions :
    /\ Negotiated(cl.local[o], srv.him[o], up, down, o,
                  "WILL", "WONT", "DO", "DONT", SupportsLocal(o))
    /\ Negotiated(cl.remote[o], srv.us[o], up, down, o,
                  "DO", "DONT", "WILL", "WONT", SupportsRemote(o))

\* The server has been told the size, or the last size on its way is the terminal's.
SizeKnown(cl, srv, up) ==
  cl.local["naws"] = "Yes" =>
    \/ srv.size = cl.geometry /\ \A k \in 1..Len(up) : up[k].cmd # "SB"
    \/ \E i \in 1..Len(up) :
         /\ up[i].cmd = "SB" /\ up[i].size = cl.geometry
         /\ \A k \in 1..Len(up) : up[k].cmd = "SB" => k <= i

Clients ==
  [local : [TelnetOptions -> {"No", "WantYes", "Yes"}],
   remote : [TelnetOptions -> {"No", "WantYes", "Yes"}], geometry : WindowSizes]
Views == {"No", "WantYes", "Yes", "WantNo"}
Servers ==
  [us : [TelnetOptions -> Views], him : [TelnetOptions -> Views], size : WindowSizes \cup {0}]

TelnetTypes ==
  /\ client \in Clients /\ server \in Servers
  /\ toServer \in Seq(ToServer) /\ toClient \in Seq(Negotiations)
  /\ initiatives \in 0..MaxInitiatives /\ resizes \in 0..MaxResizes

TelnetInv ==
  /\ TelnetTypes
  /\ Sides(client, server, toServer, toClient)
  /\ SizeKnown(client, server, toServer)

\* What moves none of a side's four parts leaves it as far as it was.
LEMMA SideApart ==
  ASSUME NEW cl, NEW srv, NEW up, NEW down, NEW up2, NEW down2, NEW o,
         NEW on, NEW off, NEW yes, NEW no, NEW supported \in BOOLEAN,
         Negotiated(cl, srv, up, down, o, on, off, yes, no, supported),
         StillSays(up, up2, {on, off}, o), StillSays(down, down2, {yes, no}, o)
  PROVE  Negotiated(cl, srv, up2, down2, o, on, off, yes, no, supported)
BY Zenon DEF Negotiated, Requesting, Awaiting, StillSays

\* The client, whose side was cl, takes command c and is cl2 afterwards, with the reply queued.
Replies(c, cl, cl2, up, up2, o, on, off, yes, no, supported) ==
  \/ /\ c = yes /\ supported /\ cl2 = "Yes"
     /\ IF cl = "No" THEN AlsoSays(up, up2, {on, off}, o, on)
                     ELSE StillSays(up, up2, {on, off}, o)
  \/ /\ c = yes /\ ~ supported /\ cl2 = "No"
     /\ AlsoSays(up, up2, {on, off}, o, off)
  \/ /\ c = no /\ cl2 = "No"
     /\ IF cl = "Yes" THEN AlsoSays(up, up2, {on, off}, o, off)
                      ELSE StillSays(up, up2, {on, off}, o)
\* The same of the server, whose side was srv.
Decides(c, srv, srv2, down, down2, o, on, off, yes, no) ==
  \/ /\ c = on /\ srv = "No"
     /\ \/ srv2 = "Yes" /\ AlsoSays(down, down2, {yes, no}, o, yes)
        \/ srv2 = "No" /\ AlsoSays(down, down2, {yes, no}, o, no)
  \/ /\ c = on /\ srv # "No" /\ srv2 = (IF srv = "WantNo" THEN "No" ELSE "Yes")
     /\ StillSays(down, down2, {yes, no}, o)
  \/ /\ c = off /\ srv2 = "No"
     /\ IF srv = "Yes" THEN AlsoSays(down, down2, {yes, no}, o, no)
                       ELSE StillSays(down, down2, {yes, no}, o)
AsksChange(srv, srv2, down, down2, o, yes, no) ==
  \/ srv = "No" /\ srv2 = "WantYes" /\ AlsoSays(down, down2, {yes, no}, o, yes)
  \/ srv = "Yes" /\ srv2 = "WantNo" /\ AlsoSays(down, down2, {yes, no}, o, no)

\* The client answers a command of the server.
LEMMA ClientAnswers ==
  ASSUME NEW cl, NEW srv, NEW up, NEW down, NEW up2, NEW down2, NEW o,
         NEW on, NEW off, NEW yes, NEW no, NEW supported \in BOOLEAN, yes # no,
         Negotiated(cl, srv, up, down, o, on, off, yes, no, supported),
         NEW m, Consumed(down, down2, {yes, no}, o, m), NEW cl2,
         Replies(m.cmd, cl, cl2, up, up2, o, on, off, yes, no, supported)
  PROVE  Negotiated(cl2, srv, up2, down2, o, on, off, yes, no, supported)
<1> USE DEF Consumed, AlsoSays, StillSays, Replies
<1>1. ~ Silent(down, {yes, no}, o)
  BY Zenon
<1>2. CASE supported /\ Requesting(cl, srv, up, down, o, on, off, yes, no)
  <2>1. StillSays(up, up2, {on, off}, o) /\ cl2 = (IF m.cmd = yes THEN "Yes" ELSE "No")
    BY <1>2 DEF Requesting
  <2>2. CASE Silent(up, {on, off}, o) /\ srv = "Yes" /\ Says(down, {yes, no}, o, yes)
    BY <2>1, <2>2 DEF Negotiated, Agreed, Quiet
  <2>3. CASE Silent(up, {on, off}, o) /\ srv = "No" /\ Says(down, {yes, no}, o, no)
    BY <2>1, <2>3 DEF Negotiated, Agreed, Quiet
  <2>4. CASE Silent(up, {on, off}, o) /\ srv = "WantNo" /\ SaysBoth(down, {yes, no}, o, yes, no)
    BY <1>2, <2>1, <2>4 DEF Negotiated, Awaiting
  <2>5. CASE Silent(up, {on, off}, o) /\ srv = "WantYes" /\ SaysBoth(down, {yes, no}, o, no, yes)
    BY <2>1, <2>5 DEF Negotiated, Awaiting
  <2>6. CASE srv = "WantYes" /\ Says(up, {on, off}, o, on) /\ Says(down, {yes, no}, o, yes)
    BY <1>2, <2>1, <2>6 DEF Negotiated, Awaiting
  <2> QED
    BY <1>1, <1>2, <2>2, <2>3, <2>4, <2>5, <2>6, Zenon DEF Requesting
<1>3. CASE Awaiting(cl, srv, up, down, o, on, off, yes, no, supported)
  BY <1>1, <1>3 DEF Negotiated, Awaiting, Quiet, Agreed
<1> QED
  BY <1>1, <1>2, <1>3, Zenon DEF Negotiated

\* The server takes an answer or a request of the client.
LEMMA ServerTakes ==
  ASSUME NEW cl, NEW srv, NEW up, NEW down, NEW up2, NEW down2, NEW o,
         NEW on, NEW off, NEW yes, NEW no, NEW supported \in BOOLEAN, on # off,
         Negotiated(cl, srv, up, down, o, on, off, yes, no, supported),
         NEW m, Consumed(up, up2, {on, off}, o, m), NEW srv2,
         Decides(m.cmd, srv, srv2, down, down2, o, on, off, yes, no)
  PROVE  Negotiated(cl, srv2, up2, down2, o, on, off, yes, no, supported)
<1> USE DEF Consumed, AlsoSays, StillSays, Decides
<1>1. ~ Silent(up, {on, off}, o)
  BY Zenon
<1>2. CASE supported /\ Requesting(cl, srv, up, down, o, on, off, yes, no)
  BY <1>1, <1>2 DEF Negotiated, Requesting, Awaiting, Quiet, Agreed
<1>3. CASE Awaiting(cl, srv, up, down, o, on, off, yes, no, supported)
  BY <1>1, <1>3 DEF Negotiated, Awaiting, Quiet, Agreed
<1> QED
  BY <1>1, <1>2, <1>3, Zenon DEF Negotiated

\* The server asks for a change.
LEMMA ServerRequests ==
  ASSUME NEW cl, NEW srv, NEW up, NEW down, NEW down2, NEW o,
         NEW on, NEW off, NEW yes, NEW no, NEW supported \in BOOLEAN,
         Negotiated(cl, srv, up, down, o, on, off, yes, no, supported), NEW srv2,
         AsksChange(srv, srv2, down, down2, o, yes, no)
  PROVE  Negotiated(cl, srv2, up, down2, o, on, off, yes, no, supported)
BY DEF Negotiated, Requesting, Awaiting, Quiet, Agreed, AlsoSays, AsksChange

LEMMA KeptReflexive ==
  ASSUME NEW q, NEW cs, NEW o
  PROVE  StillSays(q, q, cs, o)
BY Zenon DEF StillSays

LEMMA KeptThrough ==
  ASSUME NEW q, NEW r, NEW s, NEW cs, NEW o, StillSays(r, s, cs, o)
  PROVE  /\ StillSays(q, r, cs, o) => StillSays(q, s, cs, o)
         /\ \A e : AlsoSays(q, r, cs, o, e) => AlsoSays(q, s, cs, o, e)
BY Zenon DEF StillSays, AlsoSays

LEMMA ConcatAppends ==
  ASSUME NEW S, NEW q \in Seq(S), NEW a \in S, NEW b \in S
  PROVE  q \o <<>> = q /\ q \o <<a>> = Append(q, a)
         /\ q \o (<<a>> \o <<b>>) = Append(Append(q, a), b)
<1>1. q \o <<>> = q
  BY ConcatEmptySeq, Zenon
<1>2. q \o <<a>> = Append(q, a)
  OBVIOUS
<1>3. /\ <<a>> \in Seq(S) /\ <<b>> \in Seq(S) /\ Append(q, a) \in Seq(S)
  OBVIOUS
<1>4. q \o (<<a>> \o <<b>>) = (q \o <<a>>) \o <<b>>
  BY <1>3, ConcatAssociative, SMT
<1>5. Append(q, a) \o <<b>> = Append(Append(q, a), b)
  BY <1>3
<1> QED
  BY <1>1, <1>2, <1>4, <1>5, Zenon

\* The size: what else is sent does not change it, and the size sent last is the one known.
LEMMA SizeStays ==
  ASSUME NEW S, NEW q \in Seq(S), NEW m \in S, m.cmd # "SB", NEW cl, NEW cl2, NEW srv,
         SizeKnown(cl, srv, q), cl2.geometry = cl.geometry,
         cl2.local["naws"] = "Yes" => cl.local["naws"] = "Yes"
  PROVE  SizeKnown(cl2, srv, q) /\ SizeKnown(cl2, srv, Append(q, m))
<1> DEFINE r == Append(q, m)
<1>1. /\ Len(q) \in Nat /\ Len(r) = Len(q) + 1 /\ r[Len(r)] = m
      /\ \A i \in 1..Len(q) : r[i] = q[i]
  OBVIOUS
<1> HIDE DEF r
<1>2. SizeKnown(cl2, srv, r)
  <2>1. SUFFICES ASSUME cl2.local["naws"] = "Yes"
                 PROVE  \/ /\ srv.size = cl.geometry
                           /\ \A k \in 1..Len(r) : r[k].cmd # "SB"
                        \/ \E i \in 1..Len(r) :
                             /\ r[i].cmd = "SB" /\ r[i].size = cl.geometry
                             /\ \A k \in 1..Len(r) : r[k].cmd = "SB" => k <= i
    BY DEF SizeKnown
  <2>2. CASE srv.size = cl.geometry /\ \A k \in 1..Len(q) : q[k].cmd # "SB"
    BY <1>1, <2>2
  <2>3. CASE \E i \in 1..Len(q) :
               /\ q[i].cmd = "SB" /\ q[i].size = cl.geometry
               /\ \A k \in 1..Len(q) : q[k].cmd = "SB" => k <= i
    <3>1. PICK i \in 1..Len(q) :
               /\ q[i].cmd = "SB" /\ q[i].size = cl.geometry
               /\ \A k \in 1..Len(q) : q[k].cmd = "SB" => k <= i
      BY <2>3
    <3>2. /\ i \in 1..Len(r) /\ r[i].cmd = "SB" /\ r[i].size = cl.geometry
          /\ \A k \in 1..Len(r) : r[k].cmd = "SB" => k <= i
      BY <1>1, <3>1
    <3> QED
      BY <3>2
  <2> QED
    BY <2>1, <2>2, <2>3 DEF SizeKnown
<1>3. SizeKnown(cl2, srv, q)
  BY Zenon DEF SizeKnown
<1> QED
  BY <1>2, <1>3 DEF r

LEMMA SizeTold ==
  ASSUME NEW S, NEW q \in Seq(S), NEW cl, NEW srv, NEW m \in S,
         m.cmd = "SB", m.size = cl.geometry
  PROVE  SizeKnown(cl, srv, Append(q, m))
<1>1. LET r == Append(q, m) IN
        /\ Len(r) \in 1..Len(r) /\ r[Len(r)] = m
        /\ \A k \in 1..Len(r) : k <= Len(r)
  OBVIOUS
<1> QED
  BY <1>1 DEF SizeKnown

LEMMA SizeArrives ==
  ASSUME NEW S, NEW q \in Seq(S), q # <<>>, NEW cl, NEW srv, NEW srv2,
         SizeKnown(cl, srv, q),
         srv2.size = (IF Head(q).cmd = "SB" THEN Head(q).size ELSE srv.size)
  PROVE  SizeKnown(cl, srv2, Tail(q))
<1> DEFINE r == Tail(q)
<1>1. /\ Len(q) \in Nat \ {0} /\ Len(r) = Len(q) - 1 /\ Head(q) = q[1]
      /\ \A i \in 1..Len(r) : r[i] = q[i + 1]
  BY TailShifts
<1> HIDE DEF r
<1>2. SUFFICES ASSUME cl.local["naws"] = "Yes"
               PROVE  \/ /\ srv2.size = cl.geometry
                         /\ \A k \in 1..Len(r) : r[k].cmd # "SB"
                      \/ \E i \in 1..Len(r) :
                           /\ r[i].cmd = "SB" /\ r[i].size = cl.geometry
                           /\ \A k \in 1..Len(r) : r[k].cmd = "SB" => k <= i
  BY DEF SizeKnown, r
<1>3. CASE srv.size = cl.geometry /\ \A k \in 1..Len(q) : q[k].cmd # "SB"
  BY <1>1, <1>3
<1>4. CASE \E i \in 1..Len(q) :
             /\ q[i].cmd = "SB" /\ q[i].size = cl.geometry
             /\ \A k \in 1..Len(q) : q[k].cmd = "SB" => k <= i
  <2>1. PICK i \in 1..Len(q) :
             /\ q[i].cmd = "SB" /\ q[i].size = cl.geometry
             /\ \A k \in 1..Len(q) : q[k].cmd = "SB" => k <= i
    BY <1>4
  <2>2. CASE i = 1
    <3>1. srv2.size = cl.geometry
      BY <1>1, <2>1, <2>2
    <3>2. \A k \in 1..Len(r) : r[k].cmd # "SB"
      BY <1>1, <2>1, <2>2
    <3> QED
      BY <3>1, <3>2
  <2>3. CASE i # 1
    <3>1. i - 1 \in 1..Len(r) /\ r[i - 1] = q[i]
      BY <1>1, <2>3
    <3>2. \A k \in 1..Len(r) : r[k].cmd = "SB" => k <= i - 1
      BY <1>1, <2>1
    <3> QED
      BY <2>1, <3>1, <3>2
  <2> QED
    BY <2>2, <2>3
<1> QED
  BY <1>2, <1>3, <1>4 DEF SizeKnown

-----------------------------------------------------------------------------
(* The client's handlers: the new state, and what they add to the queue.   *)

SameBut(c, d, o, local) ==
  /\ d \in Clients /\ d.geometry = c.geometry
  /\ \A p \in TelnetOptions :
       /\ (p # o \/ ~ local) => d.local[p] = c.local[p]
       /\ (p # o \/ local) => d.remote[p] = c.remote[p]

LEMMA AnswerQueued ==
  ASSUME NEW q \in Seq(ToServer), NEW o \in TelnetOptions,
         NEW c \in {"DO", "DONT", "WILL", "WONT"}, NEW cs, c \in cs, NEW ds, c \notin ds
  PROVE  /\ Cmd(c, o) \in ToServer /\ Append(q, Cmd(c, o)) \in Seq(ToServer)
         /\ AlsoSays(q, Append(q, Cmd(c, o)), cs, o, c)
         /\ \A p : p # o => StillSays(q, Append(q, Cmd(c, o)), cs, p)
         /\ \A p : StillSays(q, Append(q, Cmd(c, o)), ds, p)
<1> DEFINE m == Cmd(c, o)
<1>1. m \in ToServer /\ m.cmd = c /\ m.option = o
  BY DEF Cmd, ToServer, Negotiations
<1> HIDE DEF m
<1>2. Append(q, m) \in Seq(ToServer)
  BY <1>1
<1>3. AlsoSays(q, Append(q, m), cs, o, c)
  BY <1>1, AppendAdds DEF About
<1>4. \A p : p # o => StillSays(q, Append(q, m), cs, p)
  BY <1>1, AppendKeeps DEF About
<1>5. \A p : StillSays(q, Append(q, m), ds, p)
  BY <1>1, AppendKeeps DEF About
<1> QED
  BY <1>1, <1>2, <1>3, <1>4, <1>5, Zenon DEF m

LEMMA LocalQueued ==
  ASSUME NEW q \in Seq(ToServer), NEW o \in TelnetOptions, NEW c \in {"WILL", "WONT"}
  PROVE  /\ Cmd(c, o) \in ToServer /\ Append(q, Cmd(c, o)) \in Seq(ToServer)
         /\ Cmd(c, o).cmd # "SB"
         /\ AlsoSays(q, Append(q, Cmd(c, o)), {"WILL", "WONT"}, o, c)
         /\ \A p : p # o => StillSays(q, Append(q, Cmd(c, o)), {"WILL", "WONT"}, p)
         /\ \A p : StillSays(q, Append(q, Cmd(c, o)), {"DO", "DONT"}, p)
<1>1. c \in {"DO", "DONT", "WILL", "WONT"} /\ c \notin {"DO", "DONT"}
  OBVIOUS
<1>2. Cmd(c, o).cmd # "SB"
  BY DEF Cmd
<1> QED
  BY <1>1, <1>2, AnswerQueued, Zenon

LEMMA RemoteQueued ==
  ASSUME NEW q \in Seq(ToServer), NEW o \in TelnetOptions, NEW c \in {"DO", "DONT"}
  PROVE  /\ Cmd(c, o) \in ToServer /\ Append(q, Cmd(c, o)) \in Seq(ToServer)
         /\ Cmd(c, o).cmd # "SB"
         /\ AlsoSays(q, Append(q, Cmd(c, o)), {"DO", "DONT"}, o, c)
         /\ \A p : p # o => StillSays(q, Append(q, Cmd(c, o)), {"DO", "DONT"}, p)
         /\ \A p : StillSays(q, Append(q, Cmd(c, o)), {"WILL", "WONT"}, p)
<1>1. c \in {"DO", "DONT", "WILL", "WONT"} /\ c \notin {"WILL", "WONT"}
  OBVIOUS
<1>2. Cmd(c, o).cmd # "SB"
  BY DEF Cmd
<1> QED
  BY <1>1, <1>2, AnswerQueued, Zenon

LEMMA SizeQueued ==
  ASSUME NEW q \in Seq(ToServer), NEW g \in WindowSizes
  PROVE  /\ Naws(g) \in ToServer /\ Append(q, Naws(g)) \in Seq(ToServer)
         /\ Naws(g).cmd = "SB" /\ Naws(g).size = g
         /\ \A p : StillSays(q, Append(q, Naws(g)), {"DO", "DONT"}, p)
         /\ \A p : StillSays(q, Append(q, Naws(g)), {"WILL", "WONT"}, p)
<1> DEFINE m == Naws(g)
<1>1. m \in ToServer /\ m.cmd = "SB" /\ m.size = g
  BY DEF Naws, ToServer, Sizings
<1> HIDE DEF m
<1>2. Append(q, m) \in Seq(ToServer)
  BY <1>1
<1>3. \A p : ~ About(m, {"DO", "DONT"}, p) /\ ~ About(m, {"WILL", "WONT"}, p)
  BY <1>1 DEF About
<1>4. /\ \A p : StillSays(q, Append(q, m), {"DO", "DONT"}, p)
      /\ \A p : StillSays(q, Append(q, m), {"WILL", "WONT"}, p)
  BY <1>1, <1>3, AppendKeeps, Zenon
<1> QED
  BY <1>1, <1>2, <1>4, Zenon DEF m

LEMMA LocalSet ==
  ASSUME NEW c \in Clients, NEW o \in TelnetOptions, NEW v \in {"No", "WantYes", "Yes"}
  PROVE  /\ SameBut(c, [c EXCEPT !.local[o] = v], o, TRUE)
         /\ [c EXCEPT !.local[o] = v].local[o] = v
         /\ SameBut(c, [c EXCEPT !.remote[o] = v], o, FALSE)
         /\ [c EXCEPT !.remote[o] = v].remote[o] = v
BY DEF SameBut, Clients

LEMMA DoAnswered ==
  ASSUME NEW c \in Clients, NEW o \in TelnetOptions, NEW q \in Seq(ToServer),
         NEW srv, SizeKnown(c, srv, q)
  PROVE  LET d == HandleDo(c, o).next
             r == q \o HandleDo(c, o).reply
         IN /\ SameBut(c, d, o, TRUE) /\ r \in Seq(ToServer) /\ SizeKnown(d, srv, r)
            /\ \A p : StillSays(q, r, {"DO", "DONT"}, p)
            /\ \A p : p # o => StillSays(q, r, {"WILL", "WONT"}, p)
            /\ SupportsLocal(o) =>
                 /\ d.local[o] = "Yes"
                 /\ IF c.local[o] = "No" THEN AlsoSays(q, r, {"WILL", "WONT"}, o, "WILL")
                                         ELSE StillSays(q, r, {"WILL", "WONT"}, o)
            /\ ~ SupportsLocal(o) =>
                 d.local[o] = "No" /\ AlsoSays(q, r, {"WILL", "WONT"}, o, "WONT")
<1> DEFINE d == HandleDo(c, o).next
           r == q \o HandleDo(c, o).reply
           q1 == IF c.local[o] = "No" THEN Append(q, Cmd("WILL", o)) ELSE q
           q2 == IF c.local[o] # "Yes" /\ o = "naws" THEN Append(q1, Naws(c.geometry)) ELSE q1
<1>g. c.geometry \in WindowSizes
  BY DEF Clients
<1>1. CASE SupportsLocal(o)
  <2>1. d = [c EXCEPT !.local[o] = "Yes"]
    BY <1>1 DEF HandleDo
  <2>2. r = q2
    <3>1. /\ Cmd("WILL", o) \in ToServer /\ Naws(c.geometry) \in ToServer
      BY <1>g, LocalQueued, SizeQueued
    <3>2. /\ q \o <<>> = q /\ q \o <<Cmd("WILL", o)>> = Append(q, Cmd("WILL", o))
          /\ q \o <<Naws(c.geometry)>> = Append(q, Naws(c.geometry))
          /\ q \o (<<Cmd("WILL", o)>> \o <<Naws(c.geometry)>>)
               = Append(Append(q, Cmd("WILL", o)), Naws(c.geometry))
      BY <3>1, ConcatAppends
    <3>3. /\ <<>> \o <<>> = <<>> /\ <<Cmd("WILL", o)>> \o <<>> = <<Cmd("WILL", o)>>
          /\ <<>> \o <<Naws(c.geometry)>> = <<Naws(c.geometry)>>
      BY <3>1
    <3> HIDE DEF q1, q2
    <3>4. HandleDo(c, o).reply =
            (IF c.local[o] = "No" THEN <<Cmd("WILL", o)>> ELSE <<>>)
              \o (IF c.local[o] # "Yes" /\ o = "naws" THEN <<Naws(c.geometry)>> ELSE <<>>)
      BY <1>1, Zenon DEF HandleDo, SizeOnDo, SizeWhenEnabled
    <3>5. CASE c.local[o] = "No" /\ o = "naws"
      BY <3>2, <3>3, <3>4, <3>5 DEF q1, q2
    <3>6. CASE c.local[o] = "No" /\ o # "naws"
      BY <3>2, <3>3, <3>4, <3>6 DEF q1, q2
    <3>7. CASE c.local[o] # "No" /\ c.local[o] # "Yes" /\ o = "naws"
      BY <3>2, <3>3, <3>4, <3>7 DEF q1, q2
    <3>8. CASE c.local[o] # "No" /\ ~ (c.local[o] # "Yes" /\ o = "naws")
      BY <3>2, <3>3, <3>4, <3>8 DEF q1, q2
    <3> QED
      BY <3>5, <3>6, <3>7, <3>8
  <2>3. /\ q1 \in Seq(ToServer)
        /\ \A p : StillSays(q, q1, {"DO", "DONT"}, p)
        /\ \A p : p # o => StillSays(q, q1, {"WILL", "WONT"}, p)
        /\ IF c.local[o] = "No" THEN AlsoSays(q, q1, {"WILL", "WONT"}, o, "WILL")
                                ELSE StillSays(q, q1, {"WILL", "WONT"}, o)
    <3>1. CASE c.local[o] = "No"
      <4>1. q1 = Append(q, Cmd("WILL", o))
        BY <3>1
      <4> HIDE DEF q1
      <4> QED
        BY <3>1, <4>1, LocalQueued
    <3>2. CASE c.local[o] # "No"
      <4>1. q1 = q
        BY <3>2
      <4> HIDE DEF q1
      <4> QED
        BY <3>2, <4>1, KeptReflexive, Zenon
    <3> QED
      BY <3>1, <3>2, Zenon
  <2>4. SizeKnown(d, srv, r)
    <3>1. CASE c.local[o] # "Yes" /\ o = "naws"
      <4>1. d.geometry = c.geometry
        BY <2>1
      <4> QED
        <5>1. r = Append(q1, Naws(c.geometry))
          BY <2>2, <3>1
        <5>2. /\ Naws(c.geometry) \in ToServer /\ Naws(c.geometry).cmd = "SB"
              /\ Naws(c.geometry).size = c.geometry
          BY <1>g, <2>3, SizeQueued
        <5> HIDE DEF d, r, q1
        <5> QED
          BY <2>3, <4>1, <5>1, <5>2, SizeTold
    <3>2. CASE ~ (c.local[o] # "Yes" /\ o = "naws")
      <4>1. d.geometry = c.geometry /\ (d.local["naws"] = "Yes" => c.local["naws"] = "Yes")
        BY <2>1, <3>2, LocalSet, TelnetAssumption DEF SameBut
      <4>2. Cmd("WILL", o) \in ToServer /\ Cmd("WILL", o).cmd # "SB"
        BY LocalQueued
      <4>3. SizeKnown(d, srv, q1)
        BY <4>1, <4>2, SizeStays
      <4> QED
        BY <2>2, <3>2, <4>3
    <3> QED
      BY <3>1, <3>2
  <2> HIDE DEF q1
  <2>5. /\ q2 \in Seq(ToServer)
        /\ \A p : StillSays(q1, q2, {"DO", "DONT"}, p)
        /\ \A p : StillSays(q1, q2, {"WILL", "WONT"}, p)
    <3>1. CASE c.local[o] # "Yes" /\ o = "naws"
      <4>1. q2 = Append(q1, Naws(c.geometry))
        BY <3>1
      <4> HIDE DEF q2
      <4> QED
        BY <1>g, <2>3, <4>1, SizeQueued
    <3>2. CASE ~ (c.local[o] # "Yes" /\ o = "naws")
      <4>1. q2 = q1
        BY <3>2
      <4> HIDE DEF q2
      <4> QED
        BY <2>3, <4>1, KeptReflexive, Zenon
    <3> QED
      BY <3>1, <3>2, Zenon
  <2> HIDE DEF q2
  <2>6. /\ \A p : StillSays(q, q2, {"DO", "DONT"}, p)
        /\ \A p : p # o => StillSays(q, q2, {"WILL", "WONT"}, p)
        /\ IF c.local[o] = "No" THEN AlsoSays(q, q2, {"WILL", "WONT"}, o, "WILL")
                                ELSE StillSays(q, q2, {"WILL", "WONT"}, o)
    BY <2>3, <2>5, KeptThrough
  <2> HIDE DEF d, r
  <2>7. SameBut(c, d, o, TRUE) /\ d.local[o] = "Yes"
    BY <2>1, LocalSet, "Yes" \in {"No", "WantYes", "Yes"}, Zenon
  <2> QED
    BY <1>1, <2>2, <2>4, <2>5, <2>6, <2>7 DEF d, r
<1>2. CASE ~ SupportsLocal(o)
  <2>1. d = [c EXCEPT !.local[o] = "No"] /\ HandleDo(c, o).reply = <<Cmd("WONT", o)>>
    BY <1>2 DEF HandleDo
  <2>2. r = Append(q, Cmd("WONT", o)) /\ Cmd("WONT", o) \in ToServer /\ Cmd("WONT", o).cmd # "SB"
    BY <2>1, LocalQueued, ConcatAppends
  <2> HIDE DEF d
  <2>6. SameBut(c, d, o, TRUE) /\ d.local[o] = "No"
    BY <2>1, LocalSet, "No" \in {"No", "WantYes", "Yes"}, Zenon
  <2>3. d.geometry = c.geometry /\ (d.local["naws"] = "Yes" => c.local["naws"] = "Yes")
    BY <2>6, TelnetAssumption DEF SameBut
  <2>4. SizeKnown(d, srv, r)
    BY <2>2, <2>3, SizeStays
  <2>5. /\ r \in Seq(ToServer)
        /\ \A p : StillSays(q, r, {"DO", "DONT"}, p)
        /\ \A p : p # o => StillSays(q, r, {"WILL", "WONT"}, p)
        /\ AlsoSays(q, r, {"WILL", "WONT"}, o, "WONT")
    BY <2>2, LocalQueued
  <2> HIDE DEF r
  <2> QED
    BY <1>2, <2>4, <2>5, <2>6 DEF d, r
<1> QED
  BY <1>1, <1>2, Zenon

\* A handler that sets one side of an option and answers with one command or none.
LEMMA PlainAnswer ==
  ASSUME NEW q \in Seq(ToServer), NEW o \in TelnetOptions,
         NEW c \in {"DO", "DONT", "WILL", "WONT"}, NEW answers \in BOOLEAN
  PROVE  LET r == q \o (IF answers THEN <<Cmd(c, o)>> ELSE <<>>)
         IN r = (IF answers THEN Append(q, Cmd(c, o)) ELSE q)
<1>1. Cmd(c, o) \in ToServer
  BY DEF Cmd, ToServer, Negotiations
<1> QED
  BY <1>1, ConcatAppends

LEMMA DontAnswered ==
  ASSUME NEW c \in Clients, NEW o \in TelnetOptions, NEW q \in Seq(ToServer),
         NEW srv, SizeKnown(c, srv, q)
  PROVE  LET d == HandleDont(c, o).next
             r == q \o HandleDont(c, o).reply
         IN /\ SameBut(c, d, o, TRUE) /\ r \in Seq(ToServer) /\ SizeKnown(d, srv, r)
            /\ \A p : StillSays(q, r, {"DO", "DONT"}, p)
            /\ \A p : p # o => StillSays(q, r, {"WILL", "WONT"}, p)
            /\ d.local[o] = "No"
            /\ IF c.local[o] = "Yes" THEN AlsoSays(q, r, {"WILL", "WONT"}, o, "WONT")
                                     ELSE StillSays(q, r, {"WILL", "WONT"}, o)
<1> DEFINE d == HandleDont(c, o).next
           r == q \o HandleDont(c, o).reply
<1>1. d = [c EXCEPT !.local[o] = "No"]
  BY DEF HandleDont
<1>2. r = IF c.local[o] = "Yes" THEN Append(q, Cmd("WONT", o)) ELSE q
  BY PlainAnswer DEF HandleDont
<1> HIDE DEF d, r
<1>3. SameBut(c, d, o, TRUE) /\ d.local[o] = "No"
  BY <1>1, LocalSet, "No" \in {"No", "WantYes", "Yes"}, Zenon
<1>4. d.geometry = c.geometry /\ (d.local["naws"] = "Yes" => c.local["naws"] = "Yes")
  BY <1>3, TelnetAssumption DEF SameBut
<1>5. CASE c.local[o] = "Yes"
  <2>1. r = Append(q, Cmd("WONT", o))
    BY <1>2, <1>5, Zenon
  <2>2. SizeKnown(d, srv, r)
    BY <1>4, <2>1, LocalQueued, SizeStays
  <2> QED
    BY <1>3, <1>5, <2>1, <2>2, LocalQueued, "WONT" \in {"WILL", "WONT"}, Zenon DEF d, r
<1>6. CASE c.local[o] # "Yes"
  <2>1. r = q /\ Cmd("WONT", o) \in ToServer /\ Cmd("WONT", o).cmd # "SB"
    BY <1>2, <1>6, LocalQueued
  <2>2. SizeKnown(d, srv, q)
    BY <1>4, <2>1, SizeStays
  <2> QED
    BY <1>3, <1>6, <2>1, <2>2, KeptReflexive, Zenon DEF d, r
<1> QED
  BY <1>5, <1>6, Zenon

LEMMA WillAnswered ==
  ASSUME NEW c \in Clients, NEW o \in TelnetOptions, NEW q \in Seq(ToServer),
         NEW srv, SizeKnown(c, srv, q)
  PROVE  LET d == HandleWill(c, o).next
             r == q \o HandleWill(c, o).reply
         IN /\ SameBut(c, d, o, FALSE) /\ r \in Seq(ToServer) /\ SizeKnown(d, srv, r)
            /\ \A p : StillSays(q, r, {"WILL", "WONT"}, p)
            /\ \A p : p # o => StillSays(q, r, {"DO", "DONT"}, p)
            /\ SupportsRemote(o) =>
                 /\ d.remote[o] = "Yes"
                 /\ IF c.remote[o] = "No" THEN AlsoSays(q, r, {"DO", "DONT"}, o, "DO")
                                          ELSE StillSays(q, r, {"DO", "DONT"}, o)
            /\ ~ SupportsRemote(o) =>
                 d.remote[o] = "No" /\ AlsoSays(q, r, {"DO", "DONT"}, o, "DONT")
<1> DEFINE d == HandleWill(c, o).next
           r == q \o HandleWill(c, o).reply
<1>1. d = [c EXCEPT !.remote[o] = IF SupportsRemote(o) THEN "Yes" ELSE "No"]
  BY DEF HandleWill
<1>2. r = IF ~ SupportsRemote(o) THEN Append(q, Cmd("DONT", o))
          ELSE IF c.remote[o] = "No" THEN Append(q, Cmd("DO", o)) ELSE q
  <2>1. Cmd("DONT", o) \in ToServer
    BY RemoteQueued
  <2> QED
    BY <2>1, ConcatAppends, PlainAnswer DEF HandleWill
<1> HIDE DEF d, r
<1>3. /\ SameBut(c, d, o, FALSE)
      /\ d.remote[o] = IF SupportsRemote(o) THEN "Yes" ELSE "No"
  <2> DEFINE v == IF SupportsRemote(o) THEN "Yes" ELSE "No"
  <2>1. v \in {"No", "WantYes", "Yes"}
    OBVIOUS
  <2>2. d = [c EXCEPT !.remote[o] = v]
    BY <1>1
  <2> HIDE DEF v
  <2>3. SameBut(c, d, o, FALSE) /\ d.remote[o] = v
    BY <2>1, <2>2, LocalSet, Zenon
  <2> QED
    BY <2>3 DEF v
<1>4. d.geometry = c.geometry /\ (d.local["naws"] = "Yes" => c.local["naws"] = "Yes")
  BY <1>3, TelnetAssumption DEF SameBut
<1>5. CASE ~ SupportsRemote(o)
  <2>1. r = Append(q, Cmd("DONT", o))
    BY <1>2, <1>5, Zenon
  <2>2. SizeKnown(d, srv, r)
    BY <1>4, <2>1, RemoteQueued, SizeStays
  <2> QED
    BY <1>3, <1>5, <2>1, <2>2, RemoteQueued, "DONT" \in {"DO", "DONT"}, Zenon DEF d, r
<1>6. CASE SupportsRemote(o) /\ c.remote[o] = "No"
  <2>1. r = Append(q, Cmd("DO", o))
    BY <1>2, <1>6, Zenon
  <2>2. SizeKnown(d, srv, r)
    BY <1>4, <2>1, RemoteQueued, SizeStays
  <2> QED
    BY <1>3, <1>6, <2>1, <2>2, RemoteQueued, "DO" \in {"DO", "DONT"}, Zenon DEF d, r
<1>7. CASE SupportsRemote(o) /\ c.remote[o] # "No"
  <2>1. r = q /\ Cmd("DO", o) \in ToServer /\ Cmd("DO", o).cmd # "SB"
    BY <1>2, <1>7, RemoteQueued
  <2>2. SizeKnown(d, srv, q)
    BY <1>4, <2>1, SizeStays
  <2> QED
    BY <1>3, <1>7, <2>1, <2>2, KeptReflexive, Zenon DEF d, r
<1> QED
  BY <1>5, <1>6, <1>7, Zenon

LEMMA WontAnswered ==
  ASSUME NEW c \in Clients, NEW o \in TelnetOptions, NEW q \in Seq(ToServer),
         NEW srv, SizeKnown(c, srv, q)
  PROVE  LET d == HandleWont(c, o).next
             r == q \o HandleWont(c, o).reply
         IN /\ SameBut(c, d, o, FALSE) /\ r \in Seq(ToServer) /\ SizeKnown(d, srv, r)
            /\ \A p : StillSays(q, r, {"WILL", "WONT"}, p)
            /\ \A p : p # o => StillSays(q, r, {"DO", "DONT"}, p)
            /\ d.remote[o] = "No"
            /\ IF c.remote[o] = "Yes" THEN AlsoSays(q, r, {"DO", "DONT"}, o, "DONT")
                                      ELSE StillSays(q, r, {"DO", "DONT"}, o)
<1> DEFINE d == HandleWont(c, o).next
           r == q \o HandleWont(c, o).reply
<1>1. d = [c EXCEPT !.remote[o] = "No"]
  BY DEF HandleWont
<1>2. r = IF c.remote[o] = "Yes" THEN Append(q, Cmd("DONT", o)) ELSE q
  BY PlainAnswer DEF HandleWont
<1> HIDE DEF d, r
<1>3. SameBut(c, d, o, FALSE) /\ d.remote[o] = "No"
  BY <1>1, LocalSet, "No" \in {"No", "WantYes", "Yes"}, Zenon
<1>4. d.geometry = c.geometry /\ (d.local["naws"] = "Yes" => c.local["naws"] = "Yes")
  BY <1>3, TelnetAssumption DEF SameBut
<1>5. CASE c.remote[o] = "Yes"
  <2>1. r = Append(q, Cmd("DONT", o))
    BY <1>2, <1>5, Zenon
  <2>2. SizeKnown(d, srv, r)
    BY <1>4, <2>1, RemoteQueued, SizeStays
  <2> QED
    BY <1>3, <1>5, <2>1, <2>2, RemoteQueued, "DONT" \in {"DO", "DONT"}, Zenon DEF d, r
<1>6. CASE c.remote[o] # "Yes"
  <2>1. r = q /\ Cmd("DONT", o) \in ToServer /\ Cmd("DONT", o).cmd # "SB"
    BY <1>2, <1>6, RemoteQueued
  <2>2. SizeKnown(d, srv, q)
    BY <1>4, <2>1, SizeStays
  <2> QED
    BY <1>3, <1>6, <2>1, <2>2, KeptReflexive, Zenon DEF d, r
<1> QED
  BY <1>5, <1>6, Zenon

\* A step of the client that takes a command about one side of an option.
LEMMA ClientTakes ==
  ASSUME TelnetInv, toClient # <<>>, NEW d, NEW r \in Seq(ToServer), NEW local \in BOOLEAN,
         SameBut(client, d, Head(toClient).option, local), SizeKnown(d, server, r),
         \A o \in TelnetOptions :
           /\ local => StillSays(toServer, r, {"DO", "DONT"}, o)
           /\ ~ local => StillSays(toServer, r, {"WILL", "WONT"}, o)
           /\ o # Head(toClient).option =>
                /\ StillSays(toServer, r, {"WILL", "WONT"}, o)
                /\ StillSays(toServer, r, {"DO", "DONT"}, o),
         LET o == Head(toClient).option
             c == Head(toClient).cmd
         IN IF local
            THEN Replies(c, client.local[o], d.local[o], toServer, r, o,
                         "WILL", "WONT", "DO", "DONT", SupportsLocal(o))
            ELSE Replies(c, client.remote[o], d.remote[o], toServer, r, o,
                         "DO", "DONT", "WILL", "WONT", SupportsRemote(o))
  PROVE  Sides(d, server, r, Tail(toClient)) /\ d \in Clients
<1> DEFINE m == Head(toClient)
           q == Tail(toClient)
<1>1. m \in Negotiations /\ toClient \in Seq(Negotiations)
  BY TailShifts DEF TelnetInv, TelnetTypes
<1>4. IF local THEN m.cmd \in {"DO", "DONT"} ELSE m.cmd \in {"WILL", "WONT"}
  BY DEF Replies
<1>2. ASSUME NEW o \in TelnetOptions
      PROVE  Negotiated(d.local[o], server.him[o], r, q, o,
                        "WILL", "WONT", "DO", "DONT", SupportsLocal(o))
  <2>1. /\ Negotiated(client.local[o], server.him[o], toServer, toClient, o,
                      "WILL", "WONT", "DO", "DONT", SupportsLocal(o))
        /\ SupportsLocal(o) \in BOOLEAN
    BY DEF TelnetInv, Sides, SupportsLocal
  <2>2. CASE About(m, {"DO", "DONT"}, o)
    <3>1. Consumed(toClient, q, {"DO", "DONT"}, o, m)
      BY <1>1, <2>2, TailTakes
    <3>2. o = Head(toClient).option /\ local
      BY <1>4, <2>2 DEF About
    <3>3. Replies(m.cmd, client.local[o], d.local[o], toServer, r, o,
                  "WILL", "WONT", "DO", "DONT", SupportsLocal(o))
      BY <3>2, Zenon
    <3> HIDE DEF m, q
    <3> QED
      BY <2>1, <3>1, <3>3, ClientAnswers, "DO" # "DONT", Zenon
  <2>3. CASE ~ About(m, {"DO", "DONT"}, o)
    <3>1. StillSays(toClient, q, {"DO", "DONT"}, o)
      BY <1>1, <2>3, TailKeeps
    <3>2. d.local[o] = client.local[o] /\ StillSays(toServer, r, {"WILL", "WONT"}, o)
      BY <1>1, <1>4, <2>3 DEF About, SameBut, Negotiations
    <3> HIDE DEF m, q
    <3> QED
      BY <2>1, <3>1, <3>2, SideApart, Zenon
  <2> QED
    BY <2>2, <2>3, Zenon
<1>3. ASSUME NEW o \in TelnetOptions
      PROVE  Negotiated(d.remote[o], server.us[o], r, q, o,
                        "DO", "DONT", "WILL", "WONT", SupportsRemote(o))
  <2>1. /\ Negotiated(client.remote[o], server.us[o], toServer, toClient, o,
                      "DO", "DONT", "WILL", "WONT", SupportsRemote(o))
        /\ SupportsRemote(o) \in BOOLEAN
    BY DEF TelnetInv, Sides, SupportsRemote
  <2>2. CASE About(m, {"WILL", "WONT"}, o)
    <3>1. Consumed(toClient, q, {"WILL", "WONT"}, o, m)
      BY <1>1, <2>2, TailTakes
    <3>2. o = Head(toClient).option /\ ~ local
      BY <1>4, <2>2 DEF About
    <3>3. Replies(m.cmd, client.remote[o], d.remote[o], toServer, r, o,
                  "DO", "DONT", "WILL", "WONT", SupportsRemote(o))
      BY <3>2, Zenon
    <3> HIDE DEF m, q
    <3> QED
      BY <2>1, <3>1, <3>3, ClientAnswers, "WILL" # "WONT", Zenon
  <2>3. CASE ~ About(m, {"WILL", "WONT"}, o)
    <3>1. StillSays(toClient, q, {"WILL", "WONT"}, o)
      BY <1>1, <2>3, TailKeeps
    <3>2. d.remote[o] = client.remote[o] /\ StillSays(toServer, r, {"DO", "DONT"}, o)
      BY <1>1, <1>4, <2>3 DEF About, SameBut, Negotiations
    <3> HIDE DEF m, q
    <3> QED
      BY <2>1, <3>1, <3>2, SideApart, Zenon
  <2> QED
    BY <2>2, <2>3, Zenon
<1> QED
  BY <1>2, <1>3, Zenon DEF Sides, SameBut

LEMMA ClientReceivesKeeps ==
  ASSUME TelnetInv, ClientReceives
  PROVE  TelnetInv'
<1> DEFINE o == Head(toClient).option
           c == Head(toClient).cmd
           d == HandleNegotiation(client, Head(toClient)).next
           r == toServer \o HandleNegotiation(client, Head(toClient)).reply
<1>1. /\ toClient # <<>> /\ toClient' = Tail(toClient) /\ client' = d /\ toServer' = r
      /\ UNCHANGED <<server, initiatives, resizes>>
  BY DEF ClientReceives
<1>2. Head(toClient) \in Negotiations /\ Tail(toClient) \in Seq(Negotiations)
  BY <1>1, TailShifts DEF TelnetInv, TelnetTypes
<1>3. c \in {"DO", "DONT", "WILL", "WONT"} /\ o \in TelnetOptions
  BY <1>2 DEF Negotiations
<1>4. client \in Clients /\ toServer \in Seq(ToServer) /\ SizeKnown(client, server, toServer)
  BY DEF TelnetInv, TelnetTypes
<1>5. /\ r \in Seq(ToServer) /\ SizeKnown(d, server, r)
      /\ \E local \in BOOLEAN :
           /\ SameBut(client, d, o, local)
           /\ \A p \in TelnetOptions :
                /\ local => StillSays(toServer, r, {"DO", "DONT"}, p)
                /\ ~ local => StillSays(toServer, r, {"WILL", "WONT"}, p)
                /\ p # o => StillSays(toServer, r, {"WILL", "WONT"}, p)
                              /\ StillSays(toServer, r, {"DO", "DONT"}, p)
           /\ IF local
              THEN Replies(c, client.local[o], d.local[o], toServer, r, o,
                           "WILL", "WONT", "DO", "DONT", SupportsLocal(o))
              ELSE Replies(c, client.remote[o], d.remote[o], toServer, r, o,
                           "DO", "DONT", "WILL", "WONT", SupportsRemote(o))
  <2>1. CASE c = "DO"
    <3>1. d = HandleDo(client, o).next /\ r = toServer \o HandleDo(client, o).reply
      BY <2>1 DEF HandleNegotiation
    <3> HIDE DEF d, r, o, c
    <3> QED
      BY <1>3, <1>4, <2>1, <3>1, DoAnswered, Zenon DEF Replies
  <2>2. CASE c = "DONT"
    <3>1. d = HandleDont(client, o).next /\ r = toServer \o HandleDont(client, o).reply
      BY <2>2 DEF HandleNegotiation
    <3> HIDE DEF d, r, o, c
    <3> QED
      BY <1>3, <1>4, <2>2, <3>1, DontAnswered, Zenon DEF Replies
  <2>3. CASE c = "WILL"
    <3>1. d = HandleWill(client, o).next /\ r = toServer \o HandleWill(client, o).reply
      BY <2>3 DEF HandleNegotiation
    <3> HIDE DEF d, r, o, c
    <3> QED
      BY <1>3, <1>4, <2>3, <3>1, WillAnswered, Zenon DEF Replies
  <2>4. CASE c = "WONT"
    <3>1. d = HandleWont(client, o).next /\ r = toServer \o HandleWont(client, o).reply
      BY <2>4 DEF HandleNegotiation
    <3> HIDE DEF d, r, o, c
    <3> QED
      BY <1>3, <1>4, <2>4, <3>1, WontAnswered, Zenon DEF Replies
  <2> HIDE DEF d, r, o, c
  <2> QED
    BY <1>3, <2>1, <2>2, <2>3, <2>4, Zenon
<1> HIDE DEF d, r
<1>6. Sides(d, server, r, Tail(toClient)) /\ d \in Clients
  BY <1>1, <1>5, ClientTakes, Zenon
<1> QED
  BY <1>1, <1>2, <1>5, <1>6 DEF TelnetInv, TelnetTypes

LEMMA ClientResizesKeeps ==
  ASSUME TelnetInv, NEW g \in WindowSizes, ClientResizes(g)
  PROVE  TelnetInv'
<1>1. /\ client' = [client EXCEPT !.geometry = g]
      /\ toServer' = IF client.local["naws"] = "Yes" THEN Append(toServer, Naws(g)) ELSE toServer
      /\ resizes < MaxResizes /\ resizes' = resizes + 1
      /\ UNCHANGED <<server, toClient, initiatives>>
  BY DEF ClientResizes
<1>2. /\ client' \in Clients /\ client'.local = client.local /\ client'.remote = client.remote
      /\ client'.geometry = g
  BY <1>1 DEF TelnetInv, TelnetTypes, Clients
<1>3. /\ toServer \in Seq(ToServer) /\ Naws(g) \in ToServer
      /\ Naws(g).cmd = "SB" /\ Naws(g).size = g
  BY SizeQueued DEF TelnetInv, TelnetTypes
<1>4. /\ toServer' \in Seq(ToServer)
      /\ \A p : StillSays(toServer, toServer', {"DO", "DONT"}, p)
      /\ \A p : StillSays(toServer, toServer', {"WILL", "WONT"}, p)
  <2>1. CASE client.local["naws"] = "Yes"
    <3>1. toServer' = Append(toServer, Naws(g))
      BY <1>1, <2>1
    <3> QED
      BY <1>3, <3>1, SizeQueued
  <2>2. CASE client.local["naws"] # "Yes"
    <3>1. toServer' = toServer
      BY <1>1, <2>2
    <3> QED
      BY <1>3, <3>1, KeptReflexive, Zenon
  <2> QED
    BY <2>1, <2>2, Zenon
<1>5. SizeKnown(client', server', toServer')
  <2>1. CASE client.local["naws"] = "Yes"
    <3>1. toServer' = Append(toServer, Naws(g))
      BY <1>1, <2>1
    <3> QED
      BY <1>2, <1>3, <3>1, SizeTold
  <2>2. CASE client.local["naws"] # "Yes"
    BY <1>2, <2>2 DEF SizeKnown
  <2> QED
    BY <2>1, <2>2, Zenon
<1>6. Sides(client', server', toServer', toClient')
  <2> SUFFICES ASSUME NEW o \in TelnetOptions
               PROVE  /\ Negotiated(client'.local[o], server'.him[o], toServer', toClient', o,
                                    "WILL", "WONT", "DO", "DONT", SupportsLocal(o))
                      /\ Negotiated(client'.remote[o], server'.us[o], toServer', toClient', o,
                                    "DO", "DONT", "WILL", "WONT", SupportsRemote(o))
    BY DEF Sides
  <2>1. SupportsLocal(o) \in BOOLEAN /\ SupportsRemote(o) \in BOOLEAN
    BY DEF SupportsLocal, SupportsRemote
  <2>2. /\ Negotiated(client.local[o], server.him[o], toServer, toClient, o,
                      "WILL", "WONT", "DO", "DONT", SupportsLocal(o))
        /\ Negotiated(client.remote[o], server.us[o], toServer, toClient, o,
                      "DO", "DONT", "WILL", "WONT", SupportsRemote(o))
    BY DEF TelnetInv, Sides
  <2>3. /\ client'.local[o] = client.local[o] /\ client'.remote[o] = client.remote[o]
        /\ server' = server /\ toClient' = toClient
    BY <1>1, <1>2
  <2>4. /\ StillSays(toClient, toClient', {"DO", "DONT"}, o)
        /\ StillSays(toClient, toClient', {"WILL", "WONT"}, o)
    BY <2>3, KeptReflexive, Zenon
  <2>5. Negotiated(client'.local[o], server'.him[o], toServer', toClient', o,
                   "WILL", "WONT", "DO", "DONT", SupportsLocal(o))
    BY <1>4, <2>1, <2>2, <2>3, <2>4, SideApart
  <2>6. Negotiated(client'.remote[o], server'.us[o], toServer', toClient', o,
                   "DO", "DONT", "WILL", "WONT", SupportsRemote(o))
    BY <1>4, <2>1, <2>2, <2>3, <2>4, SideApart
  <2> QED
    BY <2>5, <2>6, Zenon
<1> QED
  BY <1>1, <1>2, <1>4, <1>5, <1>6, TelnetAssumption DEF TelnetInv, TelnetTypes

-----------------------------------------------------------------------------
(* The server's steps.                                                     *)

LEMMA ToClientQueued ==
  ASSUME NEW q \in Seq(Negotiations), NEW o \in TelnetOptions, NEW c, NEW cs, NEW ds,
         \/ c \in {"DO", "DONT"} /\ cs = {"DO", "DONT"} /\ ds = {"WILL", "WONT"}
         \/ c \in {"WILL", "WONT"} /\ cs = {"WILL", "WONT"} /\ ds = {"DO", "DONT"}
  PROVE  /\ Append(q, Cmd(c, o)) \in Seq(Negotiations)
         /\ AlsoSays(q, Append(q, Cmd(c, o)), cs, o, c)
         /\ \A p : p # o => StillSays(q, Append(q, Cmd(c, o)), cs, p)
         /\ \A p : StillSays(q, Append(q, Cmd(c, o)), ds, p)
<1> DEFINE m == Cmd(c, o)
<1>1. m \in Negotiations /\ m.cmd = c /\ m.option = o
  BY DEF Cmd, Negotiations
<1> HIDE DEF m
<1>2. Append(q, m) \in Seq(Negotiations)
  BY <1>1
<1>3. /\ About(m, cs, o) /\ \A p : p # o => ~ About(m, cs, p)
      /\ \A p : ~ About(m, ds, p)
  BY <1>1 DEF About
<1>4. AlsoSays(q, Append(q, m), cs, o, c)
  BY <1>1, <1>3, AppendAdds, Zenon
<1>5. \A p : (p # o => StillSays(q, Append(q, m), cs, p)) /\ StillSays(q, Append(q, m), ds, p)
  BY <1>1, <1>3, AppendKeeps, Zenon
<1> QED
  BY <1>2, <1>4, <1>5, Zenon DEF m

\* The commands of the two sides.
ClientOn(side) == IF side = "him" THEN "WILL" ELSE "DO"
ClientOff(side) == IF side = "him" THEN "WONT" ELSE "DONT"
ServerOn(side) == IF side = "him" THEN "DO" ELSE "WILL"
ServerOff(side) == IF side = "him" THEN "DONT" ELSE "WONT"

\* A step of the server that sets one side of an option, having taken a command or not.
LEMMA ServerMoves ==
  ASSUME TelnetInv, NEW side \in {"us", "him"}, NEW o \in TelnetOptions, NEW srv2 \in Views,
         NEW up2 \in Seq(ToServer), NEW down2 \in Seq(Negotiations),
         \/ up2 = toServer /\ AsksChange(server[side][o], srv2, toClient, down2, o,
                                       ServerOn(side), ServerOff(side))
         \/ /\ toServer # <<>> /\ up2 = Tail(toServer)
            /\ About(Head(toServer), {ClientOn(side), ClientOff(side)}, o)
            /\ Decides(Head(toServer).cmd, server[side][o], srv2, toClient, down2, o,
                       ClientOn(side), ClientOff(side), ServerOn(side), ServerOff(side)),
         \A p \in TelnetOptions :
           p # o => StillSays(toClient, down2, {"DO", "DONT"}, p)
                      /\ StillSays(toClient, down2, {"WILL", "WONT"}, p),
         IF side = "him" THEN StillSays(toClient, down2, {"WILL", "WONT"}, o)
                         ELSE StillSays(toClient, down2, {"DO", "DONT"}, o)
  PROVE  /\ Sides(client, [server EXCEPT ![side][o] = srv2], up2, down2)
         /\ [server EXCEPT ![side][o] = srv2] \in Servers
         /\ SizeKnown(client, [server EXCEPT ![side][o] = srv2], up2)
<1> DEFINE s == [server EXCEPT ![side][o] = srv2]
<1>1. /\ s \in Servers /\ s.size = server.size /\ s[side][o] = srv2
      /\ \A p \in TelnetOptions :
           /\ p # o \/ side = "us" => s.him[p] = server.him[p]
           /\ p # o \/ side = "him" => s.us[p] = server.us[p]
  BY DEF TelnetInv, TelnetTypes, Servers
<1> HIDE DEF s
<1>2. toServer \in Seq(ToServer) /\ SizeKnown(client, server, toServer)
  BY DEF TelnetInv, TelnetTypes
<1>3. \A p \in TelnetOptions :
        /\ p # o \/ side = "us" => StillSays(toServer, up2, {"WILL", "WONT"}, p)
        /\ p # o \/ side = "him" => StillSays(toServer, up2, {"DO", "DONT"}, p)
  <2>1. CASE up2 = toServer
    BY <2>1, KeptReflexive, Zenon
  <2>2. CASE /\ toServer # <<>> /\ up2 = Tail(toServer)
             /\ About(Head(toServer), {ClientOn(side), ClientOff(side)}, o)
    <3>1. \A p \in TelnetOptions :
            /\ p # o \/ side = "us" => ~ About(Head(toServer), {"WILL", "WONT"}, p)
            /\ p # o \/ side = "him" => ~ About(Head(toServer), {"DO", "DONT"}, p)
      BY <2>2 DEF About, ClientOn, ClientOff
    <3> QED
      BY <1>2, <2>2, <3>1, TailKeeps, Zenon
  <2> QED
    BY <2>1, <2>2, Zenon
<1>4. SizeKnown(client, s, up2)
  <2>1. CASE up2 = toServer
    BY <1>1, <1>2, <2>1 DEF SizeKnown
  <2>2. CASE /\ toServer # <<>> /\ up2 = Tail(toServer)
             /\ About(Head(toServer), {ClientOn(side), ClientOff(side)}, o)
    <3>1. Head(toServer).cmd # "SB"
      BY <2>2 DEF About, ClientOn, ClientOff
    <3> QED
      BY <1>1, <1>2, <2>2, <3>1, SizeArrives
  <2> QED
    BY <2>1, <2>2, Zenon
<1>5. ASSUME NEW p \in TelnetOptions
      PROVE  Negotiated(client.local[p], s.him[p], up2, down2, p,
                        "WILL", "WONT", "DO", "DONT", SupportsLocal(p))
  <2>1. /\ Negotiated(client.local[p], server.him[p], toServer, toClient, p,
                      "WILL", "WONT", "DO", "DONT", SupportsLocal(p))
        /\ SupportsLocal(p) \in BOOLEAN
    BY DEF TelnetInv, Sides, SupportsLocal
  <2>2. CASE p # o \/ side = "us"
    BY <1>1, <1>3, <2>1, <2>2, SideApart
  <2>3. CASE p = o /\ side = "him"
    <3>1. s.him[p] = srv2 /\ server[side][o] = server.him[p]
      BY <1>1, <2>3
    <3>2. /\ ClientOn(side) = "WILL" /\ ClientOff(side) = "WONT"
          /\ ServerOn(side) = "DO" /\ ServerOff(side) = "DONT"
      BY <2>3 DEF ClientOn, ClientOff, ServerOn, ServerOff
    <3>3. CASE up2 = toServer /\ AsksChange(server.him[p], srv2, toClient, down2, p, "DO", "DONT")
      BY <2>1, <3>1, <3>3, ServerRequests
    <3>4. CASE /\ toServer # <<>> /\ up2 = Tail(toServer)
               /\ About(Head(toServer), {"WILL", "WONT"}, p)
               /\ Decides(Head(toServer).cmd, server.him[p], srv2, toClient, down2, p,
                          "WILL", "WONT", "DO", "DONT")
      <4>1. Consumed(toServer, up2, {"WILL", "WONT"}, p, Head(toServer))
        BY <1>2, <3>4, TailTakes, Zenon
      <4> QED
        BY <2>1, <3>1, <3>4, <4>1, ServerTakes, "WILL" # "WONT", Zenon
    <3> QED
      BY <2>3, <3>1, <3>2, <3>3, <3>4, Zenon
  <2> QED
    BY <2>2, <2>3
<1>6. ASSUME NEW p \in TelnetOptions
      PROVE  Negotiated(client.remote[p], s.us[p], up2, down2, p,
                        "DO", "DONT", "WILL", "WONT", SupportsRemote(p))
  <2>1. /\ Negotiated(client.remote[p], server.us[p], toServer, toClient, p,
                      "DO", "DONT", "WILL", "WONT", SupportsRemote(p))
        /\ SupportsRemote(p) \in BOOLEAN
    BY DEF TelnetInv, Sides, SupportsRemote
  <2>2. CASE p # o \/ side = "him"
    BY <1>1, <1>3, <2>1, <2>2, SideApart
  <2>3. CASE p = o /\ side = "us"
    <3>1. s.us[p] = srv2 /\ server[side][o] = server.us[p]
      BY <1>1, <2>3
    <3>2. /\ ClientOn(side) = "DO" /\ ClientOff(side) = "DONT"
          /\ ServerOn(side) = "WILL" /\ ServerOff(side) = "WONT"
      BY <2>3 DEF ClientOn, ClientOff, ServerOn, ServerOff
    <3>3. CASE up2 = toServer /\ AsksChange(server.us[p], srv2, toClient, down2, p, "WILL", "WONT")
      BY <2>1, <3>1, <3>3, ServerRequests
    <3>4. CASE /\ toServer # <<>> /\ up2 = Tail(toServer)
               /\ About(Head(toServer), {"DO", "DONT"}, p)
               /\ Decides(Head(toServer).cmd, server.us[p], srv2, toClient, down2, p,
                          "DO", "DONT", "WILL", "WONT")
      <4>1. Consumed(toServer, up2, {"DO", "DONT"}, p, Head(toServer))
        BY <1>2, <3>4, TailTakes, Zenon
      <4> QED
        BY <2>1, <3>1, <3>4, <4>1, ServerTakes, "DO" # "DONT", Zenon
    <3> QED
      BY <2>3, <3>1, <3>2, <3>3, <3>4, Zenon
  <2> QED
    BY <2>2, <2>3
<1> QED
  BY <1>1, <1>4, <1>5, <1>6, Zenon DEF Sides, s

LEMMA ServerAsksKeeps ==
  ASSUME TelnetInv, NEW o \in TelnetOptions, ServerAsks(o)
  PROVE  TelnetInv'
<1>1. PICK side \in {"us", "him"} :
        LET on == server[side][o] = "No" IN
        /\ server[side][o] \in {"No", "Yes"}
        /\ server' = [server EXCEPT ![side][o] = IF on THEN "WantYes" ELSE "WantNo"]
        /\ toClient' = Append(toClient, Cmd(IF on THEN ServerOn(side) ELSE ServerOff(side), o))
  BY DEF ServerAsks, ServerOn, ServerOff
<1> DEFINE srv2 == IF server[side][o] = "No" THEN "WantYes" ELSE "WantNo"
           c == IF server[side][o] = "No" THEN ServerOn(side) ELSE ServerOff(side)
<1>2. /\ UNCHANGED <<client, toServer, resizes>>
      /\ initiatives < MaxInitiatives /\ initiatives' = initiatives + 1
  BY DEF ServerAsks
<1>3. toServer \in Seq(ToServer) /\ toClient \in Seq(Negotiations) /\ client \in Clients
  BY DEF TelnetInv, TelnetTypes
<1>4. /\ side = "him" => c \in {"DO", "DONT"}
      /\ side = "us" => c \in {"WILL", "WONT"}
  BY DEF ServerOn, ServerOff
<1>5. /\ toClient' \in Seq(Negotiations)
      /\ AlsoSays(toClient, toClient', {ServerOn(side), ServerOff(side)}, o, c)
      /\ \A p \in TelnetOptions :
           p # o => StillSays(toClient, toClient', {"DO", "DONT"}, p)
                      /\ StillSays(toClient, toClient', {"WILL", "WONT"}, p)
      /\ IF side = "him" THEN StillSays(toClient, toClient', {"WILL", "WONT"}, o)
                         ELSE StillSays(toClient, toClient', {"DO", "DONT"}, o)
  <2>1. CASE side = "him"
    <3>1. ServerOn(side) = "DO" /\ ServerOff(side) = "DONT"
      BY <2>1 DEF ServerOn, ServerOff
    <3>2. c \in {"DO", "DONT"} /\ toClient' = Append(toClient, Cmd(c, o))
      BY <1>1, <1>4, <2>1
    <3> HIDE DEF c
    <3> QED
      BY <1>3, <2>1, <3>1, <3>2, ToClientQueued
  <2>2. CASE side = "us"
    <3>1. ServerOn(side) = "WILL" /\ ServerOff(side) = "WONT"
      BY <2>2 DEF ServerOn, ServerOff
    <3>2. c \in {"WILL", "WONT"} /\ toClient' = Append(toClient, Cmd(c, o))
      BY <1>1, <1>4, <2>2
    <3> HIDE DEF c
    <3> QED
      BY <1>3, <2>2, <3>1, <3>2, ToClientQueued
  <2> QED
    BY <2>1, <2>2
<1>6. AsksChange(server[side][o], srv2, toClient, toClient', o, ServerOn(side), ServerOff(side))
  BY <1>1, <1>5 DEF AsksChange
<1>7. srv2 \in Views /\ server' = [server EXCEPT ![side][o] = srv2]
  BY <1>1 DEF Views
<1> HIDE DEF srv2
<1>8. Sides(client, server', toServer, toClient') /\ server' \in Servers
        /\ SizeKnown(client, server', toServer)
  BY <1>3, <1>5, <1>6, <1>7, ServerMoves
<1> QED
  BY <1>2, <1>3, <1>5, <1>8, TelnetAssumption DEF TelnetInv, TelnetTypes

\* The server's answer to a command about one side of an option.
LEMMA ServerAnswersKeeps ==
  ASSUME TelnetInv, NEW side \in {"us", "him"}, toServer # <<>>,
         Head(toServer) \in Negotiations,
         Head(toServer).cmd \in {ClientOn(side), ClientOff(side)},
         ServerAnswers(side, Head(toServer).option, Head(toServer).cmd = ClientOn(side),
                       ServerOn(side), ServerOff(side)),
         toServer' = Tail(toServer), UNCHANGED <<client, initiatives, resizes>>
  PROVE  TelnetInv'
<1> DEFINE o == Head(toServer).option
           srv == server[side][o]
           on == Head(toServer).cmd = ClientOn(side)
<1>1. o \in TelnetOptions /\ About(Head(toServer), {ClientOn(side), ClientOff(side)}, o)
  BY DEF About, Negotiations
<1>2. /\ toServer \in Seq(ToServer) /\ Tail(toServer) \in Seq(ToServer)
      /\ toClient \in Seq(Negotiations) /\ client \in Clients
  BY TailShifts DEF TelnetInv, TelnetTypes
<1>3. srv \in Views /\ ClientOn(side) # ClientOff(side)
  BY <1>1 DEF TelnetInv, TelnetTypes, Servers, ClientOn, ClientOff
<1>5. PICK srv2 \in Views :
        /\ server' = [server EXCEPT ![side][o] = srv2]
        /\ \/ /\ on /\ srv = "No" /\ srv2 = "Yes"
              /\ toClient' = Append(toClient, Cmd(ServerOn(side), o))
           \/ /\ on /\ srv = "No" /\ srv2 = "No"
              /\ toClient' = Append(toClient, Cmd(ServerOff(side), o))
           \/ /\ on /\ srv # "No" /\ srv2 = (IF srv = "WantNo" THEN "No" ELSE "Yes")
              /\ toClient' = toClient
           \/ /\ ~ on /\ srv = "Yes" /\ srv2 = "No"
              /\ toClient' = Append(toClient, Cmd(ServerOff(side), o))
           \/ ~ on /\ srv # "Yes" /\ srv2 = "No" /\ toClient' = toClient
  <2>1. CASE on /\ srv = "No"
    BY <2>1 DEF ServerAnswers, Views
  <2>2. CASE on /\ srv # "No"
    BY <2>2 DEF ServerAnswers, Views
  <2>3. CASE ~ on
    BY <2>3 DEF ServerAnswers, Views
  <2> QED
    BY <2>1, <2>2, <2>3, Zenon
<1>6. ASSUME NEW c \in {ServerOn(side), ServerOff(side)}, toClient' = Append(toClient, Cmd(c, o))
      PROVE  /\ toClient' \in Seq(Negotiations)
             /\ AlsoSays(toClient, toClient', {ServerOn(side), ServerOff(side)}, o, c)
             /\ \A p \in TelnetOptions :
                  p # o => StillSays(toClient, toClient', {"DO", "DONT"}, p)
                             /\ StillSays(toClient, toClient', {"WILL", "WONT"}, p)
             /\ IF side = "him" THEN StillSays(toClient, toClient', {"WILL", "WONT"}, o)
                                ELSE StillSays(toClient, toClient', {"DO", "DONT"}, o)
  <2> HIDE DEF o
  <2>1. CASE side = "him"
    <3>1. ServerOn(side) = "DO" /\ ServerOff(side) = "DONT"
      BY <2>1 DEF ServerOn, ServerOff
    <3> QED
      BY <1>1, <1>2, <1>6, <2>1, <3>1, ToClientQueued
  <2>2. CASE side = "us"
    <3>1. ServerOn(side) = "WILL" /\ ServerOff(side) = "WONT"
      BY <2>2 DEF ServerOn, ServerOff
    <3> QED
      BY <1>1, <1>2, <1>6, <2>2, <3>1, ToClientQueued
  <2> QED
    BY <2>1, <2>2
<1>7. /\ toClient' \in Seq(Negotiations)
      /\ \A p \in TelnetOptions :
           p # o => StillSays(toClient, toClient', {"DO", "DONT"}, p)
                      /\ StillSays(toClient, toClient', {"WILL", "WONT"}, p)
      /\ IF side = "him" THEN StillSays(toClient, toClient', {"WILL", "WONT"}, o)
                         ELSE StillSays(toClient, toClient', {"DO", "DONT"}, o)
      /\ Decides(Head(toServer).cmd, srv, srv2, toClient, toClient', o,
                 ClientOn(side), ClientOff(side), ServerOn(side), ServerOff(side))
  <2>0. \A cs, p : StillSays(toClient, toClient, cs, p)
    BY KeptReflexive, Zenon
  <2>1. Head(toServer).cmd = IF on THEN ClientOn(side) ELSE ClientOff(side)
    OBVIOUS
  <2>2. CASE toClient' = toClient
    <3>1. toClient' \in Seq(Negotiations) /\ \A cs, p : StillSays(toClient, toClient', cs, p)
      BY <1>2, <2>0, <2>2
    <3>2. ~ (on /\ srv = "No") /\ ~ (~ on /\ srv = "Yes")
      <4>1. Append(toClient, Cmd(ServerOn(side), o)) # toClient
              /\ Append(toClient, Cmd(ServerOff(side), o)) # toClient
        <5>1. /\ Len(Append(toClient, Cmd(ServerOn(side), o))) = Len(toClient) + 1
              /\ Len(Append(toClient, Cmd(ServerOff(side), o))) = Len(toClient) + 1
              /\ Len(toClient) \in Nat
          BY <1>2
        <5> QED
          BY <5>1
      <4> HIDE DEF srv, on, o
      <4> QED
        BY <1>5, <2>2, <4>1
    <3>3. /\ on => srv # "No" /\ srv2 = (IF srv = "WantNo" THEN "No" ELSE "Yes")
          /\ ~ on => srv # "Yes" /\ srv2 = "No"
      <4> HIDE DEF srv, on, o
      <4> QED
        BY <1>5, <3>2
    <3> HIDE DEF srv, on, o
    <3> QED
      BY <2>1, <3>1, <3>3 DEF Decides
  <2>3. CASE /\ toClient' = Append(toClient, Cmd(ServerOn(side), o))
             /\ on /\ srv = "No" /\ srv2 = "Yes"
    <3> HIDE DEF srv, on, o
    <3> QED
      BY <1>6, <2>1, <2>3 DEF Decides
  <2>4. CASE /\ toClient' = Append(toClient, Cmd(ServerOff(side), o))
             /\ srv = (IF on THEN "No" ELSE "Yes") /\ srv2 = "No"
    <3> HIDE DEF srv, on, o
    <3> QED
      BY <1>6, <2>1, <2>4 DEF Decides
  <2> HIDE DEF srv, on, o
  <2> QED
    BY <1>5, <2>2, <2>3, <2>4
<1>8. Sides(client, server', Tail(toServer), toClient') /\ server' \in Servers
        /\ SizeKnown(client, server', Tail(toServer))
  <2> HIDE DEF on
  <2> QED
    BY <1>1, <1>2, <1>5, <1>7, ServerMoves
<1> QED
  BY <1>2, <1>7, <1>8 DEF TelnetInv, TelnetTypes

LEMMA ServerReceivesKeeps ==
  ASSUME TelnetInv, ServerReceives
  PROVE  TelnetInv'
<1> DEFINE m == Head(toServer)
<1>1. /\ toServer # <<>> /\ toServer' = Tail(toServer)
      /\ UNCHANGED <<client, initiatives, resizes>>
  BY DEF ServerReceives
<1>2. /\ toServer \in Seq(ToServer) /\ m \in ToServer /\ Tail(toServer) \in Seq(ToServer)
      /\ SizeKnown(client, server, toServer)
  BY <1>1, TailShifts DEF TelnetInv, TelnetTypes
<1>3. CASE m \in Negotiations /\ m.cmd \in {"WILL", "WONT"}
  <2>1. /\ ClientOn("him") = "WILL" /\ ClientOff("him") = "WONT"
        /\ ServerOn("him") = "DO" /\ ServerOff("him") = "DONT"
    BY DEF ClientOn, ClientOff, ServerOn, ServerOff
  <2>2. ServerAnswers("him", m.option, m.cmd = "WILL", "DO", "DONT")
    BY <1>3 DEF ServerReceives
  <2> QED
    BY <1>1, <1>3, <2>1, <2>2, ServerAnswersKeeps
<1>4. CASE m \in Negotiations /\ m.cmd \in {"DO", "DONT"}
  <2>1. /\ ClientOn("us") = "DO" /\ ClientOff("us") = "DONT"
        /\ ServerOn("us") = "WILL" /\ ServerOff("us") = "WONT"
    BY DEF ClientOn, ClientOff, ServerOn, ServerOff
  <2>2. ServerAnswers("us", m.option, m.cmd = "DO", "WILL", "WONT")
    BY <1>4 DEF ServerReceives
  <2> QED
    BY <1>1, <1>4, <2>1, <2>2, ServerAnswersKeeps
<1>5. CASE m \in Sizings
  <2>1. m.cmd = "SB" /\ m.size \in WindowSizes
    BY <1>5 DEF Sizings
  <2>2. server' = [server EXCEPT !.size = m.size] /\ UNCHANGED toClient
    BY <2>1 DEF ServerReceives
  <2>3. /\ server' \in Servers /\ server'.size = m.size
        /\ server'.him = server.him /\ server'.us = server.us
    BY <2>1, <2>2 DEF TelnetInv, TelnetTypes, Servers
  <2>4. SizeKnown(client, server', Tail(toServer))
    BY <1>1, <1>2, <2>1, <2>3, SizeArrives
  <2>5. \A p : /\ StillSays(toServer, Tail(toServer), {"DO", "DONT"}, p)
               /\ StillSays(toServer, Tail(toServer), {"WILL", "WONT"}, p)
    <3>1. \A p : ~ About(m, {"DO", "DONT"}, p) /\ ~ About(m, {"WILL", "WONT"}, p)
      BY <2>1 DEF About
    <3> QED
      BY <1>1, <1>2, <3>1, TailKeeps, Zenon
  <2>6. Sides(client, server', Tail(toServer), toClient)
    <3> SUFFICES ASSUME NEW o \in TelnetOptions
                 PROVE  /\ Negotiated(client.local[o], server'.him[o], Tail(toServer), toClient, o,
                                      "WILL", "WONT", "DO", "DONT", SupportsLocal(o))
                        /\ Negotiated(client.remote[o], server'.us[o], Tail(toServer), toClient, o,
                                      "DO", "DONT", "WILL", "WONT", SupportsRemote(o))
      BY DEF Sides
    <3>1. SupportsLocal(o) \in BOOLEAN /\ SupportsRemote(o) \in BOOLEAN
      BY DEF SupportsLocal, SupportsRemote
    <3>2. /\ Negotiated(client.local[o], server.him[o], toServer, toClient, o,
                        "WILL", "WONT", "DO", "DONT", SupportsLocal(o))
          /\ Negotiated(client.remote[o], server.us[o], toServer, toClient, o,
                        "DO", "DONT", "WILL", "WONT", SupportsRemote(o))
      BY DEF TelnetInv, Sides
    <3>3. /\ StillSays(toClient, toClient, {"DO", "DONT"}, o)
          /\ StillSays(toClient, toClient, {"WILL", "WONT"}, o)
      BY KeptReflexive, Zenon
    <3> HIDE DEF m
    <3> QED
      BY <2>3, <2>5, <3>1, <3>2, <3>3, SideApart
  <2> QED
    BY <1>1, <1>2, <2>2, <2>3, <2>4, <2>6 DEF TelnetInv, TelnetTypes
<1> QED
  BY <1>2, <1>3, <1>4, <1>5 DEF ToServer, Negotiations

-----------------------------------------------------------------------------
(* The initial requests, one for each option the client asks about.        *)

LEMMA RequestsOnce ==
  ASSUME NEW c \in {"WILL", "DO"}, NEW opts, IsFiniteSet(opts)
  PROVE  LET q == Requests_(c, opts) IN
         /\ q \in Seq(Negotiations)
         /\ \A i \in 1..Len(q) : q[i].cmd = c /\ q[i].option \in opts
         /\ \A o \in opts \cap TelnetOptions :
              \E i \in 1..Len(q) : \A k \in 1..Len(q) : q[k].option = o <=> k = i
<1> DEFINE S == {Cmd(c, o) : o \in opts \cap TelnetOptions}
           n == Cardinality(S)
           q == Requests_(c, opts)
<1>1. IsFiniteSet(S)
  <2> DEFINE T == opts \cap TelnetOptions
             f == [o \in T |-> Cmd(c, o)]
  <2>1. IsFiniteSet(T)
    BY FS_Subset
  <2>2. f \in Surjection(T, S)
    BY DEF Surjection
  <2> HIDE DEF f, T, S
  <2> QED
    BY <2>1, <2>2, FS_Surjection
<1>2. n \in Nat /\ \E f \in [1..n -> S] : IsInjective(f)
  <2> HIDE DEF S
  <2>1. n \in Nat /\ ExistsBijection(1..n, S)
    BY <1>1, FS_CardinalityType
  <2> HIDE DEF n
  <2>2. PICK f : f \in [1..n -> S] /\ \A a, b \in 1..n : f[a] = f[b] => a = b
    BY <2>1 DEF ExistsBijection, Bijection, Injection, IsInjective
  <2>3. IsInjective(f)
    BY <2>2 DEF IsInjective
  <2> QED
    BY <2>1, <2>2, <2>3
<1>3. q \in [1..n -> S] /\ IsInjective(q)
  <2>1. q = CHOOSE f \in [1..n -> S] : IsInjective(f)
    BY DEF Requests_, SetToSeq
  <2> HIDE DEF S, n, q
  <2> QED
    BY <1>2, <2>1
<1>4. S \subseteq Negotiations /\ \A m \in S : m.cmd = c /\ m.option \in opts
  BY DEF Cmd, Negotiations
<1>5. \A o \in opts \cap TelnetOptions : Cmd(c, o) \in S /\ Cmd(c, o).option = o
  BY DEF Cmd
<1>6. \A m \in S : \A o : m.option = o => m = Cmd(c, o)
  BY DEF Cmd
<1> HIDE DEF S, q
<1>7. q \in Seq(Negotiations) /\ Len(q) = n
  BY <1>2, <1>3, <1>4
<1>8. \A m \in S : \E i \in 1..n : q[i] = m
  <2>1. ExistsBijection(1..n, S)
    BY <1>1, FS_CardinalityType DEF n
  <2>2. IsFiniteSet(1..n) /\ Cardinality(1..n) = n
    BY <1>2, FS_Interval
  <2> HIDE DEF n
  <2>3. q \in Injection(1..n, S)
    BY <1>3 DEF Injection, IsInjective
  <2>4. q \in Surjection(1..n, S)
    BY <1>1, <2>2, <2>3, FS_Injection DEF n
  <2> QED
    BY <2>4 DEF Surjection
<1>9. \A i \in 1..n : q[i].cmd = c /\ q[i].option \in opts
  BY <1>3, <1>4
<1>10. ASSUME NEW o \in opts \cap TelnetOptions
       PROVE  \E i \in 1..n : \A k \in 1..n : q[k].option = o <=> k = i
  <2>1. PICK i \in 1..n : q[i] = Cmd(c, o)
    BY <1>5, <1>8
  <2>2. ASSUME NEW k \in 1..n, q[k].option = o PROVE k = i
    <3>1. q[k] = q[i]
      BY <1>3, <1>6, <2>1, <2>2
    <3> QED
      BY <1>3, <3>1 DEF IsInjective
  <2>3. q[i].option = o
    BY <1>5, <2>1
  <2> QED
    BY <2>2, <2>3
<1> QED
  BY <1>7, <1>9, <1>10 DEF q

LEMMA InitialQueue ==
  /\ InitialCommands \in Seq(ToServer)
  /\ \A k \in 1..Len(InitialCommands) : InitialCommands[k].cmd # "SB"
  /\ \A o \in TelnetOptions :
       /\ IF o \in InitialLocal THEN Says(InitialCommands, {"WILL", "WONT"}, o, "WILL")
                                ELSE Silent(InitialCommands, {"WILL", "WONT"}, o)
       /\ IF o \in InitialRemote THEN Says(InitialCommands, {"DO", "DONT"}, o, "DO")
                                 ELSE Silent(InitialCommands, {"DO", "DONT"}, o)
<1> DEFINE a == Requests_("WILL", InitialLocal)
           b == Requests_("DO", InitialRemote)
           q == InitialCommands
<1>1. IsFiniteSet(InitialLocal) /\ IsFiniteSet(InitialRemote)
  <2>1. IsFiniteSet({"ttype"} \cup {"naws"} \cup {"newEnviron"} \cup {"sga"})
    <3>1. IsFiniteSet({"ttype"} \cup {"naws"})
      BY FS_Singleton, FS_AddElement
    <3>2. IsFiniteSet(({"ttype"} \cup {"naws"}) \cup {"newEnviron"})
      BY <3>1, FS_AddElement
    <3> QED
      BY <3>2, FS_AddElement
  <2>2. IsFiniteSet({"echo"} \cup {"sga"})
    BY FS_Singleton, FS_AddElement
  <2>3. /\ InitialLocal = {"ttype"} \cup {"naws"} \cup {"newEnviron"} \cup {"sga"}
        /\ InitialRemote = {"echo"} \cup {"sga"}
    BY DEF InitialLocal, InitialRemote
  <2> QED
    BY <2>1, <2>2, <2>3
<1>2. /\ a \in Seq(Negotiations)
      /\ \A i \in 1..Len(a) : a[i].cmd = "WILL" /\ a[i].option \in InitialLocal
      /\ \A o \in InitialLocal \cap TelnetOptions :
           \E i \in 1..Len(a) : \A k \in 1..Len(a) : a[k].option = o <=> k = i
  BY <1>1, RequestsOnce
<1>3. /\ b \in Seq(Negotiations)
      /\ \A i \in 1..Len(b) : b[i].cmd = "DO" /\ b[i].option \in InitialRemote
      /\ \A o \in InitialRemote \cap TelnetOptions :
           \E i \in 1..Len(b) : \A k \in 1..Len(b) : b[k].option = o <=> k = i
  BY <1>1, RequestsOnce
<1>4. q = a \o b
  BY DEF InitialCommands
<1> HIDE DEF a, b, q
<1>5. /\ q \in Seq(Negotiations) /\ Len(a) \in Nat /\ Len(b) \in Nat
      /\ Len(q) = Len(a) + Len(b)
      /\ \A i \in 1..Len(a) : q[i] = a[i]
      /\ \A i \in 1..Len(b) : q[Len(a) + i] = b[i]
  BY <1>2, <1>3, <1>4
<1>6. \A k \in 1..Len(q) :
        k \in 1..Len(a) \/ (k - Len(a) \in 1..Len(b) /\ k = Len(a) + (k - Len(a)))
  BY <1>5
<1>7. \A k \in 1..Len(q) :
        IF k \in 1..Len(a) THEN q[k] = a[k] /\ q[k].cmd = "WILL"
                           ELSE q[k] = b[k - Len(a)] /\ q[k].cmd = "DO"
  <2> SUFFICES ASSUME NEW k \in 1..Len(q)
               PROVE  IF k \in 1..Len(a) THEN q[k] = a[k] /\ q[k].cmd = "WILL"
                                         ELSE q[k] = b[k - Len(a)] /\ q[k].cmd = "DO"
    OBVIOUS
  <2>1. CASE k \in 1..Len(a)
    BY <1>2, <1>5, <2>1
  <2>2. CASE k \notin 1..Len(a)
    <3>1. k - Len(a) \in 1..Len(b) /\ k = Len(a) + (k - Len(a))
      BY <1>6, <2>2
    <3>2. q[k] = b[k - Len(a)]
      BY <1>5, <3>1
    <3>3. b[k - Len(a)].cmd = "DO"
      BY <1>3, <3>1
    <3> QED
      BY <2>2, <3>2, <3>3
  <2> QED
    BY <2>1, <2>2
<1>8. ASSUME NEW o \in TelnetOptions
      PROVE  IF o \in InitialLocal THEN Says(q, {"WILL", "WONT"}, o, "WILL")
                                   ELSE Silent(q, {"WILL", "WONT"}, o)
  <2>1. CASE o \in InitialLocal
    <3>1. PICK i \in 1..Len(a) : \A k \in 1..Len(a) : a[k].option = o <=> k = i
      BY <1>2, <2>1
    <3>2. i \in 1..Len(q) /\ q[i].cmd = "WILL"
      BY <1>5, <1>7
    <3>3. \A k \in 1..Len(q) : About(q[k], {"WILL", "WONT"}, o) <=> k = i
      BY <1>7, <3>1, <3>2 DEF About
    <3> QED
      BY <2>1, <3>2, <3>3 DEF Says
  <2>2. CASE o \notin InitialLocal
    BY <1>2, <1>7, <2>2 DEF Silent, About
  <2> QED
    BY <2>1, <2>2
<1>9. ASSUME NEW o \in TelnetOptions
      PROVE  IF o \in InitialRemote THEN Says(q, {"DO", "DONT"}, o, "DO")
                                    ELSE Silent(q, {"DO", "DONT"}, o)
  <2>1. CASE o \in InitialRemote
    <3>1. PICK i \in 1..Len(b) : \A k \in 1..Len(b) : b[k].option = o <=> k = i
      BY <1>3, <2>1
    <3>2. Len(a) + i \in 1..Len(q) /\ Len(a) + i \notin 1..Len(a)
      BY <1>5
    <3>3. q[Len(a) + i].cmd = "DO"
      BY <1>7, <3>2
    <3>4. \A k \in 1..Len(q) : About(q[k], {"DO", "DONT"}, o) <=> k = Len(a) + i
      <4> SUFFICES ASSUME NEW k \in 1..Len(q)
                   PROVE  About(q[k], {"DO", "DONT"}, o) <=> k = Len(a) + i
        OBVIOUS
      <4>1. CASE k \in 1..Len(a)
        BY <1>7, <3>2, <4>1 DEF About
      <4>2. CASE k \notin 1..Len(a)
        <5>1. k - Len(a) \in 1..Len(b) /\ (k = Len(a) + i <=> k - Len(a) = i)
          BY <1>5, <1>6, <4>2
        <5>2. q[k] = b[k - Len(a)] /\ q[k].cmd = "DO"
          BY <1>7, <4>2
        <5> QED
          BY <3>1, <5>1, <5>2 DEF About
      <4> QED
        BY <4>1, <4>2
    <3> QED
      BY <2>1, <3>2, <3>3, <3>4 DEF Says
  <2>2. CASE o \notin InitialRemote
    <3>1. \A k \in 1..Len(q) : ~ About(q[k], {"DO", "DONT"}, o)
      BY <1>3, <1>6, <1>7, <2>2 DEF About
    <3> QED
      BY <2>2, <3>1 DEF Silent
  <2> QED
    BY <2>1, <2>2
<1>10. q \in Seq(ToServer)
  BY <1>5 DEF ToServer
<1>11. \A k \in 1..Len(q) : q[k].cmd # "SB"
  BY <1>7
<1> QED
  BY <1>8, <1>9, <1>10, <1>11, Zenon DEF q

LEMMA TelnetInvHolds == TelnetSpec => []TelnetInv
<1>1. TelnetInit => TelnetInv
  <2> SUFFICES ASSUME TelnetInit
               PROVE  TelnetInv
    OBVIOUS
  <2>1. PICK g \in WindowSizes :
          client = [local |-> WantInitially(InitialLocal),
                    remote |-> WantInitially(InitialRemote), geometry |-> g]
    BY DEF TelnetInit
  <2>2. /\ client.local = [o \in TelnetOptions |-> IF o \in InitialLocal THEN "WantYes" ELSE "No"]
        /\ client.remote = [o \in TelnetOptions |-> IF o \in InitialRemote THEN "WantYes" ELSE "No"]
        /\ client \in Clients
    BY <2>1 DEF WantInitially, Clients
  <2>3. /\ server = [us |-> [o \in TelnetOptions |-> "No"], him |-> [o \in TelnetOptions |-> "No"],
                     size |-> 0]
        /\ toServer = InitialCommands /\ toClient = <<>> /\ initiatives = 0 /\ resizes = 0
    BY DEF TelnetInit
  <2>4. server \in Servers /\ \A o \in TelnetOptions : server.us[o] = "No" /\ server.him[o] = "No"
    BY <2>3 DEF Servers, Views
  <2>5. TelnetTypes
    BY <2>2, <2>3, <2>4, InitialQueue, TelnetAssumption DEF TelnetTypes
  <2>6. SizeKnown(client, server, toServer)
    BY <2>2, TelnetAssumption DEF SizeKnown, InitialLocal
  <2>7. \A o, cs : Silent(toClient, cs, o)
    BY <2>3 DEF Silent
  <2>8. ASSUME NEW o \in TelnetOptions
        PROVE  /\ Negotiated(client.local[o], server.him[o], toServer, toClient, o,
                             "WILL", "WONT", "DO", "DONT", SupportsLocal(o))
               /\ Negotiated(client.remote[o], server.us[o], toServer, toClient, o,
                             "DO", "DONT", "WILL", "WONT", SupportsRemote(o))
    <3>1. /\ o \in InitialLocal => SupportsLocal(o)
          /\ o \in InitialRemote => SupportsRemote(o)
      BY DEF InitialLocal, InitialRemote, SupportsLocal, SupportsRemote, LocalSupported,
             RemoteSupported
    <3>2. /\ IF o \in InitialLocal
             THEN client.local[o] = "WantYes" /\ Says(toServer, {"WILL", "WONT"}, o, "WILL")
             ELSE client.local[o] = "No" /\ Silent(toServer, {"WILL", "WONT"}, o)
          /\ IF o \in InitialRemote
             THEN client.remote[o] = "WantYes" /\ Says(toServer, {"DO", "DONT"}, o, "DO")
             ELSE client.remote[o] = "No" /\ Silent(toServer, {"DO", "DONT"}, o)
      BY <2>2, <2>3, InitialQueue
    <3>3. server.us[o] = "No" /\ server.him[o] = "No"
      BY <2>4
    <3>4. Negotiated(client.local[o], server.him[o], toServer, toClient, o,
                     "WILL", "WONT", "DO", "DONT", SupportsLocal(o))
      BY <2>7, <3>1, <3>2, <3>3, Zenon DEF Negotiated, Requesting, Quiet
    <3>5. Negotiated(client.remote[o], server.us[o], toServer, toClient, o,
                     "DO", "DONT", "WILL", "WONT", SupportsRemote(o))
      BY <2>7, <3>1, <3>2, <3>3, Zenon DEF Negotiated, Requesting, Quiet
    <3> QED
      BY <3>4, <3>5
  <2> QED
    BY <2>5, <2>6, <2>8, Zenon DEF TelnetInv, Sides
<1>2. TelnetInv /\ [TelnetNext]_telnetVars => TelnetInv'
  <2> SUFFICES ASSUME TelnetInv, [TelnetNext]_telnetVars
               PROVE  TelnetInv'
    OBVIOUS
  <2>1. CASE ClientReceives
    BY <2>1, ClientReceivesKeeps
  <2>2. CASE ServerReceives
    BY <2>2, ServerReceivesKeeps
  <2>3. CASE ByteArrives
    <3>1. UNCHANGED <<client, server, toServer, toClient, initiatives, resizes>>
      BY <2>3 DEF ByteArrives
    <3> QED
      BY <3>1 DEF TelnetInv, TelnetTypes, Sides, SizeKnown
  <2>4. CASE \E g \in WindowSizes : ClientResizes(g)
    BY <2>4, ClientResizesKeeps
  <2>5. CASE \E o \in TelnetOptions : ServerAsks(o)
    BY <2>5, ServerAsksKeeps
  <2>6. CASE UNCHANGED telnetVars
    <3>1. UNCHANGED <<client, server, toServer, toClient, initiatives, resizes>>
      BY <2>6 DEF telnetVars
    <3> QED
      BY <3>1 DEF TelnetInv, TelnetTypes, Sides, SizeKnown
  <2> QED
    BY <2>1, <2>2, <2>3, <2>4, <2>5, <2>6 DEF TelnetNext
<1> QED
  BY <1>1, <1>2, PTL DEF TelnetSpec

\* The client's states of the options, its geometry and what the server knows of it are of
\* their types, for any options and sizes.
THEOREM TelnetTyped == TelnetSpec => []TelnetTypeOK
<1>1. TelnetInv => TelnetTypeOK
  BY DEF TelnetInv, TelnetTypes, TelnetTypeOK, Clients, Servers
<1> QED
  BY <1>1, TelnetInvHolds, PTL

\* When nothing is on its way any more, client and server agree on every option, and a server
\* that has the window size option on knows the size the terminal has now: for any options,
\* however often the server changes its mind and the window is resized.
THEOREM NegotiationAgrees == TelnetSpec => []SettledAgrees
<1>1. TelnetInv => SettledAgrees
  <2> SUFFICES ASSUME TelnetInv, toServer = <<>>, toClient = <<>>
               PROVE  /\ \A o \in TelnetOptions :
                           /\ (client.local[o] = "Yes") = (server.him[o] = "Yes")
                           /\ (client.remote[o] = "Yes") = (server.us[o] = "Yes")
                      /\ server.him["naws"] = "Yes" => server.size = client.geometry
    BY DEF SettledAgrees
  <2>1. /\ Len(toServer) = 0 /\ Len(toClient) = 0
    OBVIOUS
  <2>2. \A q, cs, o, c, d : Len(q) = 0 => ~ Says(q, cs, o, c) /\ ~ SaysBoth(q, cs, o, c, d)
    BY DEF Says, SaysBoth
  <2>3. ASSUME NEW o \in TelnetOptions
        PROVE  /\ \/ Quiet(client.local[o], server.him[o])
                  \/ Agreed(client.local[o], server.him[o])
               /\ \/ Quiet(client.remote[o], server.us[o])
                  \/ Agreed(client.remote[o], server.us[o])
    <3>1. /\ Negotiated(client.local[o], server.him[o], toServer, toClient, o,
                        "WILL", "WONT", "DO", "DONT", SupportsLocal(o))
          /\ Negotiated(client.remote[o], server.us[o], toServer, toClient, o,
                        "DO", "DONT", "WILL", "WONT", SupportsRemote(o))
      BY DEF TelnetInv, Sides
    <3>2. \A cs, p, c, d :
            /\ ~ Says(toServer, cs, p, c) /\ ~ SaysBoth(toServer, cs, p, c, d)
            /\ ~ Says(toClient, cs, p, c) /\ ~ SaysBoth(toClient, cs, p, c, d)
      BY <2>1, <2>2, Zenon
    <3> QED
      BY <3>1, <3>2, Zenon DEF Negotiated, Requesting, Awaiting
  <2>4. \A o \in TelnetOptions :
          /\ (client.local[o] = "Yes") = (server.him[o] = "Yes")
          /\ (client.remote[o] = "Yes") = (server.us[o] = "Yes")
    BY <2>3 DEF Quiet, Agreed
  <2>5. ASSUME server.him["naws"] = "Yes" PROVE server.size = client.geometry
    <3>1. client.local["naws"] = "Yes"
      BY <2>4, <2>5, TelnetAssumption
    <3> QED
      BY <2>1, <3>1 DEF TelnetInv, SizeKnown
  <2> QED
    BY <2>4, <2>5
<1> QED
  BY <1>1, TelnetInvHolds, PTL

-----------------------------------------------------------------------------
(* The byte layer of Telnet.  What a stream has left is what its current   *)
(* item has left and the items after it.                                   *)

Symbols == {"x", "LF", "CR", "NUL", "IAC", "WILL", "opt", "NOP", "SB", "SEND", "SE"}
SeenCommands == {"negotiation", <<"SEND">>, <<"IAC">>}
Parsers ==
  [state : {"Data", "Iac", "Negotiation", "Sub"}, binary : BOOLEAN, option : BOOLEAN,
   data : Seq(Symbols), escaped : BOOLEAN, pendingCr : BOOLEAN,
   output : Seq(Symbols), commands : Seq(SeenCommands)]
ByteLayers ==
  [todo : Seq(Symbols), parser : Parsers, text : Seq(Symbols), seen : Seq(SeenCommands)]

\* What is left of s after j of its elements.
Skip(s, j) == SubSeq(s, j + 1, Len(s))

LEMMA SkipStep ==
  ASSUME NEW S, NEW s \in Seq(S), NEW j \in 0 .. Len(s)
  PROVE  /\ Skip(s, j) \in Seq(S)
         /\ Skip(s, 0) = s
         /\ Skip(s, j) = <<>> <=> j = Len(s)
         /\ j < Len(s) => Head(Skip(s, j)) = s[j + 1] /\ Tail(Skip(s, j)) = Skip(s, j + 1)
<1>1. Skip(s, 0) = s
  BY SubSeqFull DEF Skip
<1>2. Skip(s, j) \in Seq(S) /\ Len(Skip(s, j)) = Len(s) - j
  BY DEF Skip
<1>3. ASSUME j < Len(s)
      PROVE  Head(Skip(s, j)) = s[j + 1] /\ Tail(Skip(s, j)) = Skip(s, j + 1)
  <2>1. j + 1 \in 1 .. Len(s) /\ Len(s) \in j + 1 .. Len(s)
    BY <1>3
  <2> QED
    BY <2>1, HeadTailOfSubSeq DEF Skip
<1> QED
  BY <1>1, <1>2, <1>3

LEMMA SkipConcat ==
  ASSUME NEW S, NEW w \in Seq(S), NEW r \in Seq(S)
  PROVE  /\ w \o r \in Seq(S) /\ Len(w \o r) = Len(w) + Len(r)
         /\ Skip(w \o r, Len(w)) = r
         /\ \A j \in 1 .. Len(w) : (w \o r)[j] = w[j]
<1>1. /\ w \o r \in Seq(S) /\ Len(w \o r) = Len(w) + Len(r)
      /\ \A j \in 1 .. Len(w) : (w \o r)[j] = w[j]
  OBVIOUS
<1>2. Skip(w \o r, Len(w)) \in Seq(S) /\ Len(Skip(w \o r, Len(w))) = Len(r)
  BY <1>1 DEF Skip
<1>3. \A j \in 1 .. Len(r) : Skip(w \o r, Len(w))[j] = r[j]
  BY <1>1 DEF Skip
<1> QED
  BY <1>1, <1>2, <1>3, SeqEqual

-----------------------------------------------------------------------------
(* The streams of a server.                                                *)

AtByte(p, binary, state, cr, out, cmds) ==
  /\ p \in Parsers
  /\ p.state = state /\ p.binary = binary /\ p.pendingCr = cr
  /\ p.output = out /\ p.commands = cmds
Settled(p, binary, out, cmds) == AtByte(p, binary, "Data", FALSE, out, cmds)
InSub(p, binary, out, cmds, option, data, escaped) ==
  /\ AtByte(p, binary, "Sub", FALSE, out, cmds)
  /\ p.option = option /\ p.data = data /\ p.escaped = escaped

\* The parser after j bytes of item i, having found the text out and the commands cmds before.
Within(p, i, j, binary, out, cmds) ==
  /\ j = 0 => Settled(p, binary, out, cmds)
  /\ j > 0 /\ i[1] = "CR" => AtByte(p, binary, "Data", ~binary, Append(out, "CR"), cmds)
  /\ j = 1 /\ i[1] = "IAC" => AtByte(p, binary, "Iac", FALSE, out, cmds)
  /\ j = 2 /\ i[2] = "WILL" => AtByte(p, binary, "Negotiation", FALSE, out, cmds)
  /\ i[2] = "SB" =>
       /\ j = 2 => InSub(p, binary, out, cmds, FALSE, <<>>, FALSE)
       /\ j = 3 => InSub(p, binary, out, cmds, TRUE, <<>>, FALSE)
       /\ j = 4 /\ i[4] = "SEND" => InSub(p, binary, out, cmds, TRUE, <<"SEND">>, FALSE)
       /\ j = 5 /\ i[4] = "SEND" => InSub(p, binary, out, cmds, TRUE, <<"SEND">>, TRUE)
       /\ j = 4 /\ i[4] = "IAC" => InSub(p, binary, out, cmds, TRUE, <<>>, TRUE)
       /\ j = 5 /\ i[4] = "IAC" => InSub(p, binary, out, cmds, TRUE, <<"IAC">>, FALSE)
       /\ j = 6 => InSub(p, binary, out, cmds, TRUE, <<"IAC">>, TRUE)

ReadsItem(i, binary, out, cmds) ==
  /\ \A j \in 0 .. Len(i) - 2, p \in Parsers :
       Within(p, i, j, binary, out, cmds) =>
         /\ Within(ReceiveByte(p, i[j + 1]), i, j + 1, binary, out, cmds)
         /\ ReceiveByte(p, i[j + 1]) \in Parsers
  /\ \A p \in Parsers :
       Within(p, i, Len(i) - 1, binary, out, cmds) =>
         Settled(ReceiveByte(p, i[Len(i)]), binary, out \o Text(i, binary), cmds \o Meaning(i))

LEMMA TextIs ==
  ASSUME NEW binary \in BOOLEAN
  PROVE  /\ Text(<<"x">>, binary) = <<"x">> /\ Text(<<"IAC", "IAC">>, binary) = <<"IAC">>
         /\ Text(<<"LF">>, binary) = IF binary THEN <<"LF">> ELSE <<"CR", "LF">>
         /\ Text(<<"CR", "LF">>, binary) = <<"CR", "LF">>
         /\ Text(<<"CR", "NUL">>, binary) = IF binary THEN <<"CR", "NUL">> ELSE <<"CR">>
         /\ Text(<<"IAC", "WILL", "opt">>, binary) = <<>>
         /\ Text(<<"IAC", "NOP">>, binary) = <<>>
         /\ Text(<<"IAC", "SB", "opt", "SEND", "IAC", "SE">>, binary) = <<>>
         /\ Text(<<"IAC", "SB", "opt", "IAC", "IAC", "IAC", "SE">>, binary) = <<>>
BY DEF Text

LEMMA MeaningIs ==
  /\ Meaning(<<"x">>) = <<>> /\ Meaning(<<"IAC", "IAC">>) = <<>>
  /\ Meaning(<<"LF">>) = <<>> /\ Meaning(<<"CR", "LF">>) = <<>> /\ Meaning(<<"CR", "NUL">>) = <<>>
  /\ Meaning(<<"IAC", "WILL", "opt">>) = <<"negotiation">>
  /\ Meaning(<<"IAC", "NOP">>) = <<>>
  /\ Meaning(<<"IAC", "SB", "opt", "SEND", "IAC", "SE">>) = <<<<"SEND">>>>
  /\ Meaning(<<"IAC", "SB", "opt", "IAC", "IAC", "IAC", "SE">>) = <<<<"IAC">>>>
BY DEF Meaning

LEMMA PutTogether ==
  ASSUME NEW S, NEW s \in Seq(S), NEW a \in S, NEW b \in S
  PROVE  /\ Append(s, a) \in Seq(S) /\ s \o <<a>> = Append(s, a)
         /\ Append(Append(s, a), b) = s \o <<a, b>>
         /\ s \o <<>> = s /\ s \o <<a, b>> \in Seq(S)
<1>1. Append(s, a) \in Seq(S) /\ s \o <<a>> = Append(s, a) /\ s \o <<>> = s
      /\ s \o <<a, b>> \in Seq(S)
  OBVIOUS
<1>2. Append(Append(s, a), b) \in Seq(S) /\ Len(Append(Append(s, a), b)) = Len(s) + 2
      /\ Len(s \o <<a, b>>) = Len(s) + 2
  OBVIOUS
<1>3. \A i \in 1 .. Len(s) + 2 : Append(Append(s, a), b)[i] = (s \o <<a, b>>)[i]
  OBVIOUS
<1>4. Append(Append(s, a), b) = s \o <<a, b>>
  BY <1>1, <1>2, <1>3, SeqEqual
<1> QED
  BY <1>1, <1>4

\* What the parser does with a byte, by the state it is in.
LEMMA OnData ==
  ASSUME NEW p, NEW binary \in BOOLEAN, NEW cr \in BOOLEAN, NEW out, NEW cmds,
         AtByte(p, binary, "Data", cr, out, cmds)
  PROVE  /\ AtByte(ReceiveByte(p, "IAC"), binary, "Iac", cr, out, cmds)
         /\ \A c \in {"x", "LF", "CR", "NUL"} :
              /\ binary => AtByte(ReceiveByte(p, c), TRUE, "Data", FALSE, Append(out, c), cmds)
              /\ ~ binary /\ cr /\ c = "NUL" =>
                   AtByte(ReceiveByte(p, c), FALSE, "Data", FALSE, out, cmds)
              /\ ~ binary /\ ~ (cr /\ c = "NUL") =>
                   AtByte(ReceiveByte(p, c), FALSE, "Data", c = "CR",
                      out \o (IF c = "LF" /\ ~ cr THEN <<"CR", "LF">> ELSE <<c>>), cmds)
<1> USE DEF AtByte, Parsers
<1>0. out \in Seq(Symbols)
  OBVIOUS
<1>1. ReceiveByte(p, "IAC") = [p EXCEPT !.state = "Iac"]
  BY DEF ReceiveByte
<1>2. ASSUME NEW c \in {"x", "LF", "CR", "NUL"}
      PROVE  /\ ReceiveByte(p, c) = DataByte(p, c)
             /\ Append(out, c) \in Seq(Symbols)
             /\ out \o (IF c = "LF" /\ ~ cr THEN <<"CR", "LF">> ELSE <<c>>) \in Seq(Symbols)
  <2>1. ReceiveByte(p, c) = DataByte(p, c)
    BY DEF ReceiveByte
  <2>2. c \in Symbols /\ <<"CR", "LF">> \in Seq(Symbols) /\ <<c>> \in Seq(Symbols)
    BY DEF Symbols
  <2> QED
    BY <2>1, <2>2, <1>0
<1>3. ASSUME NEW c \in {"x", "LF", "CR", "NUL"}, binary
      PROVE  AtByte(ReceiveByte(p, c), TRUE, "Data", FALSE, Append(out, c), cmds)
  BY <1>2, <1>3 DEF DataByte
<1>4. ASSUME NEW c \in {"x", "LF", "CR", "NUL"}, ~ binary, cr /\ c = "NUL"
      PROVE  AtByte(ReceiveByte(p, c), FALSE, "Data", FALSE, out, cmds)
  <2>1. ReceiveByte(p, c) = [p EXCEPT !.pendingCr = FALSE]
    BY <1>2, <1>4 DEF DataByte
  <2> QED
    BY <1>4, <2>1
<1>5. ASSUME NEW c \in {"x", "LF", "CR", "NUL"}, ~ binary, ~ (cr /\ c = "NUL")
      PROVE  AtByte(ReceiveByte(p, c), FALSE, "Data", c = "CR",
                out \o (IF c = "LF" /\ ~ cr THEN <<"CR", "LF">> ELSE <<c>>), cmds)
  <2>1. NeedsReturn(p, c) <=> c = "LF" /\ ~ cr
    BY DEF NeedsReturn, LoneLineFeed
  <2>2. DataByte(p, c) = [p EXCEPT
             !.output = @ \o (IF NeedsReturn(p, c) THEN <<"CR", c>> ELSE <<c>>),
             !.pendingCr = (c = "CR")]
    BY <1>5 DEF DataByte
  <2> DEFINE more == IF c = "LF" /\ ~ cr THEN <<"CR", "LF">> ELSE <<c>>
             last == c = "CR"
  <2>3. (IF NeedsReturn(p, c) THEN <<"CR", c>> ELSE <<c>>) = more
    BY <2>1
  <2>4. out \o more \in Seq(Symbols) /\ last \in BOOLEAN
    BY <1>2
  <2>5. ReceiveByte(p, c) = [p EXCEPT !.output = out \o more, !.pendingCr = last]
    BY <1>2, <2>2, <2>3
  <2> HIDE DEF more, last
  <2>6. AtByte(ReceiveByte(p, c), FALSE, "Data", last, out \o more, cmds)
    BY <1>5, <2>4, <2>5
  <2> QED
    BY <2>6 DEF more, last
<1> QED
  BY <1>0, <1>1, <1>3, <1>4, <1>5

LEMMA OnIac ==
  ASSUME NEW p, NEW binary \in BOOLEAN, NEW cr \in BOOLEAN, NEW out, NEW cmds,
         AtByte(p, binary, "Iac", cr, out, cmds)
  PROVE  /\ AtByte(ReceiveByte(p, "IAC"), binary, "Data", cr, Append(out, "IAC"), cmds)
         /\ AtByte(ReceiveByte(p, "WILL"), binary, "Negotiation", cr, out, cmds)
         /\ AtByte(ReceiveByte(p, "NOP"), binary, "Data", cr, out, cmds)
         /\ cr = FALSE => InSub(ReceiveByte(p, "SB"), binary, out, cmds, FALSE, <<>>, FALSE)
<1> USE DEF AtByte, Parsers
<1>0. Append(out, "IAC") \in Seq(Symbols) /\ <<>> \in Seq(Symbols)
  BY DEF Symbols
<1>1. ReceiveByte(p, "IAC") = [p EXCEPT !.state = "Data", !.output = Append(@, "IAC")]
  BY DEF ReceiveByte
<1>2. ReceiveByte(p, "WILL") = [p EXCEPT !.state = "Negotiation"]
  BY DEF ReceiveByte
<1>3. ReceiveByte(p, "NOP") = [p EXCEPT !.state = "Data"]
  BY DEF ReceiveByte
<1>4. ReceiveByte(p, "SB") =
        [p EXCEPT !.state = "Sub", !.option = FALSE, !.data = <<>>, !.escaped = FALSE]
  BY DEF ReceiveByte
<1> QED
  BY <1>0, <1>1, <1>2, <1>3, <1>4 DEF InSub

LEMMA OnNegotiation ==
  ASSUME NEW p, NEW binary \in BOOLEAN, NEW cr \in BOOLEAN, NEW out, NEW cmds,
         AtByte(p, binary, "Negotiation", cr, out, cmds)
  PROVE  AtByte(ReceiveByte(p, "opt"), binary, "Data", cr, out, Append(cmds, "negotiation"))
<1> USE DEF AtByte, Parsers
<1>1. ReceiveByte(p, "opt") =
        [p EXCEPT !.state = "Data", !.commands = Append(@, "negotiation")]
  BY DEF ReceiveByte
<1>2. "negotiation" \in SeenCommands
  BY DEF SeenCommands
<1>3. Append(cmds, "negotiation") \in Seq(SeenCommands)
  BY <1>2
<1> QED
  BY <1>1, <1>3

LEMMA OnSub ==
  ASSUME NEW p, NEW binary \in BOOLEAN, NEW out, NEW cmds, NEW option \in BOOLEAN,
         NEW data, NEW escaped \in BOOLEAN,
         InSub(p, binary, out, cmds, option, data, escaped)
  PROVE  /\ ~ option =>
              InSub(ReceiveByte(p, "opt"), binary, out, cmds, TRUE, data, escaped)
         /\ option /\ escaped /\ data \in SeenCommands =>
              Settled(ReceiveByte(p, "SE"), binary, out, Append(cmds, data))
         /\ option /\ escaped =>
              InSub(ReceiveByte(p, "IAC"), binary, out, cmds, TRUE, Append(data, "IAC"), FALSE)
         /\ option /\ ~ escaped =>
              /\ InSub(ReceiveByte(p, "IAC"), binary, out, cmds, TRUE, data, TRUE)
              /\ InSub(ReceiveByte(p, "SEND"), binary, out, cmds, TRUE, Append(data, "SEND"), FALSE)
<1> USE DEF AtByte, InSub, Settled, Parsers
<1>0. data \in Seq(Symbols) /\ Append(data, "IAC") \in Seq(Symbols)
      /\ Append(data, "SEND") \in Seq(Symbols)
  BY DEF Symbols
<1>1. ASSUME data \in SeenCommands PROVE Append(cmds, data) \in Seq(SeenCommands)
  BY <1>1
<1>2. \A b : ReceiveByte(p, b) = Subnegotiation(p, b)
  BY DEF ReceiveByte
<1>3. ASSUME ~ option PROVE Subnegotiation(p, "opt") = [p EXCEPT !.option = TRUE]
  BY <1>3 DEF Subnegotiation
<1>4. ASSUME option, escaped
      PROVE  /\ Subnegotiation(p, "SE") = [p EXCEPT !.state = "Data", !.commands = Append(@, p.data)]
             /\ Subnegotiation(p, "IAC") = [p EXCEPT !.escaped = FALSE, !.data = Append(@, "IAC")]
  BY <1>4 DEF Subnegotiation
<1>5. ASSUME option, ~ escaped
      PROVE  /\ Subnegotiation(p, "IAC") = [p EXCEPT !.escaped = TRUE]
             /\ Subnegotiation(p, "SEND") = [p EXCEPT !.data = Append(@, "SEND")]
  BY <1>5 DEF Subnegotiation
<1>6. ASSUME ~ option
      PROVE  InSub(ReceiveByte(p, "opt"), binary, out, cmds, TRUE, data, escaped)
  <2>1. ReceiveByte(p, "opt") = [p EXCEPT !.option = TRUE]
    BY <1>2, <1>3, <1>6
  <2> QED
    BY <2>1
<1>7. ASSUME option, escaped, data \in SeenCommands
      PROVE  Settled(ReceiveByte(p, "SE"), binary, out, Append(cmds, data))
  <2> DEFINE more == Append(cmds, data)
  <2>1. ReceiveByte(p, "SE") = [p EXCEPT !.state = "Data", !.commands = more]
    BY <1>2, <1>4, <1>7
  <2>2. more \in Seq(SeenCommands)
    BY <1>1, <1>7
  <2> HIDE DEF more
  <2>3. Settled(ReceiveByte(p, "SE"), binary, out, more)
    BY <2>1, <2>2
  <2> QED
    BY <2>3 DEF more
<1>8. ASSUME option, escaped
      PROVE  InSub(ReceiveByte(p, "IAC"), binary, out, cmds, TRUE, Append(data, "IAC"), FALSE)
  <2> DEFINE more == Append(data, "IAC")
  <2>1. ReceiveByte(p, "IAC") = [p EXCEPT !.escaped = FALSE, !.data = more]
    BY <1>2, <1>4, <1>8
  <2>2. more \in Seq(Symbols)
    BY <1>0
  <2> HIDE DEF more
  <2>3. InSub(ReceiveByte(p, "IAC"), binary, out, cmds, TRUE, more, FALSE)
    BY <1>8, <2>1, <2>2
  <2> QED
    BY <2>3 DEF more
<1>9. ASSUME option, ~ escaped
      PROVE  /\ InSub(ReceiveByte(p, "IAC"), binary, out, cmds, TRUE, data, TRUE)
             /\ InSub(ReceiveByte(p, "SEND"), binary, out, cmds, TRUE, Append(data, "SEND"), FALSE)
  <2> DEFINE more == Append(data, "SEND")
  <2>1. ReceiveByte(p, "IAC") = [p EXCEPT !.escaped = TRUE]
    BY <1>2, <1>5, <1>9
  <2>2. ReceiveByte(p, "SEND") = [p EXCEPT !.data = more]
    BY <1>2, <1>5, <1>9
  <2>3. more \in Seq(Symbols)
    BY <1>0
  <2> HIDE DEF more
  <2>4. InSub(ReceiveByte(p, "SEND"), binary, out, cmds, TRUE, more, FALSE)
    BY <1>9, <2>2, <2>3
  <2>5. InSub(ReceiveByte(p, "IAC"), binary, out, cmds, TRUE, data, TRUE)
    BY <1>9, <2>1
  <2> QED
    BY <2>4, <2>5 DEF more
<1> QED
  BY <1>6, <1>7, <1>8, <1>9

\* Outside binary mode.
LEMMA OnText ==
  ASSUME NEW p, NEW cr \in BOOLEAN, NEW out, NEW cmds, AtByte(p, FALSE, "Data", cr, out, cmds)
  PROVE  /\ AtByte(ReceiveByte(p, "x"), FALSE, "Data", FALSE, out \o <<"x">>, cmds)
         /\ AtByte(ReceiveByte(p, "CR"), FALSE, "Data", TRUE, out \o <<"CR">>, cmds)
         /\ cr = TRUE =>
              /\ AtByte(ReceiveByte(p, "LF"), FALSE, "Data", FALSE, out \o <<"LF">>, cmds)
              /\ AtByte(ReceiveByte(p, "NUL"), FALSE, "Data", FALSE, out, cmds)
         /\ cr = FALSE =>
              AtByte(ReceiveByte(p, "LF"), FALSE, "Data", FALSE, out \o <<"CR", "LF">>, cmds)
<1> DEFINE P(c) == /\ cr /\ c = "NUL" => AtByte(ReceiveByte(p, c), FALSE, "Data", FALSE, out, cmds)
                   /\ ~ (cr /\ c = "NUL") =>
                        AtByte(ReceiveByte(p, c), FALSE, "Data", c = "CR",
                           out \o (IF c = "LF" /\ ~ cr THEN <<"CR", "LF">> ELSE <<c>>), cmds)
<1>1. P("x") /\ P("CR") /\ P("LF") /\ P("NUL")
  BY OnData, Zenon
<1>2. AtByte(ReceiveByte(p, "x"), FALSE, "Data", FALSE, out \o <<"x">>, cmds)
  BY <1>1
<1>3. AtByte(ReceiveByte(p, "CR"), FALSE, "Data", TRUE, out \o <<"CR">>, cmds)
  BY <1>1
<1>4. cr = TRUE => AtByte(ReceiveByte(p, "LF"), FALSE, "Data", FALSE, out \o <<"LF">>, cmds)
  BY <1>1
<1>5. cr = TRUE => AtByte(ReceiveByte(p, "NUL"), FALSE, "Data", FALSE, out, cmds)
  BY <1>1
<1>6. cr = FALSE => AtByte(ReceiveByte(p, "LF"), FALSE, "Data", FALSE, out \o <<"CR", "LF">>, cmds)
  BY <1>1
<1> QED
  BY <1>2, <1>3, <1>4, <1>5, <1>6

LEMMA Joined ==
  ASSUME NEW out \in Seq(Symbols), NEW cmds \in Seq(SeenCommands)
  PROVE  /\ out \o <<>> = out /\ cmds \o <<>> = cmds
         /\ out \o <<"x">> = Append(out, "x") /\ out \o <<"IAC">> = Append(out, "IAC")
         /\ out \o <<"LF">> = Append(out, "LF") /\ out \o <<"CR">> = Append(out, "CR")
         /\ Append(Append(out, "CR"), "LF") = out \o <<"CR", "LF">>
         /\ Append(Append(out, "CR"), "NUL") = out \o <<"CR", "NUL">>
         /\ Append(out, "CR") \o <<"LF">> = out \o <<"CR", "LF">>
         /\ cmds \o <<"negotiation">> = Append(cmds, "negotiation")
         /\ cmds \o <<<<"SEND">>>> = Append(cmds, <<"SEND">>)
         /\ cmds \o <<<<"IAC">>>> = Append(cmds, <<"IAC">>)
         /\ Append(<<>>, "SEND") = <<"SEND">> /\ Append(<<>>, "IAC") = <<"IAC">>
<1>1. /\ "x" \in Symbols /\ "IAC" \in Symbols /\ "LF" \in Symbols
      /\ "CR" \in Symbols /\ "NUL" \in Symbols
      /\ "negotiation" \in SeenCommands /\ <<"SEND">> \in SeenCommands /\ <<"IAC">> \in SeenCommands
  BY DEF Symbols, SeenCommands
<1>2. \A c \in SeenCommands : cmds \o <<c>> = Append(cmds, c)
  BY PutTogether
<1>3. \A c, d \in Symbols : /\ out \o <<c>> = Append(out, c)
                           /\ Append(Append(out, c), d) = out \o <<c, d>>
  BY PutTogether
<1>4. Append(out, "CR") \in Seq(Symbols)
  BY <1>1
<1>5. Append(out, "CR") \o <<"LF">> = Append(Append(out, "CR"), "LF")
  BY <1>1, <1>4, PutTogether
<1>6. Append(<<>>, "SEND") = <<"SEND">> /\ Append(<<>>, "IAC") = <<"IAC">>
  OBVIOUS
<1>7. out \o <<>> = out /\ cmds \o <<>> = cmds
  OBVIOUS
<1> QED
  BY <1>1, <1>2, <1>3, <1>5, <1>6, <1>7, Zenon

LEMMA ReadsText ==
  ASSUME NEW binary \in BOOLEAN, NEW out \in Seq(Symbols), NEW cmds \in Seq(SeenCommands)
  PROVE  ReadsItem(<<"x">>, binary, out, cmds)
<1> DEFINE i == <<"x">>
<1>1. Len(i) = 1 /\ i[1] = "x"
  OBVIOUS
<1>2. \A q : Within(q, i, 0, binary, out, cmds) <=> Settled(q, binary, out, cmds)
  BY <1>1 DEF Within
<1>3. Text(i, binary) = <<"x">> /\ Meaning(i) = <<>>
  BY TextIs, MeaningIs
<1> HIDE DEF i
<1>4. ASSUME NEW p, Within(p, i, 0, binary, out, cmds)
      PROVE  Settled(ReceiveByte(p, i[1]), binary, out \o Text(i, binary), cmds \o Meaning(i))
  <2>1. Settled(p, binary, out, cmds)
    BY <1>2, <1>4, Zenon
  <2>2. AtByte(p, binary, "Data", FALSE, out, cmds)
    BY <2>1 DEF Settled
  <2>3. CASE binary
    <3>1. AtByte(ReceiveByte(p, "x"), TRUE, "Data", FALSE, Append(out, "x"), cmds)
      BY <2>2, <2>3, OnData
    <3> QED
      BY <1>1, <1>2, <1>3, <2>3, <3>1, Joined DEF Settled
  <2>4. CASE ~ binary
    <3>1. AtByte(ReceiveByte(p, "x"), FALSE, "Data", FALSE, out \o <<"x">>, cmds)
      BY <2>2, <2>4, OnText
    <3> QED
      BY <1>1, <1>2, <1>3, <2>4, <3>1, Joined DEF Settled
  <2> QED
    BY <2>3, <2>4
<1>5. ReadsItem(i, binary, out, cmds)
  BY <1>1, <1>4 DEF ReadsItem
<1> QED
  BY <1>5 DEF i

LEMMA ReadsEscape ==
  ASSUME NEW binary \in BOOLEAN, NEW out \in Seq(Symbols), NEW cmds \in Seq(SeenCommands)
  PROVE  ReadsItem(<<"IAC", "IAC">>, binary, out, cmds)
<1> DEFINE i == <<"IAC", "IAC">>
<1>1. Len(i) = 2 /\ i[1] = "IAC" /\ i[2] = "IAC"
  OBVIOUS
<1>2. \A q : 
        /\ Within(q, i, 0, binary, out, cmds) <=> Settled(q, binary, out, cmds)
        /\ Within(q, i, 1, binary, out, cmds) <=> AtByte(q, binary, "Iac", FALSE, out, cmds)
  BY <1>1 DEF Within
<1>3. Text(i, binary) = <<"IAC">> /\ Meaning(i) = <<>>
  BY TextIs, MeaningIs
<1> HIDE DEF i
<1>4. ASSUME NEW p, Within(p, i, 0, binary, out, cmds)
      PROVE  /\ Within(ReceiveByte(p, i[1]), i, 1, binary, out, cmds)
             /\ ReceiveByte(p, i[1]) \in Parsers
  <2>1. Settled(p, binary, out, cmds)
    BY <1>2, <1>4, Zenon
  <2>2. AtByte(ReceiveByte(p, "IAC"), binary, "Iac", FALSE, out, cmds)
    BY <2>1, OnData DEF Settled
  <2>3. ReceiveByte(p, "IAC") \in Parsers
    BY <2>2 DEF Settled, AtByte, InSub
  <2> QED
    BY <1>1, <1>2, <1>3, <2>2, <2>3, Zenon
<1>5. ASSUME NEW p, Within(p, i, 1, binary, out, cmds)
      PROVE  Settled(ReceiveByte(p, i[2]), binary, out \o Text(i, binary), cmds \o Meaning(i))
  <2>1. AtByte(p, binary, "Iac", FALSE, out, cmds)
    BY <1>2, <1>5, Zenon
  <2>2. Settled(ReceiveByte(p, "IAC"), binary, Append(out, "IAC"), cmds)
    BY <2>1, OnIac DEF Settled
  <2>3. Settled(ReceiveByte(p, "IAC"), binary, out \o <<"IAC">>, cmds \o <<>>)
    BY <2>2, Joined, Zenon
  <2> QED
    BY <1>1, <1>2, <1>3, <2>3, Zenon
<1>6. ReadsItem(i, binary, out, cmds)
  <2>1. ASSUME NEW j \in 0 .. 2 - 2, NEW p \in Parsers, Within(p, i, j, binary, out, cmds)
        PROVE  /\ Within(ReceiveByte(p, i[j + 1]), i, j + 1, binary, out, cmds)
               /\ ReceiveByte(p, i[j + 1]) \in Parsers
    <3>1. j = 0 /\ j + 1 = 1
      OBVIOUS
    <3> QED
      BY <2>1, <3>1, <1>4, Zenon
  <2> QED
    BY <1>1, <1>5, <2>1 DEF ReadsItem
<1> QED
  BY <1>6 DEF i

LEMMA ReadsFeed ==
  ASSUME NEW binary \in BOOLEAN, NEW out \in Seq(Symbols), NEW cmds \in Seq(SeenCommands)
  PROVE  ReadsItem(<<"LF">>, binary, out, cmds)
<1> DEFINE i == <<"LF">>
<1>1. Len(i) = 1 /\ i[1] = "LF"
  OBVIOUS
<1>2. \A q : Within(q, i, 0, binary, out, cmds) <=> Settled(q, binary, out, cmds)
  BY <1>1 DEF Within
<1>3. Text(i, binary) = (IF binary THEN <<"LF">> ELSE <<"CR", "LF">>) /\ Meaning(i) = <<>>
  BY TextIs, MeaningIs
<1> HIDE DEF i
<1>4. ASSUME NEW p, Within(p, i, 0, binary, out, cmds)
      PROVE  Settled(ReceiveByte(p, i[1]), binary, out \o Text(i, binary), cmds \o Meaning(i))
  <2>1. Settled(p, binary, out, cmds)
    BY <1>2, <1>4, Zenon
  <2>2. AtByte(p, binary, "Data", FALSE, out, cmds)
    BY <2>1 DEF Settled
  <2>3. CASE binary
    <3>1. AtByte(ReceiveByte(p, "LF"), TRUE, "Data", FALSE, Append(out, "LF"), cmds)
      BY <2>2, <2>3, OnData
    <3> QED
      BY <1>1, <1>2, <1>3, <2>3, <3>1, Joined DEF Settled
  <2>4. CASE ~ binary
    <3>1. AtByte(ReceiveByte(p, "LF"), FALSE, "Data", FALSE, out \o <<"CR", "LF">>, cmds)
      BY <2>2, <2>4, OnText
    <3> QED
      BY <1>1, <1>2, <1>3, <2>4, <3>1, Joined DEF Settled
  <2> QED
    BY <2>3, <2>4
<1>5. ReadsItem(i, binary, out, cmds)
  BY <1>1, <1>4 DEF ReadsItem
<1> QED
  BY <1>5 DEF i

LEMMA ReadsLine ==
  ASSUME NEW binary \in BOOLEAN, NEW out \in Seq(Symbols), NEW cmds \in Seq(SeenCommands)
  PROVE  ReadsItem(<<"CR", "LF">>, binary, out, cmds)
<1> DEFINE i == <<"CR", "LF">>
<1>1. Len(i) = 2 /\ i[1] = "CR" /\ i[2] = "LF"
  OBVIOUS
<1>2. \A q : 
        /\ Within(q, i, 0, binary, out, cmds) <=> Settled(q, binary, out, cmds)
        /\ Within(q, i, 1, binary, out, cmds) <=> 
             AtByte(q, binary, "Data", ~ binary, Append(out, "CR"), cmds)
  BY <1>1 DEF Within
<1>3. Text(i, binary) = <<"CR", "LF">> /\ Meaning(i) = <<>>
  BY TextIs, MeaningIs
<1> HIDE DEF i
<1>4. ASSUME NEW p, Within(p, i, 0, binary, out, cmds)
      PROVE  /\ Within(ReceiveByte(p, i[1]), i, 1, binary, out, cmds)
             /\ ReceiveByte(p, i[1]) \in Parsers
  <2>1. Settled(p, binary, out, cmds)
    BY <1>2, <1>4, Zenon
  <2>2. AtByte(p, binary, "Data", FALSE, out, cmds)
    BY <2>1 DEF Settled
  <2>3. CASE binary
    <3>1. AtByte(ReceiveByte(p, "CR"), TRUE, "Data", FALSE, Append(out, "CR"), cmds)
      BY <2>2, <2>3, OnData
    <3> QED
      BY <1>1, <1>2, <1>3, <2>3, <3>1, Joined DEF Settled, AtByte
  <2>4. CASE ~ binary
    <3>1. AtByte(ReceiveByte(p, "CR"), FALSE, "Data", TRUE, out \o <<"CR">>, cmds)
      BY <2>2, <2>4, OnText
    <3> QED
      BY <1>1, <1>2, <1>3, <2>4, <3>1, Joined DEF Settled, AtByte
  <2> QED
    BY <2>3, <2>4
<1>5. ASSUME NEW p, Within(p, i, 1, binary, out, cmds)
      PROVE  Settled(ReceiveByte(p, i[2]), binary, out \o Text(i, binary), cmds \o Meaning(i))
  <2>1. AtByte(p, binary, "Data", ~ binary, Append(out, "CR"), cmds)
    BY <1>2, <1>5, Zenon
  <2>2. AtByte(p, binary, "Data", ~ binary, Append(out, "CR"), cmds)
    BY <2>1
  <2>3. CASE binary
    <3>1. AtByte(ReceiveByte(p, "LF"), TRUE, "Data", FALSE, Append(Append(out, "CR"), "LF"), cmds)
      BY <2>2, <2>3, OnData
    <3> QED
      BY <1>1, <1>2, <1>3, <2>3, <3>1, Joined DEF Settled
  <2>4. CASE ~ binary
    <3>1. AtByte(ReceiveByte(p, "LF"), FALSE, "Data", FALSE, Append(out, "CR") \o <<"LF">>, cmds)
      BY <2>2, <2>4, OnText
    <3> QED
      BY <1>1, <1>2, <1>3, <2>4, <3>1, Joined DEF Settled
  <2> QED
    BY <2>3, <2>4
<1>6. ReadsItem(i, binary, out, cmds)
  <2>1. ASSUME NEW j \in 0 .. 2 - 2, NEW p \in Parsers, Within(p, i, j, binary, out, cmds)
        PROVE  /\ Within(ReceiveByte(p, i[j + 1]), i, j + 1, binary, out, cmds)
               /\ ReceiveByte(p, i[j + 1]) \in Parsers
    <3>1. j = 0 /\ j + 1 = 1
      OBVIOUS
    <3> QED
      BY <2>1, <3>1, <1>4, Zenon
  <2> QED
    BY <1>1, <1>5, <2>1 DEF ReadsItem
<1> QED
  BY <1>6 DEF i

LEMMA ReadsReturn ==
  ASSUME NEW binary \in BOOLEAN, NEW out \in Seq(Symbols), NEW cmds \in Seq(SeenCommands)
  PROVE  ReadsItem(<<"CR", "NUL">>, binary, out, cmds)
<1> DEFINE i == <<"CR", "NUL">>
<1>1. Len(i) = 2 /\ i[1] = "CR" /\ i[2] = "NUL"
  OBVIOUS
<1>2. \A q : 
        /\ Within(q, i, 0, binary, out, cmds) <=> Settled(q, binary, out, cmds)
        /\ Within(q, i, 1, binary, out, cmds) <=> 
             AtByte(q, binary, "Data", ~ binary, Append(out, "CR"), cmds)
  BY <1>1 DEF Within
<1>3. Text(i, binary) = (IF binary THEN <<"CR", "NUL">> ELSE <<"CR">>) /\ Meaning(i) = <<>>
  BY TextIs, MeaningIs
<1> HIDE DEF i
<1>4. ASSUME NEW p, Within(p, i, 0, binary, out, cmds)
      PROVE  /\ Within(ReceiveByte(p, i[1]), i, 1, binary, out, cmds)
             /\ ReceiveByte(p, i[1]) \in Parsers
  <2>1. Settled(p, binary, out, cmds)
    BY <1>2, <1>4, Zenon
  <2>2. AtByte(p, binary, "Data", FALSE, out, cmds)
    BY <2>1 DEF Settled
  <2>3. CASE binary
    <3>1. AtByte(ReceiveByte(p, "CR"), TRUE, "Data", FALSE, Append(out, "CR"), cmds)
      BY <2>2, <2>3, OnData
    <3> QED
      BY <1>1, <1>2, <1>3, <2>3, <3>1, Joined DEF Settled, AtByte
  <2>4. CASE ~ binary
    <3>1. AtByte(ReceiveByte(p, "CR"), FALSE, "Data", TRUE, out \o <<"CR">>, cmds)
      BY <2>2, <2>4, OnText
    <3> QED
      BY <1>1, <1>2, <1>3, <2>4, <3>1, Joined DEF Settled, AtByte
  <2> QED
    BY <2>3, <2>4
<1>5. ASSUME NEW p, Within(p, i, 1, binary, out, cmds)
      PROVE  Settled(ReceiveByte(p, i[2]), binary, out \o Text(i, binary), cmds \o Meaning(i))
  <2>1. AtByte(p, binary, "Data", ~ binary, Append(out, "CR"), cmds)
    BY <1>2, <1>5, Zenon
  <2>2. AtByte(p, binary, "Data", ~ binary, Append(out, "CR"), cmds)
    BY <2>1
  <2>3. CASE binary
    <3>1. AtByte(ReceiveByte(p, "NUL"), TRUE, "Data", FALSE, Append(Append(out, "CR"), "NUL"), cmds)
      BY <2>2, <2>3, OnData
    <3> QED
      BY <1>1, <1>2, <1>3, <2>3, <3>1, Joined DEF Settled
  <2>4. CASE ~ binary
    <3>1. AtByte(ReceiveByte(p, "NUL"), FALSE, "Data", FALSE, Append(out, "CR"), cmds)
      BY <2>2, <2>4, OnText
    <3> QED
      BY <1>1, <1>2, <1>3, <2>4, <3>1, Joined DEF Settled
  <2> QED
    BY <2>3, <2>4
<1>6. ReadsItem(i, binary, out, cmds)
  <2>1. ASSUME NEW j \in 0 .. 2 - 2, NEW p \in Parsers, Within(p, i, j, binary, out, cmds)
        PROVE  /\ Within(ReceiveByte(p, i[j + 1]), i, j + 1, binary, out, cmds)
               /\ ReceiveByte(p, i[j + 1]) \in Parsers
    <3>1. j = 0 /\ j + 1 = 1
      OBVIOUS
    <3> QED
      BY <2>1, <3>1, <1>4, Zenon
  <2> QED
    BY <1>1, <1>5, <2>1 DEF ReadsItem
<1> QED
  BY <1>6 DEF i

LEMMA ReadsWill ==
  ASSUME NEW binary \in BOOLEAN, NEW out \in Seq(Symbols), NEW cmds \in Seq(SeenCommands)
  PROVE  ReadsItem(<<"IAC", "WILL", "opt">>, binary, out, cmds)
<1> DEFINE i == <<"IAC", "WILL", "opt">>
<1>1. Len(i) = 3 /\ i[1] = "IAC" /\ i[2] = "WILL" /\ i[3] = "opt"
  OBVIOUS
<1>2. \A q : 
        /\ Within(q, i, 0, binary, out, cmds) <=> Settled(q, binary, out, cmds)
        /\ Within(q, i, 1, binary, out, cmds) <=> AtByte(q, binary, "Iac", FALSE, out, cmds)
        /\ Within(q, i, 2, binary, out, cmds) <=> 
             AtByte(q, binary, "Negotiation", FALSE, out, cmds)
  BY <1>1 DEF Within
<1>3. Text(i, binary) = <<>> /\ Meaning(i) = <<"negotiation">>
  BY TextIs, MeaningIs
<1> HIDE DEF i
<1>4. ASSUME NEW p, Within(p, i, 0, binary, out, cmds)
      PROVE  /\ Within(ReceiveByte(p, i[1]), i, 1, binary, out, cmds)
             /\ ReceiveByte(p, i[1]) \in Parsers
  <2>1. Settled(p, binary, out, cmds)
    BY <1>2, <1>4, Zenon
  <2>2. AtByte(ReceiveByte(p, "IAC"), binary, "Iac", FALSE, out, cmds)
    BY <2>1, OnData DEF Settled
  <2>3. ReceiveByte(p, "IAC") \in Parsers
    BY <2>2 DEF Settled, AtByte, InSub
  <2> QED
    BY <1>1, <1>2, <1>3, <2>2, <2>3, Zenon
<1>5. ASSUME NEW p, Within(p, i, 1, binary, out, cmds)
      PROVE  /\ Within(ReceiveByte(p, i[2]), i, 2, binary, out, cmds)
             /\ ReceiveByte(p, i[2]) \in Parsers
  <2>1. AtByte(p, binary, "Iac", FALSE, out, cmds)
    BY <1>2, <1>5, Zenon
  <2>2. AtByte(ReceiveByte(p, "WILL"), binary, "Negotiation", FALSE, out, cmds)
    BY <2>1, OnIac
  <2>3. ReceiveByte(p, "WILL") \in Parsers
    BY <2>2 DEF Settled, AtByte, InSub
  <2> QED
    BY <1>1, <1>2, <1>3, <2>2, <2>3, Zenon
<1>6. ASSUME NEW p, Within(p, i, 2, binary, out, cmds)
      PROVE  Settled(ReceiveByte(p, i[3]), binary, out \o Text(i, binary), cmds \o Meaning(i))
  <2>1. AtByte(p, binary, "Negotiation", FALSE, out, cmds)
    BY <1>2, <1>6, Zenon
  <2>2. Settled(ReceiveByte(p, "opt"), binary, out, Append(cmds, "negotiation"))
    BY <2>1, OnNegotiation DEF Settled
  <2>3. Settled(ReceiveByte(p, "opt"), binary, out \o <<>>, cmds \o <<"negotiation">>)
    BY <2>2, Joined, Zenon
  <2> QED
    BY <1>1, <1>2, <1>3, <2>3, Zenon
<1>7. ReadsItem(i, binary, out, cmds)
  <2>1. ASSUME NEW j \in 0 .. 3 - 2, NEW p \in Parsers, Within(p, i, j, binary, out, cmds)
        PROVE  /\ Within(ReceiveByte(p, i[j + 1]), i, j + 1, binary, out, cmds)
               /\ ReceiveByte(p, i[j + 1]) \in Parsers
    <3>1. \/ j = 0 /\ j + 1 = 1
          \/ j = 1 /\ j + 1 = 2
      OBVIOUS
    <3> QED
      BY <2>1, <3>1, <1>4, <1>5, Zenon
  <2> QED
    BY <1>1, <1>6, <2>1 DEF ReadsItem
<1> QED
  BY <1>7 DEF i

LEMMA ReadsNop ==
  ASSUME NEW binary \in BOOLEAN, NEW out \in Seq(Symbols), NEW cmds \in Seq(SeenCommands)
  PROVE  ReadsItem(<<"IAC", "NOP">>, binary, out, cmds)
<1> DEFINE i == <<"IAC", "NOP">>
<1>1. Len(i) = 2 /\ i[1] = "IAC" /\ i[2] = "NOP"
  OBVIOUS
<1>2. \A q : 
        /\ Within(q, i, 0, binary, out, cmds) <=> Settled(q, binary, out, cmds)
        /\ Within(q, i, 1, binary, out, cmds) <=> AtByte(q, binary, "Iac", FALSE, out, cmds)
  BY <1>1 DEF Within
<1>3. Text(i, binary) = <<>> /\ Meaning(i) = <<>>
  BY TextIs, MeaningIs
<1> HIDE DEF i
<1>4. ASSUME NEW p, Within(p, i, 0, binary, out, cmds)
      PROVE  /\ Within(ReceiveByte(p, i[1]), i, 1, binary, out, cmds)
             /\ ReceiveByte(p, i[1]) \in Parsers
  <2>1. Settled(p, binary, out, cmds)
    BY <1>2, <1>4, Zenon
  <2>2. AtByte(ReceiveByte(p, "IAC"), binary, "Iac", FALSE, out, cmds)
    BY <2>1, OnData DEF Settled
  <2>3. ReceiveByte(p, "IAC") \in Parsers
    BY <2>2 DEF Settled, AtByte, InSub
  <2> QED
    BY <1>1, <1>2, <1>3, <2>2, <2>3, Zenon
<1>5. ASSUME NEW p, Within(p, i, 1, binary, out, cmds)
      PROVE  Settled(ReceiveByte(p, i[2]), binary, out \o Text(i, binary), cmds \o Meaning(i))
  <2>1. AtByte(p, binary, "Iac", FALSE, out, cmds)
    BY <1>2, <1>5, Zenon
  <2>2. Settled(ReceiveByte(p, "NOP"), binary, out, cmds)
    BY <2>1, OnIac DEF Settled
  <2>3. Settled(ReceiveByte(p, "NOP"), binary, out \o <<>>, cmds \o <<>>)
    BY <2>2, Joined, Zenon
  <2> QED
    BY <1>1, <1>2, <1>3, <2>3, Zenon
<1>6. ReadsItem(i, binary, out, cmds)
  <2>1. ASSUME NEW j \in 0 .. 2 - 2, NEW p \in Parsers, Within(p, i, j, binary, out, cmds)
        PROVE  /\ Within(ReceiveByte(p, i[j + 1]), i, j + 1, binary, out, cmds)
               /\ ReceiveByte(p, i[j + 1]) \in Parsers
    <3>1. j = 0 /\ j + 1 = 1
      OBVIOUS
    <3> QED
      BY <2>1, <3>1, <1>4, Zenon
  <2> QED
    BY <1>1, <1>5, <2>1 DEF ReadsItem
<1> QED
  BY <1>6 DEF i

LEMMA ReadsSend ==
  ASSUME NEW binary \in BOOLEAN, NEW out \in Seq(Symbols), NEW cmds \in Seq(SeenCommands)
  PROVE  ReadsItem(<<"IAC", "SB", "opt", "SEND", "IAC", "SE">>, binary, out, cmds)
<1> DEFINE i == <<"IAC", "SB", "opt", "SEND", "IAC", "SE">>
<1>1. Len(i) = 6 /\ i[1] = "IAC" /\ i[2] = "SB" /\ i[3] = "opt" /\ i[4] = "SEND" /\ i[5] = "IAC" /\ i[6] = "SE"
  OBVIOUS
<1>2. ASSUME NEW q
      PROVE  /\ Within(q, i, 0, binary, out, cmds) <=>
                  Settled(q, binary, out, cmds)
             /\ Within(q, i, 1, binary, out, cmds) <=>
                  AtByte(q, binary, "Iac", FALSE, out, cmds)
             /\ Within(q, i, 2, binary, out, cmds) <=>
                  InSub(q, binary, out, cmds, FALSE, <<>>, FALSE)
             /\ Within(q, i, 3, binary, out, cmds) <=>
                  InSub(q, binary, out, cmds, TRUE, <<>>, FALSE)
             /\ Within(q, i, 4, binary, out, cmds) <=>
                  InSub(q, binary, out, cmds, TRUE, <<"SEND">>, FALSE)
             /\ Within(q, i, 5, binary, out, cmds) <=>
                  InSub(q, binary, out, cmds, TRUE, <<"SEND">>, TRUE)
  <2>1. Within(q, i, 0, binary, out, cmds) <=>
        Settled(q, binary, out, cmds)
    BY <1>1 DEF Within
  <2>2. Within(q, i, 1, binary, out, cmds) <=>
        AtByte(q, binary, "Iac", FALSE, out, cmds)
    BY <1>1 DEF Within
  <2>3. Within(q, i, 2, binary, out, cmds) <=>
        InSub(q, binary, out, cmds, FALSE, <<>>, FALSE)
    BY <1>1 DEF Within
  <2>4. Within(q, i, 3, binary, out, cmds) <=>
        InSub(q, binary, out, cmds, TRUE, <<>>, FALSE)
    BY <1>1 DEF Within
  <2>5. Within(q, i, 4, binary, out, cmds) <=>
        InSub(q, binary, out, cmds, TRUE, <<"SEND">>, FALSE)
    BY <1>1 DEF Within
  <2>6. Within(q, i, 5, binary, out, cmds) <=>
        InSub(q, binary, out, cmds, TRUE, <<"SEND">>, TRUE)
    BY <1>1 DEF Within
  <2> QED
    BY <2>1, <2>2, <2>3, <2>4, <2>5, <2>6
<1>3. Text(i, binary) = <<>> /\ Meaning(i) = <<<<"SEND">>>>
  BY TextIs, MeaningIs
<1> HIDE DEF i
<1>4. ASSUME NEW p, Within(p, i, 0, binary, out, cmds)
      PROVE  /\ Within(ReceiveByte(p, i[1]), i, 1, binary, out, cmds)
             /\ ReceiveByte(p, i[1]) \in Parsers
  <2>1. Settled(p, binary, out, cmds)
    BY <1>2, <1>4, Zenon
  <2>2. AtByte(ReceiveByte(p, "IAC"), binary, "Iac", FALSE, out, cmds)
    BY <2>1, OnData DEF Settled
  <2>3. ReceiveByte(p, "IAC") \in Parsers
    BY <2>2 DEF Settled, AtByte, InSub
  <2> QED
    BY <1>1, <1>2, <1>3, <2>2, <2>3, Zenon
<1>5. ASSUME NEW p, Within(p, i, 1, binary, out, cmds)
      PROVE  /\ Within(ReceiveByte(p, i[2]), i, 2, binary, out, cmds)
             /\ ReceiveByte(p, i[2]) \in Parsers
  <2>1. AtByte(p, binary, "Iac", FALSE, out, cmds)
    BY <1>2, <1>5, Zenon
  <2>2. InSub(ReceiveByte(p, "SB"), binary, out, cmds, FALSE, <<>>, FALSE)
    BY <2>1, OnIac
  <2>3. ReceiveByte(p, "SB") \in Parsers
    BY <2>2 DEF Settled, AtByte, InSub
  <2> QED
    BY <1>1, <1>2, <1>3, <2>2, <2>3, Zenon
<1>6. ASSUME NEW p, Within(p, i, 2, binary, out, cmds)
      PROVE  /\ Within(ReceiveByte(p, i[3]), i, 3, binary, out, cmds)
             /\ ReceiveByte(p, i[3]) \in Parsers
  <2>1. InSub(p, binary, out, cmds, FALSE, <<>>, FALSE)
    BY <1>2, <1>6, Zenon
  <2>2. InSub(ReceiveByte(p, "opt"), binary, out, cmds, TRUE, <<>>, FALSE)
    BY <2>1, OnSub
  <2>3. ReceiveByte(p, "opt") \in Parsers
    BY <2>2 DEF Settled, AtByte, InSub
  <2> QED
    BY <1>1, <1>2, <1>3, <2>2, <2>3, Zenon
<1>7. ASSUME NEW p, Within(p, i, 3, binary, out, cmds)
      PROVE  /\ Within(ReceiveByte(p, i[4]), i, 4, binary, out, cmds)
             /\ ReceiveByte(p, i[4]) \in Parsers
  <2>1. InSub(p, binary, out, cmds, TRUE, <<>>, FALSE)
    BY <1>2, <1>7, Zenon
  <2>2. InSub(ReceiveByte(p, "SEND"), binary, out, cmds, TRUE, Append(<<>>, "SEND"), FALSE)
    BY <2>1, OnSub
  <2>3. InSub(ReceiveByte(p, "SEND"), binary, out, cmds, TRUE, <<"SEND">>, FALSE)
    BY <2>2, Joined, Zenon
  <2>4. ReceiveByte(p, "SEND") \in Parsers
    BY <2>3 DEF Settled, AtByte, InSub
  <2> QED
    BY <1>1, <1>2, <1>3, <2>3, <2>4, Zenon
<1>8. ASSUME NEW p, Within(p, i, 4, binary, out, cmds)
      PROVE  /\ Within(ReceiveByte(p, i[5]), i, 5, binary, out, cmds)
             /\ ReceiveByte(p, i[5]) \in Parsers
  <2>1. InSub(p, binary, out, cmds, TRUE, <<"SEND">>, FALSE)
    BY <1>2, <1>8, Zenon
  <2>2. InSub(ReceiveByte(p, "IAC"), binary, out, cmds, TRUE, <<"SEND">>, TRUE)
    BY <2>1, OnSub
  <2>3. ReceiveByte(p, "IAC") \in Parsers
    BY <2>2 DEF Settled, AtByte, InSub
  <2> QED
    BY <1>1, <1>2, <1>3, <2>2, <2>3, Zenon
<1>9. ASSUME NEW p, Within(p, i, 5, binary, out, cmds)
      PROVE  Settled(ReceiveByte(p, i[6]), binary, out \o Text(i, binary), cmds \o Meaning(i))
  <2>1. InSub(p, binary, out, cmds, TRUE, <<"SEND">>, TRUE)
    BY <1>2, <1>9, Zenon
  <2>2. Settled(ReceiveByte(p, "SE"), binary, out, Append(cmds, <<"SEND">>))
    BY <2>1, OnSub DEF SeenCommands
  <2>3. Settled(ReceiveByte(p, "SE"), binary, out \o <<>>, cmds \o <<<<"SEND">>>>)
    BY <2>2, Joined, Zenon
  <2> QED
    BY <1>1, <1>2, <1>3, <2>3, Zenon
<1>10. ReadsItem(i, binary, out, cmds)
  <2>1. ASSUME NEW j \in 0 .. 6 - 2, NEW p \in Parsers, Within(p, i, j, binary, out, cmds)
        PROVE  /\ Within(ReceiveByte(p, i[j + 1]), i, j + 1, binary, out, cmds)
               /\ ReceiveByte(p, i[j + 1]) \in Parsers
    <3>1. \/ j = 0 /\ j + 1 = 1
          \/ j = 1 /\ j + 1 = 2
          \/ j = 2 /\ j + 1 = 3
          \/ j = 3 /\ j + 1 = 4
          \/ j = 4 /\ j + 1 = 5
      OBVIOUS
    <3> QED
      BY <2>1, <3>1, <1>4, <1>5, <1>6, <1>7, <1>8, Zenon
  <2> QED
    BY <1>1, <1>9, <2>1 DEF ReadsItem
<1> QED
  BY <1>10 DEF i

LEMMA ReadsByte ==
  ASSUME NEW binary \in BOOLEAN, NEW out \in Seq(Symbols), NEW cmds \in Seq(SeenCommands)
  PROVE  ReadsItem(<<"IAC", "SB", "opt", "IAC", "IAC", "IAC", "SE">>, binary, out, cmds)
<1> DEFINE i == <<"IAC", "SB", "opt", "IAC", "IAC", "IAC", "SE">>
<1>1. Len(i) = 7 /\ i[1] = "IAC" /\ i[2] = "SB" /\ i[3] = "opt" /\ i[4] = "IAC" /\ i[5] = "IAC" /\ i[6] = "IAC" /\ i[7] = "SE"
  OBVIOUS
<1>2. ASSUME NEW q
      PROVE  /\ Within(q, i, 0, binary, out, cmds) <=>
                  Settled(q, binary, out, cmds)
             /\ Within(q, i, 1, binary, out, cmds) <=>
                  AtByte(q, binary, "Iac", FALSE, out, cmds)
             /\ Within(q, i, 2, binary, out, cmds) <=>
                  InSub(q, binary, out, cmds, FALSE, <<>>, FALSE)
             /\ Within(q, i, 3, binary, out, cmds) <=>
                  InSub(q, binary, out, cmds, TRUE, <<>>, FALSE)
             /\ Within(q, i, 4, binary, out, cmds) <=>
                  InSub(q, binary, out, cmds, TRUE, <<>>, TRUE)
             /\ Within(q, i, 5, binary, out, cmds) <=>
                  InSub(q, binary, out, cmds, TRUE, <<"IAC">>, FALSE)
             /\ Within(q, i, 6, binary, out, cmds) <=>
                  InSub(q, binary, out, cmds, TRUE, <<"IAC">>, TRUE)
  <2>1. Within(q, i, 0, binary, out, cmds) <=>
        Settled(q, binary, out, cmds)
    BY <1>1 DEF Within
  <2>2. Within(q, i, 1, binary, out, cmds) <=>
        AtByte(q, binary, "Iac", FALSE, out, cmds)
    BY <1>1 DEF Within
  <2>3. Within(q, i, 2, binary, out, cmds) <=>
        InSub(q, binary, out, cmds, FALSE, <<>>, FALSE)
    BY <1>1 DEF Within
  <2>4. Within(q, i, 3, binary, out, cmds) <=>
        InSub(q, binary, out, cmds, TRUE, <<>>, FALSE)
    BY <1>1 DEF Within
  <2>5. Within(q, i, 4, binary, out, cmds) <=>
        InSub(q, binary, out, cmds, TRUE, <<>>, TRUE)
    BY <1>1 DEF Within
  <2>6. Within(q, i, 5, binary, out, cmds) <=>
        InSub(q, binary, out, cmds, TRUE, <<"IAC">>, FALSE)
    BY <1>1 DEF Within
  <2>7. Within(q, i, 6, binary, out, cmds) <=>
        InSub(q, binary, out, cmds, TRUE, <<"IAC">>, TRUE)
    BY <1>1 DEF Within
  <2> QED
    BY <2>1, <2>2, <2>3, <2>4, <2>5, <2>6, <2>7
<1>3. Text(i, binary) = <<>> /\ Meaning(i) = <<<<"IAC">>>>
  BY TextIs, MeaningIs
<1> HIDE DEF i
<1>4. ASSUME NEW p, Within(p, i, 0, binary, out, cmds)
      PROVE  /\ Within(ReceiveByte(p, i[1]), i, 1, binary, out, cmds)
             /\ ReceiveByte(p, i[1]) \in Parsers
  <2>1. Settled(p, binary, out, cmds)
    BY <1>2, <1>4, Zenon
  <2>2. AtByte(ReceiveByte(p, "IAC"), binary, "Iac", FALSE, out, cmds)
    BY <2>1, OnData DEF Settled
  <2>3. ReceiveByte(p, "IAC") \in Parsers
    BY <2>2 DEF Settled, AtByte, InSub
  <2> QED
    BY <1>1, <1>2, <1>3, <2>2, <2>3, Zenon
<1>5. ASSUME NEW p, Within(p, i, 1, binary, out, cmds)
      PROVE  /\ Within(ReceiveByte(p, i[2]), i, 2, binary, out, cmds)
             /\ ReceiveByte(p, i[2]) \in Parsers
  <2>1. AtByte(p, binary, "Iac", FALSE, out, cmds)
    BY <1>2, <1>5, Zenon
  <2>2. InSub(ReceiveByte(p, "SB"), binary, out, cmds, FALSE, <<>>, FALSE)
    BY <2>1, OnIac
  <2>3. ReceiveByte(p, "SB") \in Parsers
    BY <2>2 DEF Settled, AtByte, InSub
  <2> QED
    BY <1>1, <1>2, <1>3, <2>2, <2>3, Zenon
<1>6. ASSUME NEW p, Within(p, i, 2, binary, out, cmds)
      PROVE  /\ Within(ReceiveByte(p, i[3]), i, 3, binary, out, cmds)
             /\ ReceiveByte(p, i[3]) \in Parsers
  <2>1. InSub(p, binary, out, cmds, FALSE, <<>>, FALSE)
    BY <1>2, <1>6, Zenon
  <2>2. InSub(ReceiveByte(p, "opt"), binary, out, cmds, TRUE, <<>>, FALSE)
    BY <2>1, OnSub
  <2>3. ReceiveByte(p, "opt") \in Parsers
    BY <2>2 DEF Settled, AtByte, InSub
  <2> QED
    BY <1>1, <1>2, <1>3, <2>2, <2>3, Zenon
<1>7. ASSUME NEW p, Within(p, i, 3, binary, out, cmds)
      PROVE  /\ Within(ReceiveByte(p, i[4]), i, 4, binary, out, cmds)
             /\ ReceiveByte(p, i[4]) \in Parsers
  <2>1. InSub(p, binary, out, cmds, TRUE, <<>>, FALSE)
    BY <1>2, <1>7, Zenon
  <2>2. InSub(ReceiveByte(p, "IAC"), binary, out, cmds, TRUE, <<>>, TRUE)
    BY <2>1, OnSub
  <2>3. ReceiveByte(p, "IAC") \in Parsers
    BY <2>2 DEF Settled, AtByte, InSub
  <2> QED
    BY <1>1, <1>2, <1>3, <2>2, <2>3, Zenon
<1>8. ASSUME NEW p, Within(p, i, 4, binary, out, cmds)
      PROVE  /\ Within(ReceiveByte(p, i[5]), i, 5, binary, out, cmds)
             /\ ReceiveByte(p, i[5]) \in Parsers
  <2>1. InSub(p, binary, out, cmds, TRUE, <<>>, TRUE)
    BY <1>2, <1>8, Zenon
  <2>2. InSub(ReceiveByte(p, "IAC"), binary, out, cmds, TRUE, Append(<<>>, "IAC"), FALSE)
    BY <2>1, OnSub
  <2>3. InSub(ReceiveByte(p, "IAC"), binary, out, cmds, TRUE, <<"IAC">>, FALSE)
    BY <2>2, Joined, Zenon
  <2>4. ReceiveByte(p, "IAC") \in Parsers
    BY <2>3 DEF Settled, AtByte, InSub
  <2> QED
    BY <1>1, <1>2, <1>3, <2>3, <2>4, Zenon
<1>9. ASSUME NEW p, Within(p, i, 5, binary, out, cmds)
      PROVE  /\ Within(ReceiveByte(p, i[6]), i, 6, binary, out, cmds)
             /\ ReceiveByte(p, i[6]) \in Parsers
  <2>1. InSub(p, binary, out, cmds, TRUE, <<"IAC">>, FALSE)
    BY <1>2, <1>9, Zenon
  <2>2. InSub(ReceiveByte(p, "IAC"), binary, out, cmds, TRUE, <<"IAC">>, TRUE)
    BY <2>1, OnSub
  <2>3. ReceiveByte(p, "IAC") \in Parsers
    BY <2>2 DEF Settled, AtByte, InSub
  <2> QED
    BY <1>1, <1>2, <1>3, <2>2, <2>3, Zenon
<1>10. ASSUME NEW p, Within(p, i, 6, binary, out, cmds)
      PROVE  Settled(ReceiveByte(p, i[7]), binary, out \o Text(i, binary), cmds \o Meaning(i))
  <2>1. InSub(p, binary, out, cmds, TRUE, <<"IAC">>, TRUE)
    BY <1>2, <1>10, Zenon
  <2>2. Settled(ReceiveByte(p, "SE"), binary, out, Append(cmds, <<"IAC">>))
    BY <2>1, OnSub DEF SeenCommands
  <2>3. Settled(ReceiveByte(p, "SE"), binary, out \o <<>>, cmds \o <<<<"IAC">>>>)
    BY <2>2, Joined, Zenon
  <2> QED
    BY <1>1, <1>2, <1>3, <2>3, Zenon
<1>11. ReadsItem(i, binary, out, cmds)
  <2>1. ASSUME NEW j \in 0 .. 7 - 2, NEW p \in Parsers, Within(p, i, j, binary, out, cmds)
        PROVE  /\ Within(ReceiveByte(p, i[j + 1]), i, j + 1, binary, out, cmds)
               /\ ReceiveByte(p, i[j + 1]) \in Parsers
    <3>1. \/ j = 0 /\ j + 1 = 1
          \/ j = 1 /\ j + 1 = 2
          \/ j = 2 /\ j + 1 = 3
          \/ j = 3 /\ j + 1 = 4
          \/ j = 4 /\ j + 1 = 5
          \/ j = 5 /\ j + 1 = 6
      OBVIOUS
    <3> QED
      BY <2>1, <3>1, <1>4, <1>5, <1>6, <1>7, <1>8, <1>9, Zenon
  <2> QED
    BY <1>1, <1>10, <2>1 DEF ReadsItem
<1> QED
  BY <1>11 DEF i

\* What is left of ss after its first k members and j elements of the next.
Left(ss, k, j) == Skip(FlatRest(ss, k), j)

LEMMA LeftStep ==
  ASSUME NEW S, NEW ss \in Seq(Seq(S)), NEW k \in 0 .. Len(ss) - 1, NEW j \in 0 .. Len(ss[k + 1]) - 1
  PROVE  /\ Left(ss, k, j) # <<>> /\ Head(Left(ss, k, j)) = ss[k + 1][j + 1]
         /\ j + 1 < Len(ss[k + 1]) => Tail(Left(ss, k, j)) = Left(ss, k, j + 1)
         /\ j + 1 = Len(ss[k + 1]) => Tail(Left(ss, k, j)) = FlatRest(ss, k + 1)
         /\ FlatRest(ss, k) = Left(ss, k, 0)
<1> DEFINE w == ss[k + 1]
           r == FlatRest(ss, k + 1)
<1>1. k \in 0 .. Len(ss) /\ k + 1 \in 0 .. Len(ss) /\ k < Len(ss) /\ w \in Seq(S) /\ j \in Nat
  OBVIOUS
<1>2. r \in Seq(S) /\ FlatRest(ss, k) = w \o r
  BY <1>1, FlatRestShrinks
<1>3. /\ w \o r \in Seq(S) /\ Len(w \o r) = Len(w) + Len(r)
      /\ Skip(w \o r, Len(w)) = r
      /\ \A n \in 1 .. Len(w) : (w \o r)[n] = w[n]
  BY <1>1, <1>2, SkipConcat
<1> HIDE DEF w, r
<1>4. j \in 0 .. Len(w) - 1 /\ Len(w) \in Nat /\ Len(r) \in Nat
  BY <1>1, <1>2 DEF w
<1>5. j \in 0 .. Len(w \o r) /\ j < Len(w \o r) /\ j + 1 \in 1 .. Len(w)
  BY <1>3, <1>4
<1> DEFINE v == w \o r
<1>6. /\ Skip(v, 0) = v
      /\ Skip(v, j) # <<>> /\ Head(Skip(v, j)) = v[j + 1]
      /\ Tail(Skip(v, j)) = Skip(v, j + 1)
  <2>1. v \in Seq(S) /\ j \in 0 .. Len(v) /\ j < Len(v) /\ j # Len(v)
    BY <1>3, <1>5
  <2> HIDE DEF v
  <2> QED
    BY <2>1, SkipStep
<1>7. Left(ss, k, j) = Skip(v, j) /\ Left(ss, k, 0) = Skip(v, 0) /\ Left(ss, k, j + 1) = Skip(v, j + 1)
  BY <1>2 DEF Left
<1>8. v[j + 1] = w[j + 1] /\ Skip(v, Len(w)) = r /\ v = FlatRest(ss, k)
  BY <1>2, <1>3, <1>5
<1> HIDE DEF v
<1>9. j + 1 = Len(w) => Tail(Left(ss, k, j)) = r
  BY <1>6, <1>7, <1>8
<1> QED
  BY <1>6, <1>7, <1>8 DEF w, r

-----------------------------------------------------------------------------
(* A stream of the server: k of its items are read, and j bytes of the     *)
(* next.                                                                   *)

Texts(items, binary) == [m \in DOMAIN items |-> Text(items[m], binary)]
Meanings(items) == [m \in DOMAIN items |-> Meaning(items[m])]

ServerRead(b, items, binary, k, j) ==
  LET out == FlatFirst(Texts(items, binary), k)
      cmds == FlatFirst(Meanings(items), k)
  IN /\ b.text = FlattenSeq(Texts(items, binary)) /\ b.seen = FlattenSeq(Meanings(items))
     /\ \/ k = Len(items) /\ b.todo = <<>> /\ Settled(b.parser, binary, out, cmds)
        \/ /\ b.parser \in Parsers
           /\ k < Len(items) /\ j < Len(items[k + 1]) /\ b.todo = Left(items, k, j)
           /\ Within(b.parser, items[k + 1], j, binary, out, cmds)

LEMMA VocabularyType ==
  ASSUME NEW i \in StreamVocabulary, NEW binary \in BOOLEAN
  PROVE  /\ i \in Seq(Symbols) /\ Len(i) \in Nat \ {0}
         /\ Text(i, binary) \in Seq(Symbols) /\ Meaning(i) \in Seq(SeenCommands)
<1>1. i \in Seq(Symbols) /\ Len(i) \in Nat \ {0}
  <2> DEFINE P(s) == s \in Seq(Symbols) /\ Len(s) \in Nat \ {0}
  <2>1. /\ P(<<"x">>) /\ P(<<"IAC", "IAC">>) /\ P(<<"LF">>) /\ P(<<"CR", "LF">>)
        /\ P(<<"CR", "NUL">>) /\ P(<<"IAC", "WILL", "opt">>) /\ P(<<"IAC", "NOP">>)
    BY DEF Symbols
  <2>2. P(<<"IAC", "SB", "opt", "SEND", "IAC", "SE">>)
    BY DEF Symbols
  <2>3. P(<<"IAC", "SB", "opt", "IAC", "IAC", "IAC", "SE">>)
    BY DEF Symbols
  <2> QED
    BY <2>1, <2>2, <2>3, Zenon DEF StreamVocabulary
<1>2. Text(i, binary) \in Seq(Symbols)
  <2>1. /\ <<"x">> \in Seq(Symbols) /\ <<"IAC">> \in Seq(Symbols) /\ <<"LF">> \in Seq(Symbols)
        /\ <<"CR", "LF">> \in Seq(Symbols) /\ <<"CR", "NUL">> \in Seq(Symbols)
        /\ <<"CR">> \in Seq(Symbols) /\ <<>> \in Seq(Symbols)
    BY DEF Symbols
  <2> QED
    BY <2>1, TextIs DEF StreamVocabulary
<1>3. Meaning(i) \in Seq(SeenCommands)
  <2>1. /\ "negotiation" \in SeenCommands /\ <<"SEND">> \in SeenCommands
        /\ <<"IAC">> \in SeenCommands
    BY DEF SeenCommands
  <2>2. /\ <<"negotiation">> \in Seq(SeenCommands) /\ <<<<"SEND">>>> \in Seq(SeenCommands)
        /\ <<<<"IAC">>>> \in Seq(SeenCommands) /\ <<>> \in Seq(SeenCommands)
    BY <2>1
  <2> QED
    BY <2>2, MeaningIs DEF StreamVocabulary
<1> QED
  BY <1>1, <1>2, <1>3

LEMMA ItemsType ==
  ASSUME NEW items \in Seq(StreamVocabulary), NEW binary \in BOOLEAN
  PROVE  /\ items \in Seq(Seq(Symbols)) /\ Texts(items, binary) \in Seq(Seq(Symbols))
         /\ Meanings(items) \in Seq(Seq(SeenCommands))
         /\ Len(Texts(items, binary)) = Len(items) /\ Len(Meanings(items)) = Len(items)
         /\ \A m \in 1 .. Len(items) : /\ items[m] \in StreamVocabulary
                                       /\ Texts(items, binary)[m] = Text(items[m], binary)
                                       /\ Meanings(items)[m] = Meaning(items[m])
<1>1. \A m \in 1 .. Len(items) : items[m] \in StreamVocabulary
  OBVIOUS
<1>2. \A m \in 1 .. Len(items) : /\ items[m] \in Seq(Symbols) /\ Text(items[m], binary) \in Seq(Symbols)
                                 /\ Meaning(items[m]) \in Seq(SeenCommands)
  BY <1>1, VocabularyType
<1>3. items \in Seq(Seq(Symbols)) /\ DOMAIN items = 1 .. Len(items) /\ Len(items) \in Nat
  BY <1>2
<1>4. Texts(items, binary) \in Seq(Seq(Symbols)) /\ Len(Texts(items, binary)) = Len(items)
  BY <1>2, <1>3 DEF Texts
<1>5. Meanings(items) \in Seq(Seq(SeenCommands)) /\ Len(Meanings(items)) = Len(items)
  BY <1>2, <1>3 DEF Meanings
<1> QED
  BY <1>1, <1>3, <1>4, <1>5 DEF Texts, Meanings

LEMMA ReadsAnyItem ==
  ASSUME NEW i \in StreamVocabulary, NEW binary \in BOOLEAN, NEW out \in Seq(Symbols),
         NEW cmds \in Seq(SeenCommands)
  PROVE  ReadsItem(i, binary, out, cmds)
BY ReadsText, ReadsEscape, ReadsFeed, ReadsLine, ReadsReturn, ReadsWill, ReadsNop, ReadsSend,
   ReadsByte, Zenon DEF StreamVocabulary

LEMMA ServerReadStep ==
  ASSUME NEW b, NEW c, NEW items \in Seq(StreamVocabulary), NEW binary \in BOOLEAN,
         NEW k \in 0 .. Len(items), NEW j \in Nat,
         ServerRead(b, items, binary, k, j), b.todo # <<>>,
         c.todo = Tail(b.todo), c.parser = ReceiveByte(b.parser, Head(b.todo)),
         c.text = b.text, c.seen = b.seen
  PROVE  \E m \in 0 .. Len(items), n \in Nat : ServerRead(c, items, binary, m, n)
<1> DEFINE i == items[k + 1]
           texts == Texts(items, binary)
           meanings == Meanings(items)
           out == FlatFirst(texts, k)
           cmds == FlatFirst(meanings, k)
<1>1. /\ k < Len(items) /\ j < Len(i) /\ b.todo = Left(items, k, j)
      /\ b.parser \in Parsers
      /\ Within(b.parser, i, j, binary, out, cmds)
      /\ c.text = FlattenSeq(texts) /\ c.seen = FlattenSeq(meanings)
  BY DEF ServerRead
<1>2. /\ items \in Seq(Seq(Symbols)) /\ texts \in Seq(Seq(Symbols))
      /\ meanings \in Seq(Seq(SeenCommands))
      /\ Len(texts) = Len(items) /\ Len(meanings) = Len(items)
      /\ i \in StreamVocabulary /\ texts[k + 1] = Text(i, binary) /\ meanings[k + 1] = Meaning(i)
  <2>1. k + 1 \in 1 .. Len(items)
    BY <1>1
  <2> QED
    BY <2>1, ItemsType
<1>3. i \in Seq(Symbols) /\ Len(i) \in Nat \ {0}
  BY <1>2, VocabularyType
<1>4. /\ out \in Seq(Symbols) /\ FlatFirst(texts, k + 1) = out \o Text(i, binary)
      /\ cmds \in Seq(SeenCommands) /\ FlatFirst(meanings, k + 1) = cmds \o Meaning(i)
  BY <1>1, <1>2, FlatFirstGrows
<1>5. k \in 0 .. Len(items) - 1 /\ j \in 0 .. Len(i) - 1 /\ Len(items) \in Nat
  BY <1>1, <1>3
<1>6. /\ Head(b.todo) = i[j + 1]
      /\ j + 1 < Len(i) => c.todo = Left(items, k, j + 1)
      /\ j + 1 = Len(i) => c.todo = FlatRest(items, k + 1)
  BY <1>1, <1>2, <1>5, LeftStep
<1>7. ReadsItem(i, binary, out, cmds)
  BY <1>2, <1>4, ReadsAnyItem
<1> HIDE DEF i, texts, meanings, out, cmds
<1>8. CASE j + 1 < Len(i)
  <2>1. Within(c.parser, i, j + 1, binary, out, cmds) /\ c.parser \in Parsers
    <3>1. j \in 0 .. Len(i) - 2
      BY <1>3, <1>5, <1>8
    <3> QED
      BY <1>1, <1>6, <1>7, <3>1 DEF ReadsItem
  <2>2. ServerRead(c, items, binary, k, j + 1)
    BY <1>1, <1>6, <1>8, <2>1 DEF ServerRead, i, texts, meanings, out, cmds
  <2> QED
    BY <2>2
<1>9. CASE j + 1 = Len(i)
  <2>1. Settled(c.parser, binary, out \o Text(i, binary), cmds \o Meaning(i))
    <3>1. j = Len(i) - 1
      BY <1>3, <1>9
    <3>2. Within(b.parser, i, Len(i) - 1, binary, out, cmds) /\ c.parser = ReceiveByte(b.parser, i[Len(i)])
      BY <1>1, <1>6, <1>9, <3>1
    <3> QED
      BY <1>1, <1>7, <3>2 DEF ReadsItem
  <2>2. k + 1 \in 0 .. Len(items)
    BY <1>5
  <2>3. Settled(c.parser, binary, FlatFirst(texts, k + 1), FlatFirst(meanings, k + 1))
    BY <1>4, <2>1
  <2>4. CASE k + 1 = Len(items)
    <3>1. c.todo = <<>>
      BY <1>2, <1>6, <1>9, <2>2, <2>4, FlatRestShrinks
    <3>2. ServerRead(c, items, binary, k + 1, 0)
      BY <1>1, <2>3, <2>4, <3>1 DEF ServerRead, texts, meanings
    <3> QED
      BY <2>2, <3>2
  <2>5. CASE k + 1 < Len(items)
    <3> DEFINE h == items[k + 1 + 1]
    <3>1. k + 1 \in 0 .. Len(items) - 1 /\ k + 1 + 1 \in 1 .. Len(items)
      BY <1>5, <2>5
    <3>2. h \in Seq(Symbols) /\ Len(h) \in Nat \ {0} /\ 0 \in 0 .. Len(h) - 1
      <4>1. h \in StreamVocabulary
        BY <3>1, ItemsType
      <4> HIDE DEF h
      <4>2. h \in Seq(Symbols) /\ Len(h) \in Nat \ {0}
        BY <4>1, VocabularyType
      <4>3. \A n \in Nat \ {0} : 0 \in 0 .. n - 1
        OBVIOUS
      <4> QED
        BY <4>2, <4>3, Zenon
    <3>3. c.todo = Left(items, k + 1, 0)
      BY <1>2, <1>6, <1>9, <3>1, <3>2, LeftStep
    <3>4. Within(c.parser, h, 0, binary, FlatFirst(texts, k + 1), FlatFirst(meanings, k + 1))
      BY <2>3 DEF Within
    <3>5. c.parser \in Parsers
      BY <2>3 DEF Settled, AtByte
    <3>6. ServerRead(c, items, binary, k + 1, 0)
      BY <1>1, <3>5, <2>5, <3>2, <3>3, <3>4 DEF ServerRead, texts, meanings
    <3> QED
      BY <2>2, <3>6
  <2> QED
    BY <1>5, <2>4, <2>5
<1> QED
  BY <1>3, <1>5, <1>8, <1>9

LEMMA NewParserSettled ==
  ASSUME NEW binary \in BOOLEAN
  PROVE  Settled(NewParser(binary), binary, <<>>, <<>>)
<1>1. <<>> \in Seq(Symbols) /\ <<>> \in Seq(SeenCommands)
  OBVIOUS
<1> QED
  BY <1>1 DEF Settled, AtByte, NewParser, Parsers

LEMMA ServerReadInit ==
  ASSUME NEW items \in Seq(StreamVocabulary), NEW binary \in BOOLEAN
  PROVE  ServerRead(ServerStream(items, binary), items, binary, 0, 0)
<1> DEFINE b == ServerStream(items, binary)
<1>1. /\ b.text = FlattenSeq(Texts(items, binary)) /\ b.seen = FlattenSeq(Meanings(items))
      /\ b.todo = FlattenSeq(items) /\ b.parser = NewParser(binary)
  BY DEF ServerStream, Texts, Meanings
<1> HIDE DEF b
<1>2. /\ items \in Seq(Seq(Symbols)) /\ Texts(items, binary) \in Seq(Seq(Symbols))
      /\ Meanings(items) \in Seq(Seq(SeenCommands))
  BY ItemsType
<1>3. FlatFirst(Texts(items, binary), 0) = <<>> /\ FlatFirst(Meanings(items), 0) = <<>>
  <2>1. 0 \in 0 .. Len(Texts(items, binary)) /\ 0 \in 0 .. Len(Meanings(items))
    BY <1>2
  <2> QED
    BY <1>2, <2>1, FlatFirstGrows
<1>4. Settled(b.parser, binary, <<>>, <<>>)
  BY <1>1, NewParserSettled
<1>5. CASE Len(items) = 0
  <2>1. items = <<>>
    BY <1>5
  <2>2. b.todo = <<>>
    BY <1>1, <2>1, FlattenEmpty
  <2> QED
    BY <1>1, <1>3, <1>4, <1>5, <2>2 DEF ServerRead, b
<1>6. CASE Len(items) # 0
  <2>1. 0 \in 0 .. Len(items) - 1 /\ 0 \in 0 .. Len(items) /\ 0 + 1 \in 1 .. Len(items) /\ 0 < Len(items)
    BY <1>6
  <2>2. Len(items[0 + 1]) \in Nat \ {0} /\ 0 \in 0 .. Len(items[0 + 1]) - 1 /\ 0 < Len(items[0 + 1])
    BY <2>1, ItemsType, VocabularyType
  <2>3. FlatRest(items, 0) = FlattenSeq(items) /\ FlatRest(items, 0) = Left(items, 0, 0)
    BY <1>2, <2>1, <2>2, FlatRestShrinks, LeftStep
  <2>4. Within(b.parser, items[0 + 1], 0, binary, <<>>, <<>>) /\ b.parser \in Parsers
    BY <1>4 DEF Within, Settled, AtByte
  <2> QED
    BY <1>1, <1>3, <2>1, <2>2, <2>3, <2>4 DEF ServerRead, b
<1> QED
  BY <1>5, <1>6

LEMMA ServerReadDone ==
  ASSUME NEW b, NEW items \in Seq(StreamVocabulary), NEW binary \in BOOLEAN,
         NEW k \in 0 .. Len(items), NEW j \in Nat, ServerRead(b, items, binary, k, j), b.todo = <<>>
  PROVE  b.parser.output = b.text /\ b.parser.commands = b.seen
<1>1. /\ Texts(items, binary) \in Seq(Seq(Symbols)) /\ Meanings(items) \in Seq(Seq(SeenCommands))
      /\ Len(Texts(items, binary)) = Len(items) /\ Len(Meanings(items)) = Len(items)
      /\ items \in Seq(Seq(Symbols))
  BY ItemsType
<1>2. ASSUME k < Len(items), j < Len(items[k + 1]), b.todo = Left(items, k, j) PROVE FALSE
  <2>1. k \in 0 .. Len(items) - 1 /\ k + 1 \in 1 .. Len(items)
    BY <1>2
  <2>2. Len(items[k + 1]) \in Nat /\ j \in 0 .. Len(items[k + 1]) - 1
    BY <1>2, <2>1, ItemsType, VocabularyType
  <2> QED
    BY <1>1, <1>2, <2>1, <2>2, LeftStep
<1>3. /\ k = Len(items)
      /\ Settled(b.parser, binary, FlatFirst(Texts(items, binary), k), FlatFirst(Meanings(items), k))
      /\ b.text = FlattenSeq(Texts(items, binary)) /\ b.seen = FlattenSeq(Meanings(items))
  BY <1>2 DEF ServerRead
<1>4. /\ FlatFirst(Texts(items, binary), k) = FlattenSeq(Texts(items, binary))
      /\ FlatFirst(Meanings(items), k) = FlattenSeq(Meanings(items))
  BY <1>1, <1>3, FlatFirstGrows
<1> QED
  BY <1>3, <1>4 DEF Settled, AtByte

-----------------------------------------------------------------------------
(* What was typed, echoed as it was sent.                                  *)

\* Every line feed follows a carriage return.
WholeEnds(s) == \A m \in 1 .. Len(s) : s[m] = "LF" => m > 1 /\ s[m - 1] = "CR"

Lines(s) ==
  [k \in 1 .. Len(s) |->
     IF ~ (s[k] = "LF" /\ k > 1 /\ s[k - 1] = "CR")
     THEN IF s[k] \in {"CR", "LF"} THEN <<"CR", "LF">> ELSE <<s[k]>>
     ELSE <<>>]

LEMMA NormalizeIs ==
  ASSUME NEW s
  PROVE  NormalizeNewlines(s) = FlattenSeq(Lines(s))
BY DEF NormalizeNewlines, Lines

LEMMA TypedPieces ==
  /\ <<"CR", "LF">> \in Seq(Typed) /\ <<"x">> \in Seq(Typed)
  /\ <<"IAC">> \in Seq(Typed) /\ <<>> \in Seq(Typed)
BY DEF Typed

LEMMA WholeEndsGrow ==
  ASSUME NEW u \in Seq(Typed), WholeEnds(u),
         NEW w \in {<<"CR", "LF">>, <<"x">>, <<"IAC">>, <<>>}
  PROVE  WholeEnds(u \o w)
<1>1. w \in Seq(Typed) /\ WholeEnds(w)
  <2>1. w \in Seq(Typed)
    BY TypedPieces
  <2>2. WholeEnds(<<"CR", "LF">>)
    <3>1. Len(<<"CR", "LF">>) = 2 /\ <<"CR", "LF">>[1] = "CR" /\ <<"CR", "LF">>[2] = "LF"
      OBVIOUS
    <3>2. \A m \in 1 .. 2 : m = 1 \/ (m = 2 /\ m - 1 = 1 /\ m > 1)
      OBVIOUS
    <3> QED
      BY <3>1, <3>2 DEF WholeEnds
  <2>3. WholeEnds(<<"x">>) /\ WholeEnds(<<"IAC">>) /\ WholeEnds(<<>>)
    BY DEF WholeEnds
  <2> QED
    BY <2>1, <2>2, <2>3
<1> SUFFICES ASSUME NEW m \in 1 .. Len(u \o w), (u \o w)[m] = "LF"
             PROVE  m > 1 /\ (u \o w)[m - 1] = "CR"
  BY DEF WholeEnds
<1>2. /\ Len(u \o w) = Len(u) + Len(w) /\ Len(u) \in Nat /\ Len(w) \in Nat
      /\ \A n \in 1 .. Len(u) : (u \o w)[n] = u[n]
      /\ \A n \in 1 .. Len(w) : (u \o w)[Len(u) + n] = w[n]
  BY <1>1
<1> DEFINE v == u \o w
<1> HIDE DEF v
<1>3. CASE m <= Len(u)
  <2>1. m \in 1 .. Len(u) /\ u[m] = "LF"
    BY <1>2, <1>3
  <2>2. m > 1 /\ u[m - 1] = "CR" /\ m - 1 \in 1 .. Len(u)
    BY <2>1 DEF WholeEnds
  <2> QED
    BY <1>2, <2>2
<1>4. CASE m > Len(u)
  <2> DEFINE n == m - Len(u)
  <2>1. n \in 1 .. Len(w) /\ m = Len(u) + n /\ w[n] = "LF"
    BY <1>2, <1>4
  <2>2. n > 1 /\ w[n - 1] = "CR" /\ n - 1 \in 1 .. Len(w)
    BY <1>1, <2>1 DEF WholeEnds
  <2>3. m - 1 = Len(u) + (n - 1) /\ m > 1
    BY <1>2, <2>1, <2>2
  <2> QED
    BY <1>2, <2>2, <2>3
<1> QED
  BY <1>2, <1>3, <1>4

LEMMA NormalizedEnds ==
  ASSUME NEW s \in Seq(Typed)
  PROVE  NormalizeNewlines(s) \in Seq(Typed) /\ WholeEnds(NormalizeNewlines(s))
<1> DEFINE ss == Lines(s)
           Pieces == {<<"CR", "LF">>, <<"x">>, <<"IAC">>, <<>>}
<1>1. \A k \in 1 .. Len(s) : ss[k] \in Pieces
  BY DEF Lines, Typed
<1>2. \A w \in Pieces : w \in Seq(Typed)
  BY TypedPieces
<1>3. ss \in Seq(Seq(Typed)) /\ Len(ss) = Len(s) /\ Len(s) \in Nat
  <2>1. \A k \in 1 .. Len(s) : ss[k] \in Seq(Typed)
    BY <1>1, <1>2
  <2>2. ss = [k \in 1 .. Len(s) |-> ss[k]]
    BY DEF Lines
  <2> HIDE DEF ss
  <2> QED
    BY <2>1, <2>2
<1> HIDE DEF ss
<1> DEFINE A == {k \in Nat : k <= Len(ss) => WholeEnds(FlatFirst(ss, k))}
<1>4. 0 \in A
  <2>1. 0 \in 0 .. Len(ss)
    BY <1>3
  <2>2. FlatFirst(ss, 0) = <<>>
    BY <1>3, <2>1, FlatFirstGrows
  <2> QED
    BY <2>2 DEF WholeEnds
<1>5. ASSUME NEW k \in Nat, k \in A PROVE k + 1 \in A
  <2> SUFFICES ASSUME k + 1 <= Len(ss) PROVE WholeEnds(FlatFirst(ss, k + 1))
    OBVIOUS
  <2>1. k \in 0 .. Len(ss) /\ k < Len(ss) /\ k + 1 \in 1 .. Len(s) /\ WholeEnds(FlatFirst(ss, k))
    BY <1>3, <1>5
  <2>2. FlatFirst(ss, k) \in Seq(Typed) /\ FlatFirst(ss, k + 1) = FlatFirst(ss, k) \o ss[k + 1]
    BY <1>3, <2>1, FlatFirstGrows
  <2>3. ss[k + 1] \in Pieces
    BY <1>1, <2>1
  <2> QED
    BY <2>1, <2>2, <2>3, WholeEndsGrow
<1>6. \A k \in Nat : k \in A
  <2> HIDE DEF A
  <2> QED
    BY <1>4, <1>5, SetInduction
<1>7. WholeEnds(FlatFirst(ss, Len(ss)))
  BY <1>3, <1>6
<1>8. FlatFirst(ss, Len(ss)) = FlattenSeq(ss) /\ FlattenSeq(ss) \in Seq(Typed)
  <2>1. Len(ss) \in 0 .. Len(ss)
    BY <1>3
  <2> QED
    BY <1>3, <2>1, FlatFirstGrows, FlattenType
<1> QED
  BY <1>7, <1>8, NormalizeIs DEF ss

Escaped(s) == [k \in 1 .. Len(s) |-> IF s[k] = "IAC" THEN <<"IAC", "IAC">> ELSE <<s[k]>>]

LEMMA EscapedType ==
  ASSUME NEW s \in Seq(Typed)
  PROVE  /\ Escaped(s) \in Seq(Seq(Symbols)) /\ Len(Escaped(s)) = Len(s)
         /\ s \in Seq(Symbols)
         /\ EscapeIac(s) = FlattenSeq(Escaped(s))
         /\ \A k \in 1 .. Len(s) :
              /\ s[k] \in {"x", "LF", "CR", "IAC"}
              /\ s[k] = "IAC" => /\ Escaped(s)[k][1] = "IAC" /\ Escaped(s)[k][2] = "IAC"
                                /\ Len(Escaped(s)[k]) = 2
              /\ s[k] # "IAC" => Escaped(s)[k][1] = s[k] /\ Len(Escaped(s)[k]) = 1
              /\ 0 \in 0 .. Len(Escaped(s)[k]) - 1
<1>1. \A k \in 1 .. Len(s) : s[k] \in {"x", "LF", "CR", "IAC"} /\ s[k] \in Symbols
  BY DEF Typed, Symbols
<1>2. <<"IAC", "IAC">> \in Seq(Symbols) /\ s \in Seq(Symbols) /\ Len(s) \in Nat
  BY <1>1 DEF Symbols
<1>3. \A k \in 1 .. Len(s) : Escaped(s)[k] \in Seq(Symbols)
  BY <1>1, <1>2 DEF Escaped
<1>4. Escaped(s) = [k \in 1 .. Len(s) |-> Escaped(s)[k]]
  BY DEF Escaped
<1>5. Escaped(s) \in Seq(Seq(Symbols)) /\ Len(Escaped(s)) = Len(s)
  BY <1>2, <1>3, <1>4
<1>6. EscapeIac(s) = FlattenSeq(Escaped(s))
  BY DEF EscapeIac, Escaped
<1>7. ASSUME NEW k \in 1 .. Len(s)
      PROVE  /\ s[k] = "IAC" => /\ Escaped(s)[k][1] = "IAC" /\ Escaped(s)[k][2] = "IAC"
                                /\ Len(Escaped(s)[k]) = 2
             /\ s[k] # "IAC" => Escaped(s)[k][1] = s[k] /\ Len(Escaped(s)[k]) = 1
             /\ 0 \in 0 .. Len(Escaped(s)[k]) - 1
  BY <1>7 DEF Escaped
<1> QED
  BY <1>1, <1>2, <1>5, <1>6, <1>7

\* k characters of what was typed are read, and j bytes of the next.
EchoRead(b, s, binary, k, j) ==
  /\ b.text = s /\ b.seen = <<>>
  /\ ~ binary => WholeEnds(s)
  /\ \E cr \in BOOLEAN :
       /\ AtByte(b.parser, binary, IF j = 0 THEN "Data" ELSE "Iac", cr, SubSeq(s, 1, k), <<>>)
       /\ ~ binary /\ k > 0 /\ s[k] = "CR" => cr
  /\ \/ k = Len(s) /\ j = 0 /\ b.todo = <<>>
     \/ /\ k < Len(s) /\ b.todo = Left(Escaped(s), k, j)
        /\ j = 0 \/ (j = 1 /\ s[k + 1] = "IAC")

LEMMA OnDataIac ==
  ASSUME NEW p, NEW binary \in BOOLEAN, NEW cr \in BOOLEAN, NEW out, NEW cmds,
         AtByte(p, binary, "Data", cr, out, cmds)
  PROVE  AtByte(ReceiveByte(p, "IAC"), binary, "Iac", cr, out, cmds)
BY OnData

LEMMA OnBinary ==
  ASSUME NEW p, NEW binary \in BOOLEAN, binary, NEW cr \in BOOLEAN, NEW out, NEW cmds,
         AtByte(p, binary, "Data", cr, out, cmds), NEW c \in {"x", "LF", "CR", "NUL"}
  PROVE  AtByte(ReceiveByte(p, c), TRUE, "Data", FALSE, Append(out, c), cmds)
BY OnData

LEMMA Position ==
  \A j \in 0 .. 1 : \A n : (n = 2 \/ (n = 1 /\ j = 0)) => j \in 0 .. n - 1
OBVIOUS

LEMMA EchoReadStep ==
  ASSUME NEW b, NEW c, NEW s \in Seq(Typed), NEW binary \in BOOLEAN,
         NEW k \in 0 .. Len(s), NEW j \in 0 .. 1,
         EchoRead(b, s, binary, k, j), b.todo # <<>>,
         c.todo = Tail(b.todo), c.parser = ReceiveByte(b.parser, Head(b.todo)),
         c.text = b.text, c.seen = b.seen
  PROVE  \E m \in 0 .. Len(s), n \in 0 .. 1 : EchoRead(c, s, binary, m, n)
<1> DEFINE e == s[k + 1]
           ss == Escaped(s)
           w == ss[k + 1]
           out == SubSeq(s, 1, k)
           more == SubSeq(s, 1, k + 1)
<1>1. /\ k < Len(s) /\ b.todo = Left(ss, k, j) /\ (j = 0 \/ (j = 1 /\ e = "IAC"))
      /\ c.text = s /\ c.seen = <<>> /\ (~ binary => WholeEnds(s))
  BY DEF EchoRead
<1>2. PICK cr \in BOOLEAN :
        /\ AtByte(b.parser, binary, IF j = 0 THEN "Data" ELSE "Iac", cr, out, <<>>)
        /\ ~ binary /\ k > 0 /\ s[k] = "CR" => cr
  BY DEF EchoRead
<1>3. k + 1 \in 1 .. Len(s) /\ k + 1 \in 0 .. Len(s) /\ k \in 0 .. Len(s) - 1 /\ k \in Nat
  BY <1>1
<1>4. /\ ss \in Seq(Seq(Symbols)) /\ Len(ss) = Len(s) /\ s \in Seq(Symbols)
      /\ e \in {"x", "LF", "CR", "IAC"}
      /\ e = "IAC" => w[1] = "IAC" /\ w[2] = "IAC" /\ Len(w) = 2
      /\ e # "IAC" => w[1] = e /\ Len(w) = 1
  BY <1>3, EscapedType
<1>5. out \in Seq(Symbols) /\ more = Append(out, e) /\ out \o <<e>> = Append(out, e)
  <2>1. out \in Seq(Symbols) /\ e \in Symbols
    BY <1>3, <1>4
  <2>2. more = Append(out, e)
    <3>1. /\ more \in Seq(Symbols) /\ Append(out, e) \in Seq(Symbols)
          /\ Len(more) = k + 1 /\ Len(Append(out, e)) = k + 1
      BY <1>3, <1>4, <2>1
    <3>2. \A m \in 1 .. k + 1 : more[m] = Append(out, e)[m]
      BY <1>3, <1>4
    <3> QED
      BY <3>1, <3>2, SeqEqual
  <2> QED
    BY <2>1, <2>2, PutTogether
<1>6. /\ Head(b.todo) = w[j + 1]
      /\ j + 1 < Len(w) => c.todo = Left(ss, k, j + 1)
      /\ j + 1 = Len(w) => c.todo = FlatRest(ss, k + 1)
  <2>1. j \in 0 .. Len(w) - 1
    <3>1. /\ e = "IAC" => Len(w) = 2
          /\ e # "IAC" => Len(w) = 1 /\ j = 0
      BY <1>1, <1>4
    <3>2. Len(w) = 2 \/ (Len(w) = 1 /\ j = 0)
      BY <3>1, Zenon
    <3> QED
      BY <3>2, Position, Zenon
  <2> QED
    BY <1>1, <1>3, <1>4, <2>1, LeftStep
<1> HIDE DEF e, w
\* A character is whole: the reader is before the next one.
<1>7. ASSUME c.todo = FlatRest(ss, k + 1), NEW lf \in BOOLEAN,
             AtByte(c.parser, binary, "Data", lf, more, <<>>), ~ binary /\ e = "CR" => lf
      PROVE  EchoRead(c, s, binary, k + 1, 0)
  <2>1. \/ k + 1 = Len(s) /\ c.todo = <<>>
        \/ k + 1 < Len(s) /\ c.todo = Left(ss, k + 1, 0)
    <3>1. CASE k + 1 = Len(s)
      BY <1>3, <1>4, <1>7, <3>1, FlatRestShrinks
    <3>2. CASE k + 1 < Len(s)
      <4>1. k + 1 \in 0 .. Len(ss) - 1 /\ k + 1 + 1 \in 1 .. Len(s)
        BY <1>3, <1>4, <3>2
      <4>3. 0 \in 0 .. Len(ss[k + 1 + 1]) - 1
        BY <4>1, EscapedType
      <4> QED
        BY <1>4, <1>7, <3>2, <4>1, <4>3, LeftStep
    <3> QED
      BY <1>3, <3>1, <3>2
  <2>2. k + 1 > 0 /\ s[k + 1] = e
    BY <1>3 DEF e
  <2>3. AtByte(c.parser, binary, IF 0 = 0 THEN "Data" ELSE "Iac", lf, more, <<>>)
    BY <1>7
  <2> QED
    BY <1>1, <1>7, <2>1, <2>2, <2>3, Zenon DEF EchoRead
<1>8. CASE e = "IAC" /\ j = 0
  <2>1. Head(b.todo) = "IAC" /\ c.todo = Left(ss, k, 1)
    <3>1. w[1] = "IAC" /\ Len(w) = 2 /\ j = 0
      BY <1>4, <1>8, Zenon
    <3>2. 0 + 1 = 1 /\ 1 < 2
      OBVIOUS
    <3> QED
      BY <1>6, <3>1, <3>2, Zenon
  <2>2. AtByte(c.parser, binary, "Iac", cr, out, <<>>)
    <3>1. AtByte(b.parser, binary, "Data", cr, out, <<>>) /\ c.parser = ReceiveByte(b.parser, "IAC")
      BY <1>2, <1>8, <2>1
    <3> QED
      BY <3>1, OnDataIac
  <2>3. EchoRead(c, s, binary, k, 1)
    <3> HIDE DEF ss, out
    <3> QED
      BY <1>1, <1>2, <1>8, <2>1, <2>2 DEF EchoRead, ss, out, e, w
  <2> QED
    BY <2>3
<1>9. CASE e = "IAC" /\ j = 1
  <2>1. Head(b.todo) = "IAC" /\ c.todo = FlatRest(ss, k + 1)
    BY <1>4, <1>6, <1>9
  <2>2. AtByte(c.parser, binary, "Data", cr, Append(out, "IAC"), <<>>)
    <3>1. AtByte(b.parser, binary, "Iac", cr, out, <<>>)
      BY <1>2, <1>9
    <3> QED
      BY <2>1, <3>1, OnIac
  <2>3. AtByte(c.parser, binary, "Data", cr, more, <<>>)
    BY <1>5, <1>9, <2>2
  <2> QED
    BY <1>3, <1>7, <1>9, <2>1, <2>3
<1>10. CASE e # "IAC"
  <2>1. j = 0 /\ Head(b.todo) = e /\ c.todo = FlatRest(ss, k + 1) /\ e \in {"x", "LF", "CR"}
    BY <1>1, <1>4, <1>6, <1>10
  <2>2. AtByte(b.parser, binary, "Data", cr, out, <<>>) /\ c.parser = ReceiveByte(b.parser, e)
    BY <1>2, <2>1
  <2>3. CASE binary
    <3>1. AtByte(c.parser, TRUE, "Data", FALSE, Append(out, e), <<>>)
      <4>1. e \in {"x", "LF", "CR", "NUL"} /\ binary = TRUE
        BY <2>1, <2>3
      <4>2. AtByte(b.parser, binary, "Data", cr, out, <<>>)
        BY <2>2
      <4>3. AtByte(ReceiveByte(b.parser, e), TRUE, "Data", FALSE, Append(out, e), <<>>)
        BY <2>3, <4>1, <4>2, OnBinary
      <4> QED
        BY <2>2, <4>3
    <3>2. AtByte(c.parser, binary, "Data", FALSE, more, <<>>)
      BY <1>5, <2>3, <3>1
    <3> QED
      BY <1>3, <1>7, <2>1, <2>3, <3>2
  <2>4. CASE ~ binary
    <3>1. AtByte(b.parser, FALSE, "Data", cr, out, <<>>) /\ binary = FALSE
      BY <2>2, <2>4
    <3>2. AtByte(ReceiveByte(b.parser, "x"), FALSE, "Data", FALSE, out \o <<"x">>, <<>>)
      BY <3>1, OnText
    <3>3. AtByte(ReceiveByte(b.parser, "CR"), FALSE, "Data", TRUE, out \o <<"CR">>, <<>>)
      BY <3>1, OnText
    <3>4. ASSUME e = "LF"
          PROVE  AtByte(ReceiveByte(b.parser, "LF"), FALSE, "Data", FALSE, out \o <<"LF">>, <<>>)
      <4>1. k + 1 > 1 /\ s[k + 1 - 1] = "CR"
        BY <1>1, <1>3, <2>4, <3>4 DEF WholeEnds, e
      <4>2. k > 0 /\ s[k] = "CR"
        <5>1. k + 1 - 1 = k
          BY <1>3
        <5> QED
          BY <1>3, <4>1, <5>1
      <4>3. cr = TRUE
        BY <1>2, <2>4, <4>2
      <4> QED
        BY <3>1, <4>3, OnText
    <3>5. CASE e = "CR"
      <4>1. AtByte(c.parser, binary, "Data", TRUE, more, <<>>)
        BY <1>5, <2>2, <3>1, <3>3, <3>5
      <4> QED
        BY <1>3, <1>7, <2>1, <4>1
    <3>6. CASE e # "CR"
      <4>1. AtByte(c.parser, binary, "Data", FALSE, more, <<>>)
        BY <1>5, <2>1, <2>2, <3>1, <3>2, <3>4, <3>6
      <4> QED
        BY <1>3, <1>7, <2>1, <3>6, <4>1
    <3> QED
      BY <3>5, <3>6
  <2> QED
    BY <2>3, <2>4
<1> QED
  BY <1>8, <1>9, <1>10

LEMMA EchoReadInit ==
  ASSUME NEW typed \in Seq(Typed), NEW binary \in BOOLEAN
  PROVE  \E s \in Seq(Typed) : EchoRead(EchoedStream(typed, binary), s, binary, 0, 0)
<1> DEFINE b == EchoedStream(typed, binary)
           s == IF binary THEN typed ELSE NormalizeNewlines(typed)
           ss == Escaped(s)
<1>1. s \in Seq(Typed) /\ (~ binary => WholeEnds(s))
  BY NormalizedEnds
<1>2. /\ b.text = s /\ b.seen = <<>> /\ b.parser = NewParser(binary)
      /\ b.todo = EscapeIac(s)
  BY DEF EchoedStream, EncodeClientInput, EncodeClientInputBinary
<1> HIDE DEF b, s
<1>3. /\ ss \in Seq(Seq(Symbols)) /\ Len(ss) = Len(s) /\ s \in Seq(Symbols) /\ b.todo = FlattenSeq(ss)
      /\ \A k \in 1 .. Len(s) : 0 \in 0 .. Len(ss[k]) - 1
  BY <1>1, <1>2, EscapedType
<1> HIDE DEF ss
<1>4. AtByte(b.parser, binary, "Data", FALSE, SubSeq(s, 1, 0), <<>>)
  <2>1. SubSeq(s, 1, 0) = <<>>
    BY <1>3
  <2> QED
    BY <1>2, <2>1, NewParserSettled DEF Settled
<1>5. \/ 0 = Len(s) /\ b.todo = <<>>
      \/ 0 < Len(s) /\ b.todo = Left(ss, 0, 0)
  <2>1. CASE Len(s) = 0
    <3>1. ss = <<>>
      BY <1>3, <2>1
    <3> QED
      BY <1>3, <2>1, <3>1, FlattenEmpty
  <2>2. CASE Len(s) # 0
    <3>1. 0 \in 0 .. Len(ss) - 1 /\ 0 \in 0 .. Len(ss) /\ 0 + 1 \in 1 .. Len(s) /\ 0 < Len(s)
      BY <1>3, <2>2
    <3>2. 0 \in 0 .. Len(ss[0 + 1]) - 1
      BY <1>3, <3>1
    <3>3. FlatRest(ss, 0) = FlattenSeq(ss) /\ FlatRest(ss, 0) = Left(ss, 0, 0)
      BY <1>3, <3>1, <3>2, FlatRestShrinks, LeftStep
    <3> QED
      BY <1>3, <3>1, <3>3
  <2> QED
    BY <2>1, <2>2
<1>6. EchoRead(b, s, binary, 0, 0)
  <2>1. \E cr \in BOOLEAN :
          /\ AtByte(b.parser, binary, IF 0 = 0 THEN "Data" ELSE "Iac", cr, SubSeq(s, 1, 0), <<>>)
          /\ ~ binary /\ 0 > 0 /\ s[0] = "CR" => cr
    <3>1. ~ (0 > 0)
      OBVIOUS
    <3> QED
      BY <1>4, <3>1
  <2> QED
    BY <1>1, <1>2, <1>5, <2>1 DEF EchoRead, ss
<1> QED
  BY <1>1, <1>6 DEF b

LEMMA EchoReadDone ==
  ASSUME NEW b, NEW s \in Seq(Typed), NEW binary \in BOOLEAN, NEW k \in 0 .. Len(s),
         NEW j \in 0 .. 1, EchoRead(b, s, binary, k, j), b.todo = <<>>
  PROVE  b.parser.output = b.text /\ b.parser.commands = b.seen
<1> DEFINE ss == Escaped(s)
<1>1. ss \in Seq(Seq(Symbols)) /\ Len(ss) = Len(s) /\ s \in Seq(Symbols)
  BY EscapedType
<1>2. ASSUME k < Len(s), b.todo = Left(ss, k, j), j = 0 \/ (j = 1 /\ s[k + 1] = "IAC")
      PROVE  FALSE
  <2>1. k \in 0 .. Len(ss) - 1 /\ k + 1 \in 1 .. Len(s)
    BY <1>1, <1>2
  <2>2. j \in 0 .. Len(ss[k + 1]) - 1
    <3>1. CASE j = 0
      BY <2>1, <3>1, EscapedType
    <3>2. CASE j # 0
      <4>1. j = 1 /\ Len(ss[k + 1]) = 2
        BY <1>2, <2>1, <3>2, EscapedType
      <4> QED
        BY <4>1
    <3> QED
      BY <3>1, <3>2
  <2> HIDE DEF ss
  <2> QED
    BY <1>1, <1>2, <2>1, <2>2, LeftStep
<1>3. k = Len(s) /\ b.text = s /\ b.seen = <<>>
  BY <1>2 DEF EchoRead
<1>4. b.parser.output = SubSeq(s, 1, k) /\ b.parser.commands = <<>>
  BY DEF EchoRead, AtByte
<1>5. SubSeq(s, 1, Len(s)) = s
  BY <1>1, SubSeqFull
<1> QED
  BY <1>3, <1>4, <1>5

-----------------------------------------------------------------------------
\* What is read so far is what the stream means so far.
StreamInv ==
  \/ \E items \in Seq(StreamVocabulary), binary \in BOOLEAN :
       \E k \in 0 .. Len(items), j \in Nat : ServerRead(bytes, items, binary, k, j)
  \/ \E s \in Seq(Typed), binary \in BOOLEAN :
       \E k \in 0 .. Len(s), j \in 0 .. 1 : EchoRead(bytes, s, binary, k, j)

\* The byte layer keeps its fields.
BytesShape ==
  \E todo, parser, text, seen : bytes = [todo |-> todo, parser |-> parser, text |-> text, seen |-> seen]

LEMMA StreamInit == TelnetInit => StreamInv /\ BytesShape
<1> SUFFICES ASSUME TelnetInit PROVE StreamInv /\ BytesShape
  OBVIOUS
<1>1. PICK n \in 0 .. StreamItems, binary \in BOOLEAN :
        bytes \in {ServerStream(items, binary) : items \in [1 .. n -> StreamVocabulary]}
                    \cup {EchoedStream(typed, binary) : typed \in [1 .. n -> Typed]}
  BY DEF TelnetInit
<1>2. n \in Nat
  BY TelnetAssumption
<1>3. ASSUME NEW items \in [1 .. n -> StreamVocabulary], bytes = ServerStream(items, binary)
      PROVE  StreamInv /\ BytesShape
  <2>1. items \in Seq(StreamVocabulary) /\ 0 \in 0 .. Len(items)
    BY <1>2
  <2>2. StreamInv
    BY <1>3, <2>1, ServerReadInit DEF StreamInv
  <2>3. BytesShape
    BY <1>3, Zenon DEF BytesShape, ServerStream
  <2> QED
    BY <2>2, <2>3
<1>4. ASSUME NEW typed \in [1 .. n -> Typed], bytes = EchoedStream(typed, binary)
      PROVE  StreamInv /\ BytesShape
  <2>1. typed \in Seq(Typed)
    BY <1>2
  <2>2. PICK s \in Seq(Typed) : EchoRead(EchoedStream(typed, binary), s, binary, 0, 0)
    BY <2>1, EchoReadInit
  <2>3. 0 \in 0 .. Len(s)
    OBVIOUS
  <2>4. StreamInv
    BY <1>4, <2>2, <2>3 DEF StreamInv
  <2>5. BytesShape
    BY <1>4, Zenon DEF BytesShape, EchoedStream
  <2> QED
    BY <2>4, <2>5
<1> QED
  BY <1>1, <1>3, <1>4

LEMMA StreamStep == StreamInv /\ BytesShape /\ [TelnetNext]_telnetVars => StreamInv' /\ BytesShape'
<1> SUFFICES ASSUME StreamInv, BytesShape, [TelnetNext]_telnetVars PROVE StreamInv' /\ BytesShape'
  OBVIOUS
<1>1. ASSUME UNCHANGED bytes PROVE StreamInv' /\ BytesShape'
  BY <1>1 DEF StreamInv, BytesShape
<1>2. ASSUME ByteArrives PROVE StreamInv' /\ BytesShape'
  <2>1. PICK todo, parser, text, seen :
          bytes = [todo |-> todo, parser |-> parser, text |-> text, seen |-> seen]
    BY DEF BytesShape
  <2>2. /\ bytes.todo # <<>>
        /\ bytes' = [todo |-> Tail(bytes.todo), parser |-> ReceiveByte(bytes.parser, Head(bytes.todo)),
                     text |-> bytes.text, seen |-> bytes.seen]
    BY <1>2, <2>1 DEF ByteArrives
  <2>3. /\ (bytes').todo = Tail(bytes.todo) /\ (bytes').text = bytes.text
        /\ (bytes').parser = ReceiveByte(bytes.parser, Head(bytes.todo)) /\ (bytes').seen = bytes.seen
    BY <2>2
  <2>4. BytesShape'
    BY <2>2, Zenon DEF BytesShape
  <2>5. ASSUME NEW items \in Seq(StreamVocabulary), NEW binary \in BOOLEAN,
               NEW k \in 0 .. Len(items), NEW j \in Nat, ServerRead(bytes, items, binary, k, j)
        PROVE  StreamInv'
    <3>1. \E m \in 0 .. Len(items), n \in Nat : ServerRead(bytes', items, binary, m, n)
      BY <2>2, <2>3, <2>5, ServerReadStep
    <3> QED
      BY <3>1 DEF StreamInv
  <2>6. ASSUME NEW s \in Seq(Typed), NEW binary \in BOOLEAN,
               NEW k \in 0 .. Len(s), NEW j \in 0 .. 1, EchoRead(bytes, s, binary, k, j)
        PROVE  StreamInv'
    <3>1. \E m \in 0 .. Len(s), n \in 0 .. 1 : EchoRead(bytes', s, binary, m, n)
      BY <2>2, <2>3, <2>6, EchoReadStep
    <3> QED
      BY <3>1 DEF StreamInv
  <2> QED
    BY <2>4, <2>5, <2>6 DEF StreamInv
<1>3. ByteArrives \/ UNCHANGED bytes
  BY DEF TelnetNext, telnetVars, ClientReceives, ClientResizes, ServerReceives, ServerAsks
<1> QED
  BY <1>1, <1>2, <1>3

(* The byte layer of telnet/protocol.rs: whatever the pieces in which the  *)
(* bytes arrive, a reader that is through a stream of either kind has the  *)
(* text and the commands that the stream means (StreamUnderstood).  The    *)
(* invariant: what is read is the meaning of the items before, or of the   *)
(* characters that were typed, and what is left to read is the rest.       *)
THEOREM StreamsUnderstood == TelnetSpec => []StreamUnderstood
<1>1. TelnetSpec => [](StreamInv /\ BytesShape)
  BY StreamInit, StreamStep, PTL DEF TelnetSpec
<1>2. StreamInv => StreamUnderstood
  BY ServerReadDone, EchoReadDone DEF StreamInv, StreamUnderstood
<1> QED
  BY <1>1, <1>2, PTL

-----------------------------------------------------------------------------

(* The components side by side, each by its own specification, keep their  *)
(* types, their counters and their bounds.                                 *)
THEOREM ConnectionsTypes == ConnectionsSpec => []ConnectionsTypeOK
BY TransferTypes, ConnectTyped, TasksTypes, ForwardTyped, TelnetTyped, PTL
   DEF ConnectionsSpec, ConnectionsTypeOK
=============================================================================
