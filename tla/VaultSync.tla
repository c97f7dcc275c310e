------------------------------ MODULE VaultSync ------------------------------
(***************************************************************************)
(* The synchronisation of the encrypted vault: several devices, each with  *)
(* its database, push whole-vault envelopes to one object kept by a        *)
(* provider.  A sync session fetches the object, imports it into the       *)
(* database, seals the database into a new envelope, records the envelope  *)
(* in the local metadata and only then pushes it.  Every one of these is a *)
(* transaction or a request of its own: the user edits between them, other *)
(* devices push between them, the network and the process fail between     *)
(* them.                                                                   *)
(*                                                                         *)
(* Data is abstracted to one stamp per row.  A later edit has a larger     *)
(* stamp, and 0 stands for a row that is absent; SyncRecords models how    *)
(* stamps are made and compared.  The envelope's tag (ETag, blob SHA or    *)
(* content hash) is the envelope itself: two envelopes never have the same *)
(* bytes, because each has its own random snapshot id and nonce.           *)
(***************************************************************************)
EXTENDS Naturals, FiniteSets

CONSTANTS
    Devices,        \* devices that share the vault
    Sessions,       \* sync sessions: the scheduler's isolate, the settings page's isolate
    DeviceOf,       \* DeviceOf[s]: the device whose database session s has open
    Records,        \* rows of the synchronised tables
    Transport,      \* "github", "gist", "object", or "object_unconditional"
    Strategies,     \* the merge strategies in use
    MaxAttempts,    \* attempts of one sync (3 in the code)
    Budget,         \* how often the environment may act: see Interruptions
    MaxEdits,       \* bound: edits made by the users
    MaxSnapshots,   \* bound: envelopes sealed
    SyncWhenClean   \* bound: FALSE leaves out the syncs that have nothing to carry

\* What the environment does a bounded number of times.
Interruptions == {"outage", "crash", "restore", "forget"}

ASSUME SessionsAssumption == DeviceOf \in [Sessions -> Devices]

ASSUME TransportAssumption ==
    Transport \in {"github", "gist", "object", "object_unconditional"}

ASSUME StrategiesAssumption ==
    Strategies \subseteq {"smart_merge", "local_wins", "remote_wins"}

ASSUME BoundsAssumption ==
    /\ MaxAttempts \in Nat \ {0}
    /\ Budget \in [Interruptions -> Nat]
    /\ MaxEdits \in Nat
    /\ MaxSnapshots \in Nat
    /\ SyncWhenClean \in BOOLEAN

VARIABLES
    remote,     \* the envelope the provider stores
    history,    \* every envelope the provider has stored
    data,       \* data[d]: rows in the database of device d
    clock,      \* stamp of the latest edit on any device
    meta,       \* meta[d]: the sync rows of app_metadata on device d
    acked,      \* acked[d]: the sync_providers checkpoint of device d
    sess,       \* sess[s]: the local variables of sync session s
    minted,     \* envelopes sealed so far: the source of fresh identities
    spent       \* spent[i]: how often interruption i has happened

vars == <<remote, history, data, clock, meta, acked, sess, minted, spent>>

-----------------------------------------------------------------------------
(* Data *)

Stamps == 0 .. MaxEdits
Ids == 0 .. MaxSnapshots        \* vaults and snapshots; 0 is none
Vaults == Ids \ {0}
Revisions == 0 .. MaxSnapshots

Rows == [Records -> Stamps]
NoRows == [r \in Records |-> 0]

Envelopes == [vault : Ids, revision : Revisions, snapshot : Ids, rows : Rows]
NoEnvelope == [vault |-> 0, revision |-> 0, snapshot |-> 0, rows |-> NoRows]

\* vault: the vault whose key is in sync_dek (0: no key). revision: the revision in
\* sync_envelope_header. seen: the sync_revision rows of the provider, by vault.
Metadata == [vault : Ids, revision : Revisions, seen : [Vaults -> Revisions]]
NoMetadata == [vault |-> 0, revision |-> 0, seen |-> [v \in Vaults |-> 0]]

Phases == {"idle", "fetch", "import", "seal", "remember", "push", "put",
           "acknowledge", "retry", "abort", "clear"}

SessionStates ==
    [phase    : Phases,
     attempt  : 0 .. MaxAttempts - 1,
     strategy : {"smart_merge", "local_wins", "remote_wins"},
     fetched  : Envelopes,                             \* the object the session read
     base     : [vault : Ids, revision : Revisions],   \* the header it will succeed
     sealed   : Envelopes,                             \* the envelope it will push
     saved    : Metadata]                              \* its snapshot of the metadata

IdleSession ==
    [phase |-> "idle", attempt |-> 0, strategy |-> "smart_merge",
     fetched |-> NoEnvelope, base |-> [vault |-> 0, revision |-> 0],
     sealed |-> NoEnvelope, saved |-> NoMetadata]

TypeOK ==
    /\ remote \in Envelopes
    /\ history \subseteq Envelopes
    /\ data \in [Devices -> Rows]
    /\ clock \in Stamps
    /\ meta \in [Devices -> Metadata]
    /\ acked \in [Devices -> Revisions]
    /\ sess \in [Sessions -> SessionStates]
    /\ minted \in Ids
    /\ spent \in [Interruptions -> Nat]

Greater(i, j) == IF i >= j THEN i ELSE j

\* The newer stamp of each row (merge_record keeps a row that is not older).
NewestRows(a, b) == [r \in Records |-> Greater(a[r], b[r])]

IsObject == Transport \in {"object", "object_unconditional"}

Init ==
    /\ remote = NoEnvelope
    /\ history = {}
    /\ data = [d \in Devices |-> NoRows]
    /\ clock = 0
    /\ meta = [d \in Devices |-> NoMetadata]
    /\ acked = [d \in Devices |-> 0]
    /\ sess = [s \in Sessions |-> IdleSession]
    /\ minted = 0
    /\ spent = [i \in Interruptions |-> 0]

Spend(i) ==
    /\ spent[i] < Budget[i]
    /\ spent' = [spent EXCEPT ![i] = @ + 1]

At(s, phase) == sess[s].phase = phase
GoTo(s, phase) == sess' = [sess EXCEPT ![s].phase = phase]
Leave(s) == sess' = [sess EXCEPT ![s] = IdleSession]

-----------------------------------------------------------------------------
(* The user and the scheduler *)

\* The user writes a row: the main connection commits it whatever the sessions do.
Edit(d, r) ==
    /\ clock < MaxEdits
    /\ clock' = clock + 1
    /\ data' = [data EXCEPT ![d][r] = clock + 1]
    /\ UNCHANGED <<remote, history, meta, acked, sess, minted, spent>>

\* The rows of the device and of the vault differ.
Dirty(d) == data[d] # remote.rows

\* The interval of the scheduler has passed, or the user presses Sync Now.
Begin(s) ==
    /\ At(s, "idle")
    /\ SyncWhenClean \/ Dirty(DeviceOf[s])
    /\ \E strategy \in Strategies :
          sess' = [sess EXCEPT ![s].phase = "fetch", ![s].strategy = strategy]
    /\ UNCHANGED <<remote, history, data, clock, meta, acked, minted, spent>>

-----------------------------------------------------------------------------
(* Leaving an attempt *)

\* An error after the metadata snapshot: the object transports restore it.
GiveUp(s) == IF IsObject THEN GoTo(s, "abort") ELSE Leave(s)

\* A retryable answer: another attempt if one is left.
TryAgain(s) ==
    IF sess[s].attempt + 1 = MaxAttempts
    THEN GiveUp(s)
    ELSE IF IsObject
         THEN GoTo(s, "retry")
         ELSE sess' = [sess EXCEPT ![s] = [IdleSession EXCEPT
                         !.phase = "fetch", !.attempt = sess[s].attempt + 1,
                         !.strategy = sess[s].strategy]]

\* Mutant of Retry: the next attempt starts from the metadata of the failed one.
RetryAsIs(s) ==
    /\ At(s, "retry")
    /\ sess' = [sess EXCEPT ![s] = [IdleSession EXCEPT
                  !.phase = "fetch", !.attempt = sess[s].attempt + 1,
                  !.strategy = sess[s].strategy]]
    /\ UNCHANGED <<remote, history, data, clock, meta, acked, minted, spent>>

\* restore_sync_metadata, then the next attempt.
Retry(s) ==
    /\ At(s, "retry")
    /\ meta' = [meta EXCEPT ![DeviceOf[s]] = sess[s].saved]
    /\ sess' = [sess EXCEPT ![s] = [IdleSession EXCEPT
                  !.phase = "fetch", !.attempt = sess[s].attempt + 1,
                  !.strategy = sess[s].strategy]]
    /\ UNCHANGED <<remote, history, data, clock, acked, minted, spent>>

\* Mutant of Abort: the error is returned and the metadata stays.
AbortAsIs(s) ==
    /\ At(s, "abort")
    /\ Leave(s)
    /\ UNCHANGED <<remote, history, data, clock, meta, acked, minted, spent>>

\* restore_sync_metadata, then the error is returned.
Abort(s) ==
    /\ At(s, "abort")
    /\ meta' = [meta EXCEPT ![DeviceOf[s]] = sess[s].saved]
    /\ Leave(s)
    /\ UNCHANGED <<remote, history, data, clock, acked, minted, spent>>

-----------------------------------------------------------------------------
(* Fetching *)

Fetch(s) ==
    /\ At(s, "fetch")
    /\ sess' = [sess EXCEPT ![s].phase = "import", ![s].fetched = remote]
    /\ UNCHANGED <<remote, history, data, clock, meta, acked, minted, spent>>

\* The provider cannot be reached.
FetchFails(s) ==
    /\ At(s, "fetch")
    /\ Spend("outage")
    /\ Leave(s)
    /\ UNCHANGED <<remote, history, data, clock, meta, acked, minted>>

\* The object changes between the stat and the conditional read of fetch_current.
FetchConflict(s) ==
    /\ At(s, "fetch")
    /\ Transport = "object"
    /\ sess[s].attempt + 1 < MaxAttempts
    /\ Spend("outage")
    /\ sess' = [sess EXCEPT ![s].attempt = @ + 1]
    /\ UNCHANGED <<remote, history, data, clock, meta, acked, minted>>

-----------------------------------------------------------------------------
(* sync_file: import, seal, remember *)

\* The checks of sync_file on the envelope it found: same vault, no older revision.
SameVault(m, envelope) == m.vault \in {0, envelope.vault}
NotRolledBack(m, envelope) == envelope.revision >= m.seen[envelope.vault]

Acceptable(m, envelope) ==
    envelope # NoEnvelope => SameVault(m, envelope) /\ NotRolledBack(m, envelope)

\* Mutants of Imported: the import replaces newer local rows; it takes nothing.
ImportedReplacing(s, rows) ==
    IF sess[s].fetched = NoEnvelope THEN rows ELSE sess[s].fetched.rows
ImportedNothing(s, rows) == rows

\* With no envelope there are no fetched rows, and a merge with them changes nothing.
Imported(s, rows) ==
    CASE sess[s].strategy = "smart_merge" -> NewestRows(rows, sess[s].fetched.rows)
      [] sess[s].strategy = "local_wins" -> rows
      [] OTHER -> IF sess[s].fetched = NoEnvelope THEN rows ELSE sess[s].fetched.rows

\* Mutants of SucceededHeader: the revision of the device alone, or of the object alone.
HeaderOfDevice(m, envelope) ==
    [vault |-> IF m.vault # 0 THEN m.vault ELSE envelope.vault, revision |-> m.revision]
HeaderOfObject(m, envelope) ==
    [vault |-> IF m.vault # 0 THEN m.vault ELSE envelope.vault, revision |-> envelope.revision]

\* The header the new envelope succeeds: the local one, at the larger revision.
SucceededHeader(m, envelope) ==
    [vault    |-> IF m.vault # 0 THEN m.vault ELSE envelope.vault,
     revision |-> Greater(m.revision, envelope.revision)]

Import(s) ==
    LET d == DeviceOf[s] IN
    /\ At(s, "import")
    /\ Acceptable(meta[d], sess[s].fetched)
    /\ data' = [data EXCEPT ![d] = Imported(s, data[d])]
    /\ sess' = [sess EXCEPT ![s].phase = "seal", ![s].saved = meta[d],
                  ![s].base = SucceededHeader(meta[d], sess[s].fetched)]
    /\ UNCHANGED <<remote, history, clock, meta, acked, minted, spent>>

\* "already linked to a different sync vault" or "Refusing a possible rollback".
Refuse(s) ==
    LET d == DeviceOf[s] IN
    /\ At(s, "import")
    /\ ~ Acceptable(meta[d], sess[s].fetched)
    /\ IF IsObject
       THEN sess' = [sess EXCEPT ![s].phase = "abort", ![s].saved = meta[d]]
       ELSE Leave(s)
    /\ UNCHANGED <<remote, history, data, clock, meta, acked, minted, spent>>

\* The envelope made of the database as it is now. A device without a key makes a vault.
NewEnvelope(s) ==
    [vault    |-> IF sess[s].base.vault # 0 THEN sess[s].base.vault ELSE minted + 1,
     revision |-> sess[s].base.revision + 1,
     snapshot |-> minted + 1,
     rows     |-> data[DeviceOf[s]]]

\* export_payload, encrypt_payload, write_atomically and save_local_sync_state.
Seal(s) ==
    LET d == DeviceOf[s] IN
    /\ At(s, "seal")
    /\ minted < MaxSnapshots
    /\ minted' = minted + 1
    /\ sess' = [sess EXCEPT ![s].phase = "remember", ![s].sealed = NewEnvelope(s)]
    /\ meta' = [meta EXCEPT ![d].vault = NewEnvelope(s).vault,
                            ![d].revision = NewEnvelope(s).revision]
    /\ UNCHANGED <<remote, history, data, clock, acked, spent>>

\* export_payload, the encryption or a write of the staging file fails. At the bound on
\* snapshots every seal fails, so that the bound stops no session.
SealFails(s) ==
    /\ At(s, "seal")
    /\ \/ Spend("outage")
       \/ minted = MaxSnapshots /\ UNCHANGED spent
    /\ GiveUp(s)
    /\ UNCHANGED <<remote, history, data, clock, meta, acked, minted>>

\* Mutant of Remember: the revision is not recorded.
RememberNothing(s) ==
    /\ At(s, "remember")
    /\ GoTo(s, "push")
    /\ UNCHANGED <<remote, history, data, clock, meta, acked, minted, spent>>

\* remember_revision: the new revision counts as seen before it is pushed.
Remember(s) ==
    LET envelope == sess[s].sealed IN
    /\ At(s, "remember")
    /\ meta' = [meta EXCEPT ![DeviceOf[s]].seen[envelope.vault] = envelope.revision]
    /\ GoTo(s, "push")
    /\ UNCHANGED <<remote, history, data, clock, acked, minted, spent>>

-----------------------------------------------------------------------------
(* Pushing *)

\* The provider stores the envelope in place of the one it has.
Store(envelope) ==
    /\ remote' = envelope
    /\ history' = history \cup {envelope}

\* Mutant of Precondition: the push carries no tag.
NoPrecondition(s) == TRUE

\* The condition under which the provider itself takes the envelope.
Precondition(s) == Transport \in {"github", "object"} => remote = sess[s].fetched

PushAccepted(s) ==
    /\ \/ At(s, "push") /\ Transport # "object_unconditional"
       \/ At(s, "put")
    /\ Precondition(s)
    /\ Store(sess[s].sealed)
    /\ GoTo(s, "acknowledge")
    /\ UNCHANGED <<data, clock, meta, acked, minted, spent>>

\* A backend without conditional writes: compare first, write in a later request.
CheckUnchanged(s) ==
    /\ At(s, "push")
    /\ Transport = "object_unconditional"
    /\ remote = sess[s].fetched
    /\ GoTo(s, "put")
    /\ UNCHANGED <<remote, history, data, clock, meta, acked, minted, spent>>

\* The object changed since it was fetched.
PushConflict(s) ==
    /\ At(s, "push")
    /\ Transport # "gist"
    /\ remote # sess[s].fetched
    /\ TryAgain(s)
    /\ UNCHANGED <<remote, history, data, clock, meta, acked, minted, spent>>

\* GitHub answers 409 or a 5xx although the file is as it was: another file of the branch
\* was committed meanwhile, or the service failed before or after it applied the commit.
PushRetryable(s) ==
    /\ At(s, "push")
    /\ Transport = "github"
    /\ remote = sess[s].fetched
    /\ Spend("outage")
    /\ \/ UNCHANGED <<remote, history>>
       \/ Store(sess[s].sealed)
    /\ TryAgain(s)
    /\ UNCHANGED <<data, clock, meta, acked, minted>>

\* The request, or the answer to a request that was applied, is lost.
PushFails(s) ==
    /\ At(s, "push") \/ At(s, "put")
    /\ Spend("outage")
    /\ \/ UNCHANGED <<remote, history>>
       \/ /\ Transport = "object_unconditional" => At(s, "put")
          /\ Precondition(s)
          /\ Store(sess[s].sealed)
    /\ GiveUp(s)
    /\ UNCHANGED <<data, clock, meta, acked, minted>>

\* remember_sync_snapshot and remember_sync_provider_checkpoint.
Acknowledge(s) ==
    /\ At(s, "acknowledge")
    /\ acked' = [acked EXCEPT ![DeviceOf[s]] = sess[s].sealed.revision]
    /\ Leave(s)
    /\ UNCHANGED <<remote, history, data, clock, meta, minted, spent>>

-----------------------------------------------------------------------------
(* Restoring an old version, forgetting the key, crashing *)

\* The user puts an old version back in the provider, with that version's bytes. The
\* history page offers every version but the current one.
RestoreVersion(s) ==
    /\ At(s, "idle")
    /\ Spend("restore")
    /\ \E envelope \in history \ {remote} : Store(envelope)
    /\ GoTo(s, "clear")
    /\ UNCHANGED <<data, clock, meta, acked, minted>>

\* Mutant of ClearCheckpoint: the checkpoint of the restored provider stays.
ClearNothing(s) ==
    /\ At(s, "clear")
    /\ sess' = [sess EXCEPT ![s].phase = "fetch", ![s].strategy = "remote_wins"]
    /\ UNCHANGED <<remote, history, data, clock, meta, acked, minted, spent>>

\* clear_provider_revision_checkpoint, then a sync in which the provider wins.
ClearCheckpoint(s) ==
    /\ At(s, "clear")
    /\ meta' = [meta EXCEPT ![DeviceOf[s]].seen = [v \in Vaults |-> 0]]
    /\ sess' = [sess EXCEPT ![s].phase = "fetch", ![s].strategy = "remote_wins"]
    /\ UNCHANGED <<remote, history, data, clock, acked, minted, spent>>

\* The settings page deletes the key, the header and every revision checkpoint.
ForgetSyncKey(d) ==
    /\ Spend("forget")
    /\ meta' = [meta EXCEPT ![d] = NoMetadata]
    /\ UNCHANGED <<remote, history, data, clock, acked, sess, minted>>

\* The process of device d ends: its database stays as the last commit left it.
Crash(d) ==
    /\ Spend("crash")
    /\ sess' = [s \in Sessions |-> IF DeviceOf[s] = d THEN IdleSession ELSE sess[s]]
    /\ UNCHANGED <<remote, history, data, clock, meta, acked, minted>>

-----------------------------------------------------------------------------
(* Specification *)

\* What a running session does next by itself.
Proceed(s) ==
    \/ Fetch(s)
    \/ Import(s)
    \/ Refuse(s)
    \/ Seal(s)
    \/ Remember(s)
    \/ CheckUnchanged(s)
    \/ PushAccepted(s)
    \/ PushConflict(s)
    \/ Retry(s)
    \/ Abort(s)
    \/ Acknowledge(s)
    \/ ClearCheckpoint(s)

\* What the network does to it.
Disturb(s) ==
    \/ FetchFails(s)
    \/ FetchConflict(s)
    \/ SealFails(s)
    \/ PushRetryable(s)
    \/ PushFails(s)

Next ==
    \/ \E s \in Sessions : Begin(s) \/ Proceed(s) \/ Disturb(s) \/ RestoreVersion(s)
    \/ \E d \in Devices : Crash(d) \/ ForgetSyncKey(d) \/ \E r \in Records : Edit(d, r)

Spec == Init /\ [][Next]_vars

\* The scheduler fires again after every sync, and a session's own steps are taken by a
\* running isolate; the user's and the environment's steps are never promised.
Fairness == \A s \in Sessions : WF_vars(Begin(s)) /\ WF_vars(Proceed(s))

FairSpec == Spec /\ Fairness

-----------------------------------------------------------------------------
(* Properties *)

IdleDevice(d) == \A s \in Sessions : DeviceOf[s] = d => At(s, "idle")

\* No row the provider has stored is replaced by an older one or dropped: whatever another
\* device pushed between the fetch and the push of a session is in what the session pushes.
NoLostUpdate == [][\A r \in Records : remote'.rows[r] >= remote.rows[r]]_vars

\* Where the provider takes any write (gist) or the check is not part of the write, rows are
\* lost only to a session whose fetched object is no longer the stored one.
LostOnlyToStaleSession ==
    [][(\E r \in Records : remote'.rows[r] < remote.rows[r])
          => \E s \in Sessions : /\ sess[s].phase \in {"push", "put"}
                                 /\ remote' = sess[s].sealed
                                 /\ remote # sess[s].fetched]_vars

\* Every envelope stored has a larger revision than the one it replaces, so that a device
\* that compares revisions (reject_rollback, the remote status) can tell them apart.
RevisionAdvances == [][remote' # remote => remote'.revision > remote.revision]_vars

\* A device whose syncs have ended, in success or in error, can import what is stored: its
\* key is the key of the stored vault and nothing it recorded is newer than the object.
NextSyncAccepted == \A d \in Devices : IdleDevice(d) => Acceptable(meta[d], remote)

\* After a conflict the object fetched again is merged and never refused: re-fetch,
\* re-merge and retry is what the transports' conflict handling promises.
RetryAccepted ==
    \A s \in Sessions :
        At(s, "import") /\ sess[s].attempt > 0
            => Acceptable(meta[DeviceOf[s]], sess[s].fetched)

\* A session that refuses its object because "the sync vault revision moved backwards" is
\* right: the provider has stored the vault at a revision the device remembers, or a later one.
RollbackRefusalIsTrue ==
    \A s \in Sessions :
        LET m == meta[DeviceOf[s]]
            fetched == sess[s].fetched
        IN  /\ At(s, "import")
            /\ fetched # NoEnvelope
            /\ ~ NotRolledBack(m, fetched)
            => \E e \in history : /\ e.vault = fetched.vault
                                 /\ e.revision >= m.seen[fetched.vault]

\* The rollback guard of an idle device covers every revision a sync of it reported as done.
GuardCoversAcknowledged ==
    \A d \in Devices :
        IdleDevice(d) /\ acked[d] # 0 => meta[d].seen[meta[d].vault] >= acked[d]

\* A session that restores a version ends with a revision newer than every one stored
\* before, so that no device takes the restored vault for a rollback. (With smart merge as
\* the only strategy in use, a session in which the provider wins is a restore.)
RestoredAsNewRevision ==
    \A s \in Sessions :
        At(s, "acknowledge") /\ sess[s].strategy = "remote_wins"
            => \A e \in history : e # sess[s].sealed => e.revision < sess[s].sealed.revision

\* Once the users stop editing, every device and the vault come to hold the same rows.
EditsReachEveryDevice == <>[](\A d \in Devices : data[d] = remote.rows)

\* Smart merge over a transport with conditional writes is the abstract vault: every push
\* publishes rows of the device, every import learns rows of the vault, nothing else moves.
Vault == INSTANCE ReplicatedVault WITH store <- remote.rows, replica <- data

ImplementsVault == Vault!Spec
==============================================================================
