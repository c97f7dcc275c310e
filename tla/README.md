# Verification of Nauterm

Nauterm is a terminal workspace: a Flutter application (Dart, `src/lib`) over a
native library (Rust, `src/native/nauterm_ffi`). It keeps hosts, keys, snippets,
themes and histories in an encrypted SQLite database, runs SSH, Telnet, Mosh,
serial and local sessions, and synchronises the database between computers
through an encrypted file kept by a provider (a GitHub repository, a gist, an
object store, a cloud drive).

This directory holds TLA+ modules that model the parts of it where concurrency,
failure and ordering decide whether the user's data survives, TLC
configurations that check them on small instances, and proofs, checked by
TLAPS, that their main properties hold for every size of instance.

Three things decide what is modelled first. The synchronisation writes to state
that other computers also write, and nothing but its own protocol keeps two of
them from overwriting each other. The connections of the native library run on
threads of their own and are started, cancelled and closed by the interface at any
moment. And what the device keeps for itself, captures of sessions and a
database whose deletions no foreign key sees, has to survive crashes and deletions.

## The system

### Synchronisation

| Part | State it keeps | Operations | Hard behaviours |
|---|---|---|---|
| Sync engine (`sync.rs`) | `sync_dek`, `sync_envelope_header`, `sync_revision` rows of `app_metadata`; the envelope in a staging file | `sync_file`: check the envelope, import under a strategy, export, encrypt, save the metadata | each step is a transaction of its own; the user writes between them |
| Orchestration (`database/repositories/sync.rs`) | `sync_providers` checkpoints, metadata snapshots, staging files | the attempt loops, restoring metadata after an error, restoring old versions, backups | conflicts, three attempts, errors after the metadata moved on, process ends anywhere |
| Transports (`object_sync.rs`, `s3_sync.rs`, `github_sync.rs`, `github_gist_sync.rs`, `cloud_sync.rs`) | the provider's object and its tag | fetch, conditional write, unconditional write, versions | other computers write in between; answers are lost; the comparison may not be part of the write |
| Record merge (`sync.rs` 900-1310, `database/schema.rs` triggers) | `uuid, updated_at, version, device_id, deleted_at` of each row | stamp, tombstone, merge by stamp | clocks of several computers, references to rows that are not there, unique names |
| Sync key (`sync.rs`, `settings_panel_sync.dart`) | the DEK on each device, its wrapping in every envelope | create, unlock, change the Master Key, forget | the change visits one provider after the other and may stop between any two |
| Scheduler (`lib/data/sync_service.dart`) | one timer, `_running`, `_refreshPending`, `_lastAttempt`, `_closed` | `start`, `preferencesChanged`, `close`, `_tick`, `_run` | settings change while a run holds older ones; close while a run is in progress |
| Configuration store (`lib/data/nauterm_config_store.dart`) | the JSON file, `_saveQueue` | load, save one section, write the default | every save is read, truncate, write; loads do not wait for saves |

The scheduler (main isolate) loads its settings from the configuration store and
starts a sync of the active provider on a worker isolate, which opens the
database through the native library; the settings page starts syncs, restores
and key changes the same way, on an isolate of its own. All of them meet in the
`app_metadata` table, in the rows of the database and in the provider's object;
no lock covers a session.

What makes it correct: an edit that a sync reported is never lost to another
computer's push; a failed or interrupted sync leaves a device that can sync
again; revisions tell a new envelope from an old one; the user always holds a key that
opens what is stored; the configured schedule runs, and under the settings
in force; saving one section of the configuration does not undo another.

### The rest of the native library

| Part | State and operations | Hard behaviours | Correct when |
|---|---|---|---|
| Database and repositories (`database.rs`, `database/*`) | SQLite tables whose rows name each other by uuid; one transaction per call, two for a host | an editor saves what it read before another window deleted it | no live row names a deleted one; every change gets a stamp that a merge sees |
| Local crypto vault (`crypto.rs`) | device key in the keyring, wrapped local key | no caller | - |
| Capture files (`capture_crypto.rs`, `recording_service.dart`, `terminal_recording_store.dart`) | chunked encrypted file, checkpoint sidecar, log row, files of a compaction | a crash between any two writes | what was reported saved is still there, and verifies |
| Sessions (`session.rs`, `ssh.rs`, `telnet.rs`, `serial.rs`, `pty.rs`, `mosh.rs`, `output_queue.rs`, `ffi/session.rs`) | sessions under one lock; a worker thread per connection with output, events, exit flag, callback | workers write while they are polled, dropped, joined | nothing waits without a wake-up; no callback after close; every call returns; ends are noticed |
| SSH connections (`ssh.rs`, `ssh/auth.rs`, `ssh/proxy.rs`, `ssh/probe.rs`) | known_hosts, one attempt per thread | several attempts at one unknown host | no credential before the host is trusted |
| SFTP (`ssh/sftp.rs`, task registry in `ssh.rs`) | remote files, cancel flags, cached privileged sessions | lost answers, cancels that overtake the start, sessions that break while shared | an upload never loses what it replaces; a cancel is not lost |
| Port forwarding (`port_forward.rs`) | a worker, a stop flag and a status for each rule | restart while the old worker connects, binds or carries connections | one worker holds the port; its count is right |
| Telnet protocol (`telnet/*`) | option state per side, parser of the bytes | requests that cross; commands cut anywhere | negotiation ends with both sides agreed |
| Terminal engine (`terminal.rs`) | suppression, pending command, blocks, the alacritty grid | output cut anywhere | the pieces do not matter |

### The rest of the application

| Part | State and operations | Hard behaviours |
|---|---|---|
| Terminal controllers, recording (`lib/terminal`) | connection state, recordings, input | reconnection, recordings that end with the process |
| AI conversations and command runner (`lib/ai`) | messages, the running request, marked command output | cancel while an answer streams or a command runs |
| Desktop update (`lib/update`) | download, digest, installation | interrupted downloads |
| Workspace, settings, windows (`lib/workspace`, `lib/settings`, `lib/window`) | widgets | - |
| Data bindings and importers (`lib/data`) | calls and parsers | - |
| Platform runners and scripts (`linux`, `macos`, `windows`, `script`) | - | - |
| Vendored code (`third_party`) | - | - |

`PROJECT.json` lists every component with what is modelled of it, and every
hazard at the line where it bites.

## Modules

| Module | What it is |
|---|---|
| `ReplicatedVault` | abstract: replicas and a vault that only learn newer rows |
| `VaultSync` | the sync sessions of any number of devices over one provider |
| `SyncKeyRotation` | the Master Key and its change over the connected providers |
| `SyncRecords` | hosts and tags as stamped rows: edits, triggers, the merge of an import |
| `ConfigStore` | the configuration file, its loads and its queue of saves |
| `SyncScheduler` | the automatic scheduler; EXTENDS `ConfigStore` and composes with it |
| `TerminalSession` | the session manager, the workers of every transport, wake-ups and shutdown |
| `SshConnect` | connection attempts: proxy, host key, authentication, purpose |
| `SftpTransfer` | what an SFTP task does to the remote files, request by request |
| `SftpTasks` | the registry of tasks and cancel flags, the cache of privileged sessions |
| `PortForward` | the forwarding manager, its workers and their connections |
| `TelnetProtocol` | option negotiation, window size and the byte layer |
| `TerminalCapture` | the encrypted capture of a session: sink, writer, save, compaction, crash, recovery |
| `LocalCatalog` | the rows of the database that refer to each other: editors, saves, deletes |
| `TerminalOutput` | what the engine does with output before the emulator |
| `Connections`, `LocalData` | the composition of the five connection modules, of the three local ones |
| `MCVaultSync`, `MCSyncKeyRotation`, `MCSyncRecords`, `MCSyncScheduler`, `MCTerminalSession` | instances for TLC |
| `MCConnections`, `MCLocalData` | instances of several components that share no state, one moved per behaviour |
| `VaultSync_proofs` | theorems about `VaultSync`: what it stores, and its guard, its link to a vault and its retries |
| `SyncKeyRotation_proofs`, `SyncRecords_proofs`, `TerminalSession_proofs` | theorems about the module of that name |
| `SyncScheduler_proofs` | theorems about `ConfigStore` and `SyncScheduler` |
| `LocalData_proofs` | theorems about `LocalCatalog`, `TerminalCapture`, `TerminalOutput` and the three together |
| `Connections_proofs` | theorems about `SshConnect`, `SftpTasks`, `PortForward`, `SftpTransfer`, `TelnetProtocol` and the five together |
| `SequenceLemmas` | induction over numbers, and the flattening of sequences, for those two |

### VaultSync

One action per request or transaction of a session, in the order of the code:

| Action | Code |
|---|---|
| `Begin` | the scheduler's run, or Sync Now |
| `Fetch`, `FetchFails`, `FetchConflict` | `fetch_current`, `fetch` of a transport |
| `Import`, `Refuse` | `snapshot_sync_metadata`, the checks of `sync_file`, `import_payload` |
| `Seal`, `SealFails` | `export_payload`, `encrypt_payload`, `write_atomically`, `save_local_sync_state` |
| `Remember` | `remember_revision` |
| `PushAccepted`, `PushConflict`, `CheckUnchanged`, `PushRetryable`, `PushFails` | the writes of the transports |
| `Retry`, `Abort` | `restore_sync_metadata`, then the next attempt or the error |
| `Acknowledge` | `remember_sync_snapshot`, `remember_sync_provider_checkpoint` |
| `RestoreVersion`, `ClearCheckpoint` | restore of an old version and the sync in which the provider wins |
| `ForgetSyncKey`, `Edit`, `Crash` | the settings page, the user, the end of the process |

`Transport` selects the code path: `object` and `object_unconditional` are
`object_sync.rs` with and without conditional writes; they restore the metadata
after an error. `github` compares the blob SHA in the write and restores
nothing. `gist` writes whatever is there.

Abstractions:

- A row is one stamp; a later edit of any device has a larger one, 0 is a row
  that is absent. How real stamps are made and compared (clocks, versions, device
  ids, references, unique names) is in `SyncRecords`.
- An envelope's tag is the envelope: each has its own random snapshot id and
  nonce, so two envelopes never have equal bytes.
- `Import` is one step although the code snapshots and reads the metadata in
  statements before the merge transaction; `Seal` is one step from the export to
  the saved header. Other sessions run before and after, not between. An export that
  reads one table before and another after an edit is not modelled.
- The sync session ends in an error when `Seal` fails; at the bound on envelopes
  every seal fails, so the bound is a behaviour the code has.
- Backoff is not timed: a retry may come at any later moment.
- The linked local file, without a provider, is not modelled.

### SyncKeyRotation

A session per device fetches, does the work of `sync_file` and pushes; a change
of the Master Key is a chain of sessions, one per connected provider, that the
first error ends. The vault's rows are left out; a header is its wrapping, its
revision and its maker. `told` is the key the user was last told is in force,
`offered` the new keys of changes not reported complete. A conflict ends the
session: what an attempt repeats is in `VaultSync`. A device without a
key joins by unlocking an envelope with the Master Key; such a device at an empty
provider would create another vault, which is left out, as are version restores.
`ForgetSyncKey` is taken between sessions.

### SyncRecords

A host is a row of columns under a stamp and a set of tags in another table; a
tag is a row with a name that no other active tag may have. They stand for the
synced tables: weak references, relations and unique indexes all behave like one of the two.

| Action | Code |
|---|---|
| `SaveHost`, `SaveTags` | the two commits of `save_host` |
| `SaveTag`, `DeleteTag` | `save_tag`, `delete_tag` |
| `Import` | `merge_payload`: tags, then hosts, in one transaction |
| `ExportHosts`, `Push` | `export_payload`: hosts, then tags, without a transaction; then the provider's conditional write |
| `Conflict`, `Crash` | the next attempt; the process ends between the commits of a save |

`LocalStamp` is what the repositories and the insert and update triggers write,
`WrittenBy` what the update trigger makes of a merged row. The columns of a host
are the number of the edit that wrote them, with the true time `at` of the edit and the tags
its user `chosen`: no code reads these three, the properties compare them with
the stamps. `flawed` is the edits whose tags were read or written apart from
their columns (an export or import between the commits of a save, a crash there)
or lost a tag deleted elsewhere; `TagsAsSaved` excepts them, and only them.

Abstractions: smart merge only, one session per device, provider with a comparison;
deleting a host is an edit of its row; clocks differ by a constant and never go
back. Sealing and sending an envelope takes longer than a unit of time, a
millisecond, so that no two edits of a row a sync apart share a time; at
`MaxTime` nobody edits. A session begins when device and vault differ.

The stamp of a row in the vault may decrease: a device that exports a row restamps
it with its own, smaller, id where the trigger took the merge for an edit. The content is
the same. `VaultSync`, whose rows are one stamp each, does not have this.

### ConfigStore and SyncScheduler

An operation of `ConfigStore` is the chain of awaited file operations of
`load`, `_save` and `ensureDefaultConfig`; between any two of them other
operations run. A configuration is its sync section and its runtime settings.
Two writes into one file without a truncation in between may leave bytes of both
(`Garbled`), which a load reports as an error.

`SyncScheduler` gives `_timer`, `_running`, `_refreshPending`, `_lastAttempt`
and `_closed` one variable each and has an action for the timer, for each way a
run goes on, and for the two outside calls. Its run loads through `ConfigStore`,
whose other users go on meanwhile. Time is counted in units of the shortest
interval; loads and saves take less than a unit, and the clock does not jump.

The settings page wakes the scheduler after its save only when the database save
beside it succeeds too, and a delayed save that wakes nobody may replace one that
would (`settings_panel_sync.dart` 1863-1869). The model takes this as a save
that is not followed by `PreferencesChanged` and remembers it in `unwoken`, with
a load that failed.

### TerminalSession

One action per call of the manager, per stage of a poll and per step of a worker.
The manager's lock is `manager`: a call that joins a worker or starts a
Mosh server keeps it. What a worker shares is read by a poll in the order of its
transport's `drain_output` (`SshDrain`, `TelnetDrain`, ...), and the worker goes on
in between. A worker owes a notification (`owes`), then runs the callback under
the slot's lock (`calling`), which is what close, reconnect and shutdown wait for.
Output is counted in what one drain takes; events are there or not.

### Connections

`SshConnect` has an action for each exchange with the proxy, the server and the
agent, and for the two accesses to `known_hosts` (the check and the append), whose
file all attempts share. Credentials are what `offered` names, with the events
that the code emits as its record of trust.

`SftpTransfer` has an action for each SFTP request that changes files or decides
what follows: a request may fail, be performed although it fails, and end the
session with it. `posix` is a server whose rename replaces. `SftpTasks` takes all that
as one step and has what is around it instead: the flag that a cancel may create
before its task begins, the shared sessions, their locks, age and replacement.

`PortForward`: a worker has a runtime of one thread, so that its loop and its
connections take turns; the end of the loop drops the connections with it.
`start` stops and joins the old worker, spawns, and waits up to two seconds for a first status.

`TelnetProtocol`: the server follows RFC 1143 with changes of its own accord. The
byte layer takes streams of items (text, line ends, escaped IACs, commands,
subnegotiations) one byte at a time, so that every way to cut them is covered.

These five share no state: `Connections` is their conjunction. `MCConnections` gives each
behaviour a `focus` and leaves the other components in a fixed state, so that one run
checks all five at the cost of their sum.

### What the device keeps

`TerminalCapture` has the sink's queue (`recording_service.dart`), the native
writer, the sidecar, the save of the log row, the compaction and each step of
startup. A record is readable only for its place in its file; a hash is the data
it was taken over. A crash keeps any prefix of what was not synced; a
shutdown and the next start are far enough apart for the system to have written
what it had cached.

`LocalCatalog`: a row is its table, its state and its references; a link is a row
of `host_tags`, `snippet_target_groups` or `snippet_target_hosts`. An editor
holds the references it read or the user picked; its save writes them whether or
not their rows still live. A package that was deleted is
read with its snippets all the same. `stamped`, `outdated` and `overtaken` are history.
Favorites are one directory per host. An SFTP pane (`pane`) shows what it read when it
connected to its host and what was switched in it since; neither the deletion of the host nor
another pane changes it. `overtaken` remembers the panes that such a change has passed by.
Connections to a host that is not saved, which keep no favorites, are left out.

`TerminalOutput`: bytes are model strings, the members of `Bytes`; a command's payload
is its two bytes. `Cut` is the loop of `write_bytes_without_capture`, a recursive
function on streams; `CutFirst` is one turn of the loop.
`unhidden` is history: what the emulator should have got. Streams contain parts
of the marker and of commands in every order.

`LocalData` and `MCLocalData` compose the three as `Connections` and `MCConnections` do.

## Runs

Runs that pass:

| Run | Instance | What it shows |
|---|---|---|
| `object` | two devices, conditional object store, a network failure, two edits, four envelopes | `NoLostUpdate` and `ImplementsVault`: no push replaces a newer row and the whole is the abstract vault. `RetryAccepted`: after a conflict the metadata is restored so far that the next fetch is accepted. `GuardCoversAcknowledged`: restoring metadata never takes back a revision that was reported done. |
| `two_windows` | two sessions of one device over GitHub, an outage, a crash and a forgotten key | `RevisionAdvances`: two isolates on one database never store a revision twice or below the stored one. |
| `unconditional` | two devices, a backend that compares and writes in two requests | `LostOnlyToStaleSession`: rows are lost in that window and nowhere else. |
| `restore` | one device, every strategy, two restores | `RestoredAsNewRevision`, `NextSyncAccepted`. |
| `live` | two devices, one failure, schedulers running | `EditsReachEveryDevice`: once nobody edits, databases and vault agree. |
| `rotation` | one device; GitHub, a gist and an object store; three keys; one failure | `KeyInHand`, `ResumeIsNotRefused`: the user's keys open every provider; a resumed change is not refused. |
| `records` | two devices, one clock ahead; a host and two tags; three edits | `StampNamesEdit`: equal stamps are the same edit, so that skipping a row loses nothing. `LaterEditWins`: only edits within the clocks' skew are ordered wrongly. `TagsAsSaved`: a host keeps the tags saved with it through exports, imports and merges. `DevicesAgree`: once edits stop, devices and vault agree, restamping triggers included, unless a name clashes. |
| `scheduler` | scheduler, two settings pages, two intervals | `SavedUnlessDefaulted`, `OneActivity`, `SyncsUnderCurrentSettings`, `AutomaticUnlessUnwoken`. |
| `sessions` | one session of any transport, a connection and its successor | `NoLostWakeup`: whatever waits for the interface has it woken. `CallbackHasOwner`: no callback for a session that gave it up. `RemoteSizeCurrent`, `EndsComplete` (Telnet, Mosh), and the liveness `CallsReturn`: a call returns the lock unless the remote side keeps an SSH worker or a Mosh bootstrap waiting, and `EndIsNoticed`. |
| `connections` | two SFTP tasks, two attempts, two cached tasks, one rule with two workers, one Telnet peer | `UploadKeepsTarget`, `TrustBeforeCredentials`, `EarlyCancelWins`, `SudoSessionKept`, `PortHeldOnce`, `SettledAgrees`, `StreamUnderstood`. |
| `local` | one capture with three faults, one window and two SFTP panes over three rows, streams of three items | `OutputInOrder`, `CaptureSurvives`, `DeletedIsLetGo`, `ChangesAreStamped`, `FavoritesAsShown`, `PiecesDoNotMatter`. |

A run that shows a disagreement between the code and what a message of it
says (details under "findings" in `PROJECT.json`):

| Run | What it shows |
|---|---|
| `github_outage` | `remember_revision` runs before the push. When the push to GitHub fails the remembered revision is ahead of the repository for good, and every later sync is refused as a rollback that never happened. |

Bounds. `MaxEdits`, `MaxSnapshots`, `MaxRevision`, `MaxFailures` and `Budget`
bound what users and environment do. Two devices and two edits are the least
for an overwrite (one edit each). Four envelopes let each device
seal, conflict and seal again. Three attempts are the code's. One row is enough for the
per-row properties, because rows do not interact in this model. The two devices of `object` and
`unconditional` are alike, so TLC takes states that differ by their exchange
(each with its session) for one. One failure shows
every single failure at every step. In `live`, nine envelopes are more than two devices
need for three edits with conflicts, so that the bound is not what ends the
behaviour; `SyncWhenClean = FALSE` leaves out syncs that carry nothing and
would use up the envelopes. In `scheduler`, off and two units give a timer that
waits, one that is rearmed for the rest, and one that is not set.

In `records` the host's creator is the device whose clock is ahead; three edits
are a tag, a host that has it and a rival edit, and three units of time are a gap
larger than the skew between the first and the last edit.

In `sessions`, two connection records are a worker and the one that follows it;
they are used again once joined, so that a session reconnects any number of times.
Two waiting chunks are one that a drain takes and one that is left, and as many as
one poll takes. One waiting command is enough for a size that a worker has not
told yet; a second session would only meet the first at the lock, where the
other call is `manager`'s.

In `connections`, two SFTP tasks are an upload and each other request to the
same directory, two parts a file or folder that is incomplete; two attempts are every kind
of attempt beside another at the same host; two forwarding workers a rule and its
restart; three items of a Telnet stream are every pair with a third to show the
parser has recovered.

In `local`, three faults are a failed write, a crash and a crash of the recovery;
one kept chunk makes every longer capture a case for compaction. Three rows are
a deleted one, one that refers to it and one that refers to that; `MCCatalogs`
has every column and link of the schema in one of its instances. One window is
enough for an outdated reference, because deletes are not bound to an editor. Two
panes are one that switches a favorite and one that shows it already, of one host or of two.

Deadlock is checked except where the system really stops: `live` and `records`
(nothing is dirty), `scheduler` (the application ends after `close`), `sessions`
(the runtime is shut down), `connections` and `local` (the tasks have ended, or the
behaviour's component has nothing more to do).

Fairness. `VaultSync` assumes that an idle session begins again (the scheduler
re-arms after every sync, `sync_service.dart` 85-113) and that a running isolate
takes its next step; nothing is assumed of users, network or crashes.
`SyncRecords` assumes that time passes, that a device whose rows differ from the
vault's syncs again and that a save goes on to its second commit.
`TerminalSession` assumes that worker threads run, that the holder of the lock goes on,
that a wake-up in the interface's queue is
answered by a poll, and that a shutdown begun goes on. Nothing is assumed of the remote
side: where an SSH worker waits for it, or a Mosh bootstrap, whose authentication has no
time limit (`ssh.rs` 1098), `CallsReturn` and `EndIsNoticed` say so. Weak
fairness of the disjunction of a worker's own steps is enough because the
bounds on output keep the remote side from filling every turn of a loop.
`SyncScheduler` assumes that time passes, timers fire, file operations and
syncs end, and that the page that saved goes on to wake the scheduler; nothing is
assumed of the user.

## Proofs

| Theorem | Module | For every |
|---|---|---|
| `TypeCorrect` | `VaultSync_proofs` | constants |
| `NothingIsLost` | `VaultSync_proofs` | devices, sessions, records and bounds, with `Conditional` and `MergingOnly` |
| `LossNeedsStaleSession` | `VaultSync_proofs` | transport, the gist included, with `MergingOnly` |
| `SyncImplementsVault` | `VaultSync_proofs` | as `NothingIsLost` |
| `RevisionsGrow` | `VaultSync_proofs` | strategies, with `Conditional` and `NoRestore` |
| `GuardKept` | `VaultSync_proofs` | transport, failures and crashes, with `OneSessionEach`, `NeverForgets` and `NoRestore` |
| `RetriesAccepted`, `NextSyncsAccepted` | `VaultSync_proofs` | devices, lost answers and conflicts, with `Steady` |
| `RestoresAreNew` | `VaultSync_proofs` | transport and strategy, with `RestoringAlone` |
| `TypeCorrect`, `KeysStayInHand` | `SyncKeyRotation_proofs` | providers of any kinds, failures and bounds; the second with `OneDevice` |
| `ResumesAreAccepted` | `SyncKeyRotation_proofs` | the same, with `OneDevice` and `FirstKeepsHeader` |
| `TypeCorrect`, `LaterEditsWin`, `TagsStayAsSaved` | `SyncRecords_proofs` | devices, rows, clocks within the skew, and bounds |
| `StampsNameEdits` | `SyncRecords_proofs` | the same, with `ClocksInStep` |
| `ConfigTypeCorrect`, `SavesAreKept` | `SyncScheduler_proofs` | loaders, savers, values |
| `TypeCorrect`, `OneAtATime`, `SyncsAreCurrent`, `RunsConfigStore`, `SchedulerKeepsSaves` | `SyncScheduler_proofs` | intervals, users of the file |
| `TypeCorrect`, `DeletionsLetGo`, `FavoritesShown`, `ChangesStamped` | `LocalData_proofs` | rows, tables they belong to, windows, panes |
| `CaptureTyping`, `OutputStaysInOrder`, `SavedOutputSurvives` | `LocalData_proofs` | output, retention limit, crashes and failed writes |
| `TypeCorrect`, `CallbacksOwned`, `WakeupsArrive`, `SizesReachRemote`, `EndsAreComplete` | `TerminalSession_proofs` | sessions, connections, sizes and bounds |
| `ConnectTyped`, `CredentialsAfterTrust` | `Connections_proofs` | attempts, their plans, host keys |
| `TasksTypes`, `EarlyCancels`, `SessionsStayCached` | `Connections_proofs` | SFTP tasks and sessions |
| `ForwardTyped`, `PortsHeldOnce` | `Connections_proofs` | rules, calls, workers, connections |
| `TransferTypes`, `UploadsKeepTargets` | `Connections_proofs` | tasks, targets, faults |
| `TelnetTyped`, `NegotiationAgrees` | `Connections_proofs` | options, sizes, initiatives of the server |
| `StreamsUnderstood` | `Connections_proofs` | streams of items or of typed input, of any length |
| `ConnectionsTypes` | `Connections_proofs` | constants of the five components |
| `OutputTypes`, `AnyPieces` | `LocalData_proofs` | output, marker, pieces, limits |
| `LocalTypes` | `LocalData_proofs` | constants of the three components |

Assumptions. `MergingOnly`: smart merge is the only strategy and nobody
restores a version, since a sync in which one side wins is meant to drop rows.
`Conditional`: the provider compares the tag as part of the write (GitHub's SHA,
an object store's If-Match). `NoRestore`: a restore puts back an old revision on
purpose. Each of these leaves the rest of the specification as it is, failures, crashes and
lost answers included. Further:

- `OneSessionEach`: a device runs one session at a time, which is one window; over an object
  store, two windows restore each other's metadata (see the list below). `NeverForgets`:
  forgetting the sync key is how a user takes the guard back.
- `Steady`: `Transport = "object"`, where a failed push restores the metadata, so that the next
  sync reads what an unanswered one has stored; no end of the process between
  `remember_revision` and the push, which leaves a revision that was never
  stored; and whoever restores a version is the only session. `github_outage` shows what
  happens where a failed push restores nothing. The runs `object` and `live` satisfy
  `Steady` with two devices, and `restore` with one that restores.
- `RestoringAlone`: one session. Over an object store no answer is lost either: the metadata of
  an applied push is taken back with the others, and its revision is minted again.
- `ClocksInStep`, for `StampsNameEdits` only: with clocks apart, a stamp can be minted a second
  time (below). `records`, with two devices of different clocks, does
  not meet it.
- `OneDevice`: another device that is linked pushes the old wrapping with its next sync.
  `FirstKeepsHeader`: the first provider the settings page visits is no object store. The page
  visits GitHub, gist, object store and cloud in this order, so this holds when a
  GitHub or gist provider is connected; what happens otherwise is below.

Everything else is the named ASSUMEs of the modules: ranges of the bounds, placeholders
(`None`, `Nothing`, `NoFile`) that are no value of their sets, a plan for every
attempt or task.

Why the invariants are as they are:

- `NoLostUpdate` is not inductive: that a push loses nothing needs that what is
  sealed contains what was fetched, which needs that the database does when the
  session seals, which needs that databases only grow, which needs that no stamp in
  the system is from the future. `MergeInv` is the conjunction of these. With
  the provider's comparison, what was fetched is what is replaced.
- `RefineInv` adds that what a session fetched or sealed is an earlier copy of the
  vault or of its database, which `Learn` and `Publish` ask for. `VaultStep`
  then maps every step: an edit to `Edit`, an import to `Learn`, a push to
  `Publish`, every other to a stutter.
- `RevisionsGrow`: the envelope of a session is newer than the one it fetched, and
  is stored only in its place.
- `TypeInv` of `VaultSync` adds to the types that revisions are minted ones and
  that the attempt is below the limit, without which `Seal` and `TryAgain`
  leave their types.
- `KeyInv`: the wrapping in the local header, in the saved one and in what a
  session seals is a key in hand too, since an error or the next sync brings it
  back; and while a change goes on, every provider already visited holds the
  new key, since after the last one it alone must open them all.
- `RecordsInv`: every copy of a host, in databases, sessions and vault, has a stamp whose
  time is at most `Skew` above the true time of its edit and not below it; then a
  stamp that wins belongs to an edit that is at most `Skew` older. Versions are at
  most the number of edits, which bounds them.
- `FileInv`: only the first of the queue is past its start (`OneSave`); nobody is
  past the check while the file is missing, the one that fills the default
  excepted; the file that a saver has read is what the completed saves amount to,
  unless a default was written.
- `ActivityInv`: only an open scheduler has a timer, and a timer excludes a run.
- `StaleInv`: settings that were replaced are left only with a run that still loads, whose time
  of the last attempt `preferencesChanged` has taken back; a run that starts now waits for
  the whole interval instead of syncing.
- `GuardInv`: that an idle device's metadata covers its checkpoint needs it of a busy one,
  and of every snapshot that an error may bring back. `OwnInv` ties what a session has saved and sealed
  to the metadata of its device.
- `SteadyInv`: there is one vault, what a device remembers fits the stored object (no other
  vault, nothing newer), and so does what an error restores; what is sealed
  succeeds what was fetched. With the provider's comparison, that is what it replaces.
- `NewestInv`: the device knows a revision as large as every stored one, what it may
  restore does too, and what it is about to push is larger.
- `AcceptInv`: once a provider took the new key, the device keeps a header that opens with the
  old or the new key; no error restores an older one, since what a session saved is the
  local header and from the second provider on there is one.
- `StampInv`: a stamp that carries a device's number is not after the row that this device
  has, in whatever copy it is. A device counts up from its row, so it does not mint a
  stamp twice.
- `TagsInv`: between the commits of a save the row and the link disagree on that device alone;
  every other copy has the tags that were chosen with its columns, but for those that the
  property sets apart; no host has a tag that its device has not heard of.
- `Catalog` of `LocalCatalog`: that a delete lets go of its row needs that a column holds
  rows of its own table only, since each `delete_` clears the columns that may
  name a row of its table; `Schema` lists them, and each delete is compared with
  that list. What an editor holds may name deleted rows; its save then
  records the reference as outdated.
- `SessionInv` of `TerminalSession`: that a callback is called for its owner needs
  that it is called under the lock of the slot that holds it (`CalledFromSlot`), that a
  slot that is set belongs to an open session with that worker (`SlotOwned`), that no two
  sessions share a worker and none in use is given out again (`OneOwner`), and, for
  the calls that release the session between two steps, that a Mosh bootstrap has
  silenced the transport it is about to replace and that a worker being joined is
  nobody's (`LockKept`).
- `WakeInv` of `TerminalSession`: whatever a worker has put out, its session has been told, or a step
  that tells it is still ahead of the worker, or the poll at work has that source to
  read yet (`ConnOK`); a poll that saw the exit flag has read, or still
  has to read, everything that was there when the flag was set (`PollOK`).
- `CaptureInv`: the file is a header and chunks, then nothing, a torn record or a footer
  that counts them (`Shaped`); the checkpoint covers what is durable only; a compaction keeps
  by one of its names all that a save reported; while startup repairs, each of its
  steps finds what the one before it left. One case is set apart: `Lost`, where the crash fell
  between the two renames.
- `AttemptsInv` puts every connection attempt in one of three conditions: its key is not checked
  and nothing was offered, it is trusted, or it was turned away without an offer. None of them
  mentions other attempts, though all write `known_hosts`.
- `TasksInv`: a task that was cancelled early has not been given a flag that says otherwise
  (`EarlyInv`); a session that a task or the cache holds was
  opened (`SessionsInv`); a task that is about to drop a session as expired or closed
  is right about it (`VerdictsInv`), which `SudoSessionKept` rests on.
- `ForwardInv`: a worker that is alive is the one in the manager's map, and a call is about to
  spawn only when the map has none. The mutex is held from the check to the insertion.
- `TransferInv`: for each step of an upload, what is at its staging path, at its backup path and at
  the target; an item that was at a target is there or whole at the backup of an upload
  that will not remove it. `PathsDiffer` keeps the uploads apart.
- `TelnetInv`: for each side of each option, one of twelve situations of the client's state, the
  server's, and what about it is in the two queues; only with the queues in it is an
  agreement at rest inductive, because requests cross. The last size on its way, or else the
  one the server knows, is the terminal's.
- `StreamInv` of `TelnetProtocol`: the parser is at a byte of an item; what it produced is
  what the items before it mean, flattened (`ServerRead`), and its state is what
  the bytes of this item before that one leave (`ReadsItem`); what is to come is the rest
  of the item and the items after it. Input that was typed, encoded and echoed
  back is read the same way, key by key (`EchoRead`).
- `OutputInv` of `TerminalOutput`: what waits is what cutting all that was shown leaves, and
  the screen is what its pieces make of a blank one (`ScreenKept`). That the
  next piece keeps this is `PiecesJoin`: to cut s, then what s left with v after it,
  is to cut s with v after it. It is proved by induction on the length of s, turn by turn
  of the loop: a start or a terminator of a command that is found in s is found at the same place
  in s and v, and one that is not is still there to be found in what s left. For the hidden
  bytes, those kept are the end of all that was hidden since, and shorter
  than the marker, so that the marker is found at the same byte (`HiddenFinds`).
- `FavoritesInv` is `FavoritesAsShown` host by host: a favorite that comes or goes is one of a
  single host, so that the panes of other hosts keep what they show (`FavoriteComes`); a
  deletion that takes a live favorite along overtakes the panes of its host.

`RunsConfigStore` shows that the composition keeps the component's
specification: every step of `SyncScheduler` is a step of `ConfigStore` or leaves
the file alone, so that `SavesAreKept` carries over.

`StreamsUnderstood` and `AnyPieces` are inductions over data. The library's theorems of
induction are about an operator that the caller supplies, which the provers
cannot instantiate; `SetInduction` of `SequenceLemmas` is about a set of numbers, and each
induction defines the set of the lengths for which its claim holds. What `Cut`
and the flattening of a sequence are on the next element follows from that too: a recursive
function is a CHOOSE, and that there is a function to choose is proved first
(`FlattensExists` and `CutsExist`).

Only model-checked: the liveness properties `EditsReachEveryDevice`, `DevicesAgree`,
`AutomaticUnlessUnwoken`, `CallsReturn` and `EndIsNoticed`, since liveness under
fairness and ENABLED are out of the prover's reach. Every invariant and every action
property of a passing run is stated by a theorem.

No module that is proved about declares a RECURSIVE operator.

## Behaviours met while modelling that no run covers

- Two devices that create a vault at one GitHub repository at the same moment:
  the loser's retry carries its own vault's identity and is refused as "already linked
  to a different sync vault". Over a backend without conditional writes the
  race leaves two devices linked to different vaults.
- A process that ends between `remember_revision` and the push leaves the state
  of `github_outage` under every transport, because the snapshot ends with it.
- Two sessions of one database over an object store restore each other's metadata.
- A failed push of a key change to GitHub or a gist leaves the new wrapping in the
  local header; a retry with the true current key and a different new one is
  refused. On another device the true current key is refused too, because that
  device compares it with its own old header.
- Over an object store, a restore whose push was applied but not answered is undone in the
  metadata only: the same revision number is minted again for other contents. GitHub keeps
  the metadata and is not affected (`RestoresAreNew`).
- A change of the Master Key whose first provider is an object store and fails there, after
  `Forget`, restores the metadata to no header. A sync of another provider then joins
  with the key in force, and trying the change again is refused there although it
  was accepted before (`ResumesAreAccepted` asks that the first provider keeps the header).
- Among three devices with clocks apart, a stamp can be minted twice: a device whose clock is
  behind merges a row with a later time and a smaller version, counts on from that
  version at its own time, and reaches a version that it used at that time before.
- `close()` during the load of the settings: the run still begins its sync, and
  close waits for it.
- The branch of `_tick` for a run in progress is never reached: `OneActivity`.

- Tag names: two devices that give two tags one name, or one device that renames a
  tag away from a name and another tag to it, leave an envelope that another
  device cannot import, because rows are merged one by one against the unique
  index. Every later sync of that device fails.
- A tag deleted on one device and renamed on another: a host that met the deletion first
  stays without the tag, at a stamp equal to that of the host with it.
- The end of the process between the two commits of `save_host` leaves the new stamp
  with the old tags, on every device.
- Detecting the operating system of a host after connecting saves the whole row with a new
  stamp, though no synced column changed: an older edit of another device loses.
- A device that has not synced the latest revision restores an old version as a
  revision number that is already stored.
- A load of the configuration that finds the file truncated by a save writes the default
  over it; `SavedUnlessDefaulted` excepts that.

Sessions:

- SSH, serial and local sessions read the exit flag after output and events, so
  that a poll can end a session before its last output is shown; a Telnet session
  loses what exceeds one poll.
- An SSH worker drops sizes and input that arrive while it connects. While it waits for room in
  the channel or for the history command it does not see a shutdown: closing the
  session then holds the lock of all sessions.
- Creating and reconnecting Mosh sessions hold that lock during the SSH bootstrap
  (`mosh.rs` 273). Its connect and its command have time limits, its authentication has
  none: a server that never answers it keeps the calls of every session waiting for good.
- An echo override and a suppression of output outlive a reconnection.

Connections:

- A move or copy that replaces its target deletes it first; a check of the target
  that fails counts as "absent"; a restore that fails leaves the old item at the
  backup path only. A file that is truncated while it is read ends short and
  reports success. `UploadKeepsTarget` is about uploads.
- Connecting and authenticating for an SFTP task cannot be cancelled.
- `run_ssh_exec_command` reports status 0 for a command whose channel ends without a
  status: a key export cut off may be reported done.
- Two attempts that accept different keys of a host at once both record theirs.
- A local or dynamic forward notices the loss of its SSH connection with the next
  connection only; a stop waits for a connect in progress with the mutex held.

Local data:

- Switching the recording off and on within a session starts a new capture, which deletes
  what was captured before.
- A crash between the two renames of a compaction leaves the capture under its backup
  name only, which startup deletes as an orphan (`saved = -1` in the model).
- A capture too large to be compacted makes the retention of every log stop.
- Deleting a snippet leaves it as the startup snippet of groups and hosts, and saving
  it removes it from all of them.
- An editor that was open during a deletion saves the reference again, or brings the row
  back to life if it is its own.
- A host is deleted while an SFTP pane shows its favorite, and is brought back by an editor
  that was open or by detecting its operating system (`workspace_session_actions.dart`
  219-230): the pane shows a favorite that the database no longer has, until it connects again.
  Two panes of one host do not learn of each other's favorites either.
- `get_snippet` (`database.rs` 1532) finds packages that were deleted: the reference to one that
  an editor opened before the deletion has saved stays through later edits of the snippet.
- A favorite that was removed and is added again gets a second row: the update of both
  breaks the unique index, which the interface ignores. It is harmless because
  the two statements are no transaction.
- A cancelled suppression of output drops up to the length of the marker less one
  bytes that were output; a command longer than the limit is passed to the emulator
  as it is, and then the pieces do matter.

## Not modelled

- Cloud transports beyond the object store: configuration and an OAuth refresh before a
  session. Local sync backups and migrations: single calls on files nobody else uses.
- The local crypto vault: nothing calls it.
- Serial ports, PTYs, the Mosh protocol, the alacritty emulator: devices and libraries, the
  environment of the models.
- The interface: widgets, whose calls are the actions of the models. AI conversations and the
  desktop update: one request or download at a time, without shared state.

## Plan

1. Theorems that do without an assumption they make now: `RetriesAccepted` over GitHub without crashes,
   `StampsNameEdits` for two devices with any clocks, `KeysStayInHand` with devices that have
   synced since the change.
2. Groups and the weak references of hosts in `SyncRecords`; its rows under the
   provider-wins strategy.
3. The hazards of `PROJECT.json` that no property covers: unique names in a merge, tags deleted
   on one device and renamed on another, the editor that saves every column.

## How to run

    tlc -workers 2 -config VaultSync_object.cfg MCVaultSync
    tlc -workers 2 -config Connections_each.cfg MCConnections
    tlapm VaultSync_proofs.tla
