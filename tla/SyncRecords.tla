----------------------------- MODULE SyncRecords -----------------------------
(***************************************************************************)
(* The merge of rows.  Every row carries a stamp: the wall clock at its    *)
(* last edit, a version and the device of the edit.  An import keeps the   *)
(* row with the larger stamp and drops what it refers to but does not      *)
(* exist.  Hosts and tags stand for the tables: a host has columns, under  *)
(* its stamp, and a set of tags, in a table of its own without stamps.     *)
(*                                                                         *)
(* VaultSync models the sessions; here a session imports, exports table    *)
(* after table and pushes under the provider's comparison.  Only smart     *)
(* merge is modelled, and clocks that never go back.                       *)
(***************************************************************************)
EXTENDS Naturals

CONSTANTS
    Devices,        \* the devices, numbered in the order of their ids
    Hosts,
    Tags,           \* the tags, numbered in the order of their uuids
    HostCreator,    \* HostCreator[h], TagCreator[t]: the device that creates the row
    TagCreator,
    Names,          \* names of tags
    None,           \* no name, no host
    Offset,         \* Offset[d]: how far the clock of d is ahead of true time
    Skew,           \* no clock is further ahead
    MaxTime,        \* bound: true time
    MaxEdits        \* bound: edits

ASSUME NumbersAssumption == Devices \subseteq Nat \ {0} /\ Tags \subseteq Nat
ASSUME CreatorsAssumption ==
    HostCreator \in [Hosts -> Devices] /\ TagCreator \in [Tags -> Devices]
ASSUME NamesAssumption == None \notin Names \cup Hosts
ASSUME ClocksAssumption == Skew \in Nat /\ Offset \in [Devices -> 0 .. Skew]
ASSUME BoundsAssumption == MaxTime \in Nat /\ MaxEdits \in Nat

VARIABLES
    now,        \* true time
    edits,      \* edits made so far
    host,       \* host[d][h]: the row of host h on device d, with its tags
    tag,        \* tag[d][t]: the row of tag t on device d
    saving,     \* saving[d]: a host whose columns are saved and whose tags are not
    vault,      \* the rows of the envelope that the provider stores
    sess,       \* sess[d]: the sync session of device d
    flawed      \* edits whose tags some copy may have taken apart from the columns

vars == <<now, edits, host, tag, saving, vault, sess, flawed>>

-----------------------------------------------------------------------------
(* Rows *)

Never == [time |-> 0, version |-> 0, device |-> 0]
Stamps ==
    {Never} \cup [time : 0 .. MaxTime + Skew, version : 1 .. MaxEdits, device : Devices]

\* The columns of a host are the edit that wrote them: its number, the true time and the tags
\* that the user chose with it.
HostRows ==
    [edit : 0 .. MaxEdits, at : 0 .. MaxTime, chosen : SUBSET Tags,
     tags : SUBSET Tags, stamp : Stamps]
NoHost == [edit |-> 0, at |-> 0, chosen |-> {}, tags |-> {}, stamp |-> Never]

TagRows == [name : Names \cup {None}, active : BOOLEAN, stamp : Stamps]
NoTag == [name |-> None, active |-> FALSE, stamp |-> Never]

Exists(row) == row.stamp # Never

NoSave == [host |-> None, edit |-> 0, tags |-> {}]
Saves == {NoSave} \cup [host : Hosts, edit : 1 .. MaxEdits, tags : SUBSET Tags]

\* fresh: the provider still stores the envelope that the session fetched. at: when the
\* session read the hosts.
Sessions ==
    [phase : {"idle", "export", "push"}, fresh : BOOLEAN, at : 0 .. MaxTime,
     hosts : [Hosts -> HostRows]]
Idle == [phase |-> "idle", fresh |-> FALSE, at |-> 0, hosts |-> [h \in Hosts |-> NoHost]]

TypeOK ==
    /\ now \in 0 .. MaxTime
    /\ edits \in 0 .. MaxEdits
    /\ host \in [Devices -> [Hosts -> HostRows]]
    /\ tag \in [Devices -> [Tags -> TagRows]]
    /\ saving \in [Devices -> Saves]
    /\ vault \in [hosts : [Hosts -> HostRows], tags : [Tags -> TagRows]]
    /\ sess \in [Devices -> Sessions]
    /\ flawed \subseteq 0 .. MaxEdits

Init ==
    /\ now = 0
    /\ edits = 0
    /\ host = [d \in Devices |-> [h \in Hosts |-> NoHost]]
    /\ tag = [d \in Devices |-> [t \in Tags |-> NoTag]]
    /\ saving = [d \in Devices |-> NoSave]
    /\ vault = [hosts |-> [h \in Hosts |-> NoHost], tags |-> [t \in Tags |-> NoTag]]
    /\ sess = [d \in Devices |-> Idle]
    /\ flawed = {}

Active(rows) == {t \in Tags : rows[t].active}

\* Mutant of NewerThan: the merge takes every row that it did not merge before.
Unlike(a, b) == a # b

\* is_newer_than: the time, then the version, then the device.
NewerThan(a, b) ==
    \/ a.time > b.time
    \/ a.time = b.time /\ a.version > b.version
    \/ a.time = b.time /\ a.version = b.version /\ a.device > b.device

-----------------------------------------------------------------------------
(* The user *)

Tick ==
    /\ now < MaxTime
    /\ now' = now + 1
    /\ UNCHANGED <<edits, host, tag, saving, vault, sess, flawed>>

\* The user edits on device d, whose main thread runs one call at a time. At the bound on
\* time nobody edits.
Edits(d) ==
    /\ edits < MaxEdits /\ now < MaxTime
    /\ edits' = edits + 1
    /\ saving[d] = NoSave

\* Mutant of LocalStamp: the version is not counted up.
StampOfTime(d, old) == [time |-> now + Offset[d], version |-> 1, device |-> d]

\* updated_at and version as every repository writes them, and the device by the trigger.
LocalStamp(d, old) ==
    [time |-> now + Offset[d], version |-> old.version + 1, device |-> d]

\* save_host, first statement: the columns. A host has no tags before its first save.
SaveHost(d, h) ==
    /\ Edits(d)
    /\ Exists(host[d][h]) \/ HostCreator[h] = d
    /\ \E chosen \in SUBSET Active(tag[d]) :
          /\ host' = [host EXCEPT ![d][h] =
                [edit |-> edits + 1, at |-> now, chosen |-> chosen,
                 tags |-> host[d][h].tags, stamp |-> LocalStamp(d, host[d][h].stamp)]]
          /\ saving' = [saving EXCEPT ![d] =
                [host |-> h, edit |-> edits + 1, tags |-> chosen]]
    /\ UNCHANGED <<now, tag, vault, sess, flawed>>

\* replace_host_tags, a transaction of its own. An import in between may have replaced the
\* host, or deleted a tag.
SaveTags(d) ==
    LET h == saving[d].host IN
    /\ saving[d] # NoSave
    /\ host' = [host EXCEPT ![d][h].tags = saving[d].tags \cap Active(tag[d])]
    /\ flawed' = IF \/ host[d][h].edit # saving[d].edit
                    \/ ~ saving[d].tags \subseteq Active(tag[d])
                 THEN flawed \cup {host[d][h].edit}
                 ELSE flawed
    /\ saving' = [saving EXCEPT ![d] = NoSave]
    /\ UNCHANGED <<now, edits, tag, vault, sess>>

\* save_tag: a new tag or a new name, which no other active tag has (idx_tags_active_name).
SaveTag(d, t) ==
    /\ Edits(d)
    /\ Exists(tag[d][t]) \/ TagCreator[t] = d
    /\ \E name \in Names :
          /\ \A u \in Active(tag[d]) \ {t} : tag[d][u].name # name
          /\ tag' = [tag EXCEPT ![d][t] =
                [name |-> name, active |-> TRUE, stamp |-> LocalStamp(d, tag[d][t].stamp)]]
    /\ UNCHANGED <<now, host, saving, vault, sess, flawed>>

\* delete_tag: one transaction stamps the hosts that have the tag, takes it from them and
\* marks it deleted.
DeleteTag(d, t) ==
    /\ Edits(d)
    /\ tag[d][t].active
    /\ host' = [host EXCEPT ![d] = [h \in Hosts |->
          IF t \notin host[d][h].tags THEN host[d][h]
          ELSE [edit |-> edits + 1, at |-> now,
                chosen |-> host[d][h].tags \ {t}, tags |-> host[d][h].tags \ {t},
                stamp |-> LocalStamp(d, host[d][h].stamp)]]]
    /\ tag' = [tag EXCEPT ![d][t] =
          [name |-> tag[d][t].name, active |-> FALSE,
           stamp |-> LocalStamp(d, tag[d][t].stamp)]]
    /\ UNCHANGED <<now, saving, vault, sess, flawed>>

-----------------------------------------------------------------------------
(* The import *)

\* Mutant of WrittenBy: the trigger stamps every row that is merged.
WrittenByTheMerge(d, old, new) == IF old = Never THEN new.device ELSE d

\* The device of a merged row. The trigger takes an update that leaves the device as it was
\* for an edit of this device.
WrittenBy(d, old, new) ==
    IF old # Never /\ old.device = new.device THEN d ELSE new.device

TakesTag(d, t) == NewerThan(vault.tags[t].stamp, tag[d][t].stamp)
TakesHost(d, h) == NewerThan(vault.hosts[h].stamp, host[d][h].stamp)

MergedTags(d) ==
    [t \in Tags |->
        IF TakesTag(d, t)
        THEN [vault.tags[t] EXCEPT !.stamp.device =
                WrittenBy(d, tag[d][t].stamp, vault.tags[t].stamp)]
        ELSE tag[d][t]]

\* Tags are merged one after the other: those before t are new and those after it are old.
\* The unique index refuses a name that another active tag has at that moment.
NameTaken(d) ==
    \E t, u \in Tags :
        LET other == IF u < t THEN MergedTags(d)[u] ELSE tag[d][u] IN
        /\ t # u /\ TakesTag(d, t)
        /\ vault.tags[t].active /\ other.active
        /\ vault.tags[t].name = other.name

\* Mutant of KnownTags: hosts are merged before tags.
KnownBefore(d) == Active(tag[d])

\* The tags that a merged host can have: tags are merged before hosts.
KnownTags(d) == Active(MergedTags(d))

MergedHosts(d) ==
    [h \in Hosts |->
        IF TakesHost(d, h)
        THEN [vault.hosts[h] EXCEPT
                !.tags = @ \cap KnownTags(d),
                !.stamp.device = WrittenBy(d, host[d][h].stamp, vault.hosts[h].stamp)]
        ELSE host[d][h]]

\* The hosts that the import takes without a tag that is deleted here.
Stripped(d) ==
    {h \in Hosts :
        /\ TakesHost(d, h)
        /\ \E t \in vault.hosts[h].tags :
              Exists(MergedTags(d)[t]) /\ ~ MergedTags(d)[t].active}

\* The rows of the device and of the vault differ: a sync has something to carry.
Dirty(d) == host[d] # vault.hosts \/ tag[d] # vault.tags

\* The session fetches the envelope and merges it in one transaction.
Import(d) ==
    /\ sess[d].phase = "idle" /\ Dirty(d)
    /\ ~ NameTaken(d)
    /\ host' = [host EXCEPT ![d] = MergedHosts(d)]
    /\ tag' = [tag EXCEPT ![d] = MergedTags(d)]
    /\ flawed' = flawed \cup {vault.hosts[h].edit : h \in Stripped(d)}
    /\ sess' = [sess EXCEPT ![d] = [Idle EXCEPT !.phase = "export", !.fresh = TRUE]]
    /\ UNCHANGED <<now, edits, saving, vault>>

-----------------------------------------------------------------------------
(* The export *)

\* The table of hosts is read, tags included, and those after it later. The tags of a host
\* may still be those before its save.
ExportHosts(d) ==
    /\ sess[d].phase = "export"
    /\ sess' = [sess EXCEPT ![d].phase = "push", ![d].at = now, ![d].hosts = host[d]]
    /\ flawed' = IF saving[d] # NoSave THEN flawed \cup {saving[d].edit} ELSE flawed
    /\ UNCHANGED <<now, edits, host, tag, saving, vault>>

\* The tags are read, and the provider stores the envelope if it has not changed. Sealing
\* and sending it take longer than a unit of time, which is a millisecond.
Push(d) ==
    /\ sess[d].phase = "push" /\ sess[d].fresh
    /\ now > sess[d].at \/ now = MaxTime
    /\ vault' = [hosts |-> sess[d].hosts, tags |-> tag[d]]
    /\ sess' = [e \in Devices |->
          IF e = d THEN Idle ELSE [sess[e] EXCEPT !.fresh = FALSE]]
    /\ UNCHANGED <<now, edits, host, tag, saving, flawed>>

\* A conflict: the next session begins with what is stored now.
Conflict(d) ==
    /\ sess[d].phase = "push" /\ ~ sess[d].fresh
    /\ sess' = [sess EXCEPT ![d] = Idle]
    /\ UNCHANGED <<now, edits, host, tag, saving, vault, flawed>>

\* The process ends, perhaps between the two statements of a save.
Crash(d) ==
    /\ saving[d] # NoSave
    /\ flawed' = flawed \cup {saving[d].edit}
    /\ saving' = [saving EXCEPT ![d] = NoSave]
    /\ sess' = [sess EXCEPT ![d] = Idle]
    /\ UNCHANGED <<now, edits, host, tag, vault>>

-----------------------------------------------------------------------------
(* Specification *)

Sync(d) == Import(d) \/ ExportHosts(d) \/ Push(d) \/ Conflict(d)

Next ==
    \/ Tick
    \/ \E d \in Devices :
          \/ Sync(d) \/ SaveTags(d) \/ Crash(d)
          \/ \E h \in Hosts : SaveHost(d, h)
          \/ \E t \in Tags : SaveTag(d, t) \/ DeleteTag(d, t)

Spec == Init /\ [][Next]_vars

\* Time passes, the scheduler syncs again and again, and a call that has begun goes on.
Fairness ==
    /\ WF_vars(Tick)
    /\ \A d \in Devices : WF_vars(Sync(d)) /\ WF_vars(SaveTags(d))

FairSpec == Spec /\ Fairness

-----------------------------------------------------------------------------
(* Properties *)

\* Every copy of host h: on the devices, in the envelope, in a session.
Copies(h) ==
    {host[d][h] : d \in Devices} \cup {sess[d].hosts[h] : d \in Devices} \cup {vault.hosts[h]}

\* Copies of a host with equal stamps are of the same edit, so that skipping them loses
\* nothing: neither a version nor the restamping trigger gives one stamp to two edits, on
\* two devices or on any number whose clocks agree. (A third device whose clock is apart
\* can bring in an edit of a lower version, and a device then mint a stamp again.)
StampNamesEdit == \A h \in Hosts : \A a, b \in Copies(h) : a.stamp = b.stamp => a.edit = b.edit

\* The tags of a host are those that its user chose, wherever its columns are, unless the
\* tags were read or written apart from the columns or one of them was deleted elsewhere.
TagsAsSaved ==
    \A h \in Hosts : \A row \in Copies(h) :
        \/ row.tags = row.chosen
        \/ row.edit \in flawed
        \/ \E d \in Devices : saving[d].host = h /\ saving[d].edit = row.edit

\* A row is never replaced by an edit made earlier than its own, by more than the clocks are apart.
LaterEditWins ==
    [][\A d \in Devices, h \in Hosts : host'[d][h].at + Skew >= host[d][h].at]_vars

\* The device has the rows of the envelope, as far as stamps tell.
Agrees(d) ==
    /\ \A h \in Hosts : host[d][h].stamp = vault.hosts[h].stamp
    /\ \A t \in Tags : tag[d][t].stamp = vault.tags[t].stamp

\* Once the users stop editing, every device comes to agree with the envelope, unless it
\* has a tag of the same name as another one in the envelope and cannot import any more.
DevicesAgree == \A d \in Devices : <>[](Agrees(d) \/ NameTaken(d))
==============================================================================
