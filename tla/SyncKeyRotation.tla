--------------------------- MODULE SyncKeyRotation ---------------------------
(***************************************************************************)
(* The Master Key of the sync vault and its change.  The rows are          *)
(* encrypted with a random Sync DEK that every linked device stores; an    *)
(* envelope carries the DEK wrapped with the Master Key, so that a device  *)
(* that has no DEK yet can join.  Changing the Master Key re-wraps the     *)
(* DEK, one connected provider after the other, each with a session of its *)
(* own: fetch, re-wrap and record, push.                                   *)
(*                                                                         *)
(* An envelope and a device's saved header are reduced to their wrapping   *)
(* and their revision.  VaultSync models the sessions' rows and attempts;  *)
(* here a conflict is an error that ends the session.                      *)
(***************************************************************************)
EXTENDS Naturals, Sequences

CONSTANTS
    Devices,        \* devices linked to the vault, or about to be
    Providers,      \* the connected providers, in the order of the settings page
    Restoring,      \* the providers whose sessions restore the metadata (object stores)
    Unconditional,  \* the providers that take any write (the gist)
    Keys,           \* Master Keys, and
    FirstKey,       \* the one the vault was created with
    Nothing,        \* no envelope, no header
    MaxRevision,    \* bound: revisions sealed
    MaxFailures     \* bound: pushes that fail and processes that end

ASSUME ProvidersAssumption ==
    /\ Providers \in Seq(STRING) \ {<<>>}
    /\ \A i, j \in DOMAIN Providers : Providers[i] = Providers[j] => i = j

Connected == {Providers[i] : i \in DOMAIN Providers}
Revisions == 0 .. MaxRevision

\* The header of an envelope; "by" is the device that sealed it and stands for its tag.
Headers == [wrap : Keys, revision : Revisions, by : Devices]

ASSUME KeysAssumption == FirstKey \in Keys /\ Nothing \notin Keys \cup Headers

ASSUME BoundsAssumption == MaxRevision \in Nat \ {0} /\ MaxFailures \in Nat

VARIABLES
    stored,     \* stored[p]: the header of the envelope at provider p, or Nothing
    header,     \* header[d]: sync_envelope_header on device d, or Nothing (no DEK)
    seen,       \* seen[d][p]: the sync_revision row of provider p on device d
    session,    \* session[d]: the sync session of device d
    told,       \* the Master Key in force: every provider was reported to use it
    offered,    \* new Master Keys of changes begun since, none reported complete
    accepted,   \* the last pair of keys a provider's session accepted since the DEK is known
    failures    \* failures so far

vars == <<stored, header, seen, session, told, offered, accepted, failures>>

-----------------------------------------------------------------------------

\* A change of keys carries the current and the new key, a sync neither.
Pairs == {pair \in Keys \X Keys : pair[1] # pair[2]}

Sessions ==
    [phase   : {"idle", "fetch", "work", "push"},
     at      : 1 .. Len(Providers),             \* the provider the session is for
     keys    : Pairs \cup {Nothing},            \* the keys of a change, Nothing in a sync
     fetched : Headers \cup {Nothing},
     sealed  : Headers \cup {Nothing},
     saved   : [header : Headers \cup {Nothing}, seen : [Connected -> Revisions]]]

NoMetadata == [header |-> Nothing, seen |-> [p \in Connected |-> 0]]

Idle == [phase |-> "idle", at |-> 1, keys |-> Nothing,
         fetched |-> Nothing, sealed |-> Nothing, saved |-> NoMetadata]

TypeOK ==
    /\ stored \in [Connected -> Headers \cup {Nothing}]
    /\ header \in [Devices -> Headers \cup {Nothing}]
    /\ seen \in [Devices -> [Connected -> Revisions]]
    /\ session \in [Devices -> Sessions]
    /\ told \in Keys
    /\ offered \subseteq Keys
    /\ accepted \in Pairs \cup {Nothing}
    /\ failures \in 0 .. MaxFailures

\* One device has created the vault and pushed it to some providers; no other is linked.
Init ==
    \E d \in Devices, used \in SUBSET Connected :
        LET first == [wrap |-> FirstKey, revision |-> 1, by |-> d] IN
        /\ used # {}
        /\ stored = [p \in Connected |-> IF p \in used THEN first ELSE Nothing]
        /\ header = [e \in Devices |-> IF e = d THEN first ELSE Nothing]
        /\ seen = [e \in Devices |-> [p \in Connected |->
                     IF e = d /\ p \in used THEN 1 ELSE 0]]
        /\ session = [e \in Devices |-> Idle]
        /\ told = FirstKey
        /\ offered = {}
        /\ accepted = Nothing
        /\ failures = 0

At(d, phase) == session[d].phase = phase
Provider(d) == Providers[session[d].at]
IsChange(d) == session[d].keys # Nothing
End(d) == session' = [session EXCEPT ![d] = Idle]

Fail ==
    /\ failures < MaxFailures
    /\ failures' = failures + 1

-----------------------------------------------------------------------------
(* Beginning a session *)

\* The scheduler, or the user, syncs one provider.
BeginSync(d) ==
    /\ At(d, "idle")
    /\ \E i \in DOMAIN Providers :
          session' = [session EXCEPT ![d] = [Idle EXCEPT !.phase = "fetch", !.at = i]]
    /\ UNCHANGED <<stored, header, seen, told, offered, accepted, failures>>

\* The user changes the Master Key: a current key she knows, and a new one.
BeginChange(d) ==
    /\ At(d, "idle")
    /\ \E current \in {told} \cup offered, new \in Keys :
          /\ new # current
          /\ session' = [session EXCEPT ![d] =
                           [Idle EXCEPT !.phase = "fetch", !.keys = <<current, new>>]]
          /\ offered' = offered \cup {new}
    /\ UNCHANGED <<stored, header, seen, told, accepted, failures>>

Fetch(d) ==
    /\ At(d, "fetch")
    /\ session' = [session EXCEPT ![d].phase = "work",
                     ![d].fetched = stored[Provider(d)],
                     ![d].saved = [header |-> header[d], seen |-> seen[d]]]
    /\ UNCHANGED <<stored, header, seen, told, offered, accepted, failures>>

-----------------------------------------------------------------------------
(* sync_file *)

Revision(h) == IF h = Nothing THEN 0 ELSE h.revision

NotRolledBack(d) ==
    session[d].fetched # Nothing => session[d].fetched.revision >= seen[d][Provider(d)]

\* A device with a DEK reads any envelope; another needs the Master Key of this one. The
\* user types the key in force, or the current key of the change.
Typed(d) == IF IsChange(d) THEN session[d].keys[1] ELSE told

CanRead(d) ==
    \/ header[d] # Nothing
    \/ session[d].fetched # Nothing /\ session[d].fetched.wrap = Typed(d)

\* The wrapping the new envelope starts from: the local header goes first.
Wrapping(d) ==
    IF header[d] # Nothing THEN header[d].wrap ELSE session[d].fetched.wrap

\* Mutant of KeysAccepted: a provider that is already updated is refused.
OnlyCurrentAccepted(d) == IsChange(d) => Wrapping(d) = session[d].keys[1]

\* The wrapping opens with the current key, or a change has already replaced it.
KeysAccepted(d) ==
    IsChange(d) => Wrapping(d) \in {session[d].keys[1], session[d].keys[2]}

\* Mutant of Sealed: the new wrapping is not used.
SealedAsBefore(d) ==
    [wrap |-> Wrapping(d), by |-> d,
     revision |-> 1 + IF Revision(header[d]) > Revision(session[d].fetched)
                      THEN Revision(header[d]) ELSE Revision(session[d].fetched)]

Sealed(d) ==
    [wrap |-> IF IsChange(d) THEN session[d].keys[2] ELSE Wrapping(d), by |-> d,
     revision |-> 1 + IF Revision(header[d]) > Revision(session[d].fetched)
                      THEN Revision(header[d]) ELSE Revision(session[d].fetched)]

\* Import, re-wrap, seal, save_local_sync_state and remember_revision.
Work(d) ==
    /\ At(d, "work")
    /\ NotRolledBack(d) /\ CanRead(d) /\ KeysAccepted(d)
    /\ Sealed(d).revision <= MaxRevision
    /\ header' = [header EXCEPT ![d] = Sealed(d)]
    /\ seen' = [seen EXCEPT ![d][Provider(d)] = Sealed(d).revision]
    /\ session' = [session EXCEPT ![d].phase = "push", ![d].sealed = Sealed(d)]
    /\ accepted' = IF IsChange(d) THEN session[d].keys ELSE accepted
    /\ UNCHANGED <<stored, told, offered, failures>>

\* "The current Master Key is incorrect."
RefuseKeys(d) ==
    /\ At(d, "work")
    /\ NotRolledBack(d) /\ CanRead(d) /\ ~ KeysAccepted(d)
    /\ End(d)
    /\ UNCHANGED <<stored, header, seen, told, offered, accepted, failures>>

\* A rollback; an envelope that stays locked, or none to unlock (a sync would then make
\* another vault, which this model leaves out); the bound on revisions.
Refuse(d) ==
    /\ At(d, "work")
    /\ \/ ~ NotRolledBack(d)
       \/ ~ CanRead(d)
       \/ CanRead(d) /\ Sealed(d).revision > MaxRevision
    /\ End(d)
    /\ UNCHANGED <<stored, header, seen, told, offered, accepted, failures>>

-----------------------------------------------------------------------------
(* Pushing *)

\* A change goes on with the next provider; after the last one it is reported complete.
NextProvider(d) ==
    IF ~ IsChange(d)
    THEN End(d) /\ UNCHANGED <<told, offered>>
    ELSE IF session[d].at < Len(Providers)
    THEN /\ session' = [session EXCEPT ![d] =
              [Idle EXCEPT !.phase = "fetch", !.at = session[d].at + 1,
                           !.keys = session[d].keys]]
         /\ UNCHANGED <<told, offered>>
    ELSE /\ End(d)
         /\ told' = session[d].keys[2]
         /\ offered' = {}

Unchanged(d) ==
    Provider(d) \notin Unconditional => stored[Provider(d)] = session[d].fetched

Push(d) ==
    /\ At(d, "push")
    /\ Unchanged(d)
    /\ stored' = [stored EXCEPT ![Provider(d)] = session[d].sealed]
    /\ NextProvider(d)
    /\ UNCHANGED <<header, seen, accepted, failures>>

\* Where the provider's sessions restore the metadata, an error does.
Recover(d) ==
    IF Provider(d) \in Restoring
    THEN /\ header' = [header EXCEPT ![d] = session[d].saved.header]
         /\ seen' = [seen EXCEPT ![d] = session[d].saved.seen]
    ELSE UNCHANGED <<header, seen>>

\* The object was replaced meanwhile, or the request or its answer is lost.
PushFails(d) ==
    /\ At(d, "push")
    /\ \/ ~ Unchanged(d) /\ UNCHANGED <<stored, failures>>
       \/ Fail /\ UNCHANGED stored
       \/ Fail /\ Unchanged(d)
               /\ stored' = [stored EXCEPT ![Provider(d)] = session[d].sealed]
    /\ Recover(d)
    /\ End(d)
    /\ UNCHANGED <<told, offered, accepted>>

\* The process ends; what it recorded stays.
Crash(d) ==
    /\ ~ At(d, "idle")
    /\ Fail
    /\ End(d)
    /\ UNCHANGED <<stored, header, seen, told, offered, accepted>>

\* The settings page forgets the DEK, the header and the revisions.
ForgetSyncKey(d) ==
    /\ At(d, "idle")
    /\ header[d] # Nothing
    /\ header' = [header EXCEPT ![d] = Nothing]
    /\ seen' = [seen EXCEPT ![d] = [p \in Connected |-> 0]]
    /\ accepted' = Nothing
    /\ UNCHANGED <<stored, session, told, offered, failures>>

Next ==
    \E d \in Devices :
        \/ BeginSync(d)
        \/ BeginChange(d)
        \/ Fetch(d)
        \/ Work(d)
        \/ RefuseKeys(d)
        \/ Refuse(d)
        \/ Push(d)
        \/ PushFails(d)
        \/ Crash(d)
        \/ ForgetSyncKey(d)

Spec == Init /\ [][Next]_vars

-----------------------------------------------------------------------------
(* Properties *)

\* Until a change is complete the key in force and the new keys together open every
\* provider; once it is complete the new key alone does.
KeyInHand ==
    \A p \in Connected : stored[p] # Nothing => stored[p].wrap \in {told} \cup offered

\* A change whose keys a provider accepted is not refused at a later provider, nor when it is
\* tried again: a provider already updated counts as done. (Of one device, that visits first
\* a provider whose sessions leave the metadata: after a restore to no header, a sync may
\* join with another key before the change is tried again.)
ResumeIsNotRefused ==
    [][\A d \in Devices : RefuseKeys(d) => session[d].keys # accepted]_vars
==============================================================================
