------------------------ MODULE SyncKeyRotation_proofs ------------------------
(***************************************************************************)
(* Proofs about the change of the Master Key: its state is well typed, and *)
(* on a vault used by one device the keys in hand open every provider, for *)
(* any number of providers of any kind, failures, crashes and retries, and *)
(* a change that was accepted can be tried again.                          *)
(***************************************************************************)
EXTENDS SyncKeyRotation, TLAPS

USE ProvidersAssumption, KeysAssumption, BoundsAssumption

\* The session of a device that pushes has a sealed header, which is also the local one.
PushingSealed ==
    \A d \in Devices : At(d, "push") => session[d].sealed \in Headers

TypeInv == TypeOK /\ PushingSealed

\* The sequence of providers is a function onto the connected ones.
LEMMA ProvidersMap ==
    /\ Len(Providers) \in Nat \ {0}
    /\ DOMAIN Providers = 1 .. Len(Providers)
    /\ \A i \in 1 .. Len(Providers) : Providers[i] \in Connected
  BY DEF Connected

LEMMA IdleType == Idle \in Sessions
  <1>1. NoMetadata \in [header : Headers \cup {Nothing}, seen : [Connected -> Revisions]]
    BY DEF NoMetadata, Revisions
  <1>2. 1 \in 1 .. Len(Providers)
    BY ProvidersMap
  <1> QED
    BY <1>1, <1>2 DEF Idle, Sessions

\* A session that can read its envelope seals a header, the bound on revisions aside.
LEMMA SealedType ==
    ASSUME TypeOK, NEW d \in Devices, CanRead(d), KeysAccepted(d),
           Sealed(d).revision <= MaxRevision
    PROVE  Sealed(d) \in Headers
  <1> session[d] \in Sessions /\ header[d] \in Headers \cup {Nothing}
    BY DEF TypeOK
  <1>1. Wrapping(d) \in Keys
    BY DEF CanRead, Wrapping, Sessions, Headers
  <1>2. IsChange(d) => session[d].keys[2] \in Keys
    BY DEF IsChange, Sessions, Pairs
  <1>3. /\ Revision(header[d]) \in Nat
        /\ Revision(session[d].fetched) \in Nat
    BY DEF Revision, Sessions, Headers, Revisions
  <1>4. Sealed(d).revision \in Revisions
    BY <1>3 DEF Sealed, Revisions
  <1>5. Sealed(d).wrap \in Keys
    BY <1>1, <1>2 DEF Sealed
  <1> QED
    BY <1>4, <1>5 DEF Sealed, Headers

LEMMA InitType == Init => TypeInv
  <1> SUFFICES ASSUME Init PROVE TypeInv
    OBVIOUS
  <1>1. PICK d \in Devices, used \in SUBSET Connected :
           /\ stored = [p \in Connected |->
                IF p \in used THEN [wrap |-> FirstKey, revision |-> 1, by |-> d] ELSE Nothing]
           /\ header = [e \in Devices |->
                IF e = d THEN [wrap |-> FirstKey, revision |-> 1, by |-> d] ELSE Nothing]
           /\ seen = [e \in Devices |-> [p \in Connected |->
                IF e = d /\ p \in used THEN 1 ELSE 0]]
    BY DEF Init
  <1>2. /\ session = [e \in Devices |-> Idle]
        /\ told = FirstKey /\ offered = {} /\ accepted = Nothing /\ failures = 0
    BY DEF Init
  <1>3. [wrap |-> FirstKey, revision |-> 1, by |-> d] \in Headers
    BY DEF Headers, Revisions
  <1>4. stored \in [Connected -> Headers \cup {Nothing}]
    BY <1>1, <1>3
  <1>5. header \in [Devices -> Headers \cup {Nothing}]
    BY <1>1, <1>3
  <1>6. seen \in [Devices -> [Connected -> Revisions]]
    BY <1>1 DEF Revisions
  <1>7. session \in [Devices -> Sessions] /\ PushingSealed
    BY <1>2, IdleType DEF PushingSealed, At, Idle
  <1> QED
    BY <1>2, <1>4, <1>5, <1>6, <1>7 DEF TypeInv, TypeOK

\* One step of one device; the other devices' sessions stay.
LEMMA StepType ==
    ASSUME TypeInv, NEW d \in Devices,
           \/ BeginSync(d) \/ BeginChange(d) \/ Fetch(d) \/ Work(d) \/ RefuseKeys(d)
           \/ Refuse(d) \/ Push(d) \/ PushFails(d) \/ Crash(d) \/ ForgetSyncKey(d)
    PROVE  TypeInv'
  <1> USE IdleType DEF TypeInv
  <1>s. session[d] \in Sessions
    BY DEF TypeOK
  <1>e. ASSUME End(d) PROVE session' \in [Devices -> Sessions] /\ PushingSealed'
    BY <1>e DEF TypeOK, End, PushingSealed, At, Idle
  <1>1. CASE BeginSync(d)
    <2>1. PICK i \in DOMAIN Providers :
             session' = [session EXCEPT ![d] = [Idle EXCEPT !.phase = "fetch", !.at = i]]
      BY <1>1 DEF BeginSync
    <2>2. [Idle EXCEPT !.phase = "fetch", !.at = i] \in Sessions
      BY ProvidersMap DEF Sessions
    <2>3. session' \in [Devices -> Sessions] /\ PushingSealed'
      BY <2>1, <2>2 DEF TypeOK, PushingSealed, At, Idle
    <2> QED
      BY <1>1, <2>3 DEF BeginSync, TypeOK
  <1>2. CASE BeginChange(d)
    <2>1. PICK current \in {told} \cup offered, new \in Keys :
             /\ new # current
             /\ session' = [session EXCEPT ![d] =
                              [Idle EXCEPT !.phase = "fetch", !.keys = <<current, new>>]]
             /\ offered' = offered \cup {new}
      BY <1>2 DEF BeginChange
    <2>2. <<current, new>> \in Pairs
      BY <2>1 DEF TypeOK, Pairs
    <2>3. [Idle EXCEPT !.phase = "fetch", !.keys = <<current, new>>] \in Sessions
      BY <2>2 DEF Sessions
    <2>4. session' \in [Devices -> Sessions] /\ PushingSealed'
      BY <2>1, <2>3 DEF TypeOK, PushingSealed, At, Idle
    <2> QED
      BY <1>2, <2>1, <2>4 DEF BeginChange, TypeOK
  <1>3. CASE Fetch(d)
    <2>1. Provider(d) \in Connected
      BY <1>s, ProvidersMap DEF Provider, Sessions
    <2>2. /\ stored[Provider(d)] \in Headers \cup {Nothing}
          /\ [header |-> header[d], seen |-> seen[d]]
                \in [header : Headers \cup {Nothing}, seen : [Connected -> Revisions]]
      BY <2>1 DEF TypeOK
    <2> DEFINE fetched == [session[d] EXCEPT !.phase = "work",
                             !.fetched = stored[Provider(d)],
                             !.saved = [header |-> header[d], seen |-> seen[d]]]
    <2>3. session' \in [Devices -> Sessions]
      <3>1. fetched \in Sessions
        BY <1>s, <2>2 DEF Sessions
      <3>2. session' = [session EXCEPT ![d] = fetched]
        BY <1>3, Zenon DEF Fetch
      <3> HIDE DEF fetched
      <3> QED
        BY <3>1, <3>2 DEF TypeOK
    <2>4. PushingSealed'
      BY <1>s, <1>3 DEF Fetch, TypeOK, Sessions, PushingSealed, At
    <2> QED
      BY <1>3, <2>3, <2>4 DEF Fetch, TypeOK
  <1>4. CASE Work(d)
    <2>1. Sealed(d) \in Headers
      BY <1>4, SealedType DEF Work
    <2>2. Provider(d) \in Connected
      BY <1>s, ProvidersMap DEF Provider, Sessions
    <2>3. header' \in [Devices -> Headers \cup {Nothing}]
      BY <1>4, <2>1 DEF Work, TypeOK
    <2>4. seen' \in [Devices -> [Connected -> Revisions]]
      <3>1. Sealed(d).revision \in Revisions
        BY <2>1 DEF Headers
      <3> QED
        BY <1>4, <2>2, <3>1 DEF Work, TypeOK
    <2>5. session' \in [Devices -> Sessions] /\ PushingSealed'
      BY <1>s, <1>4, <2>1 DEF Work, TypeOK, Sessions, PushingSealed, At
    <2>6. accepted' \in Pairs \cup {Nothing}
      BY <1>s, <1>4 DEF Work, IsChange, TypeOK, Sessions
    <2> QED
      BY <1>4, <2>3, <2>4, <2>5, <2>6 DEF Work, TypeOK
  <1>5. CASE RefuseKeys(d)
    BY <1>5, <1>e DEF RefuseKeys, TypeOK
  <1>6. CASE Refuse(d)
    BY <1>6, <1>e DEF Refuse, TypeOK
  <1>7. CASE Push(d)
    <2>1. Provider(d) \in Connected
      BY <1>s, ProvidersMap DEF Provider, Sessions
    <2>2. stored' \in [Connected -> Headers \cup {Nothing}]
      BY <1>7, <2>1 DEF Push, TypeOK, PushingSealed
    <2>3. /\ session' \in [Devices -> Sessions] /\ PushingSealed'
          /\ told' \in Keys /\ offered' \subseteq Keys
      <3>1. CASE ~ IsChange(d)
        BY <1>7, <1>e, <3>1 DEF Push, NextProvider, TypeOK
      <3>2. CASE IsChange(d) /\ session[d].at < Len(Providers)
        <4> DEFINE next == [Idle EXCEPT !.phase = "fetch", !.at = session[d].at + 1,
                                        !.keys = session[d].keys]
        <4>1. session' = [session EXCEPT ![d] = next] /\ UNCHANGED <<told, offered>>
          BY <1>7, <3>2 DEF Push, NextProvider
        <4>2. next \in Sessions
          <5>1. /\ session[d].at + 1 \in 1 .. Len(Providers)
                /\ session[d].keys \in Pairs \cup {Nothing}
            BY <1>s, <3>2, ProvidersMap DEF Sessions
          <5> QED
            BY <5>1 DEF Sessions
        <4>3. next.phase = "fetch"
          BY DEF Idle
        <4> HIDE DEF next
        <4> QED
          BY <4>1, <4>2, <4>3 DEF TypeOK, PushingSealed, At
      <3>3. CASE IsChange(d) /\ ~ session[d].at < Len(Providers)
        BY <1>7, <1>s, <1>e, <3>3 DEF Push, NextProvider, IsChange, Sessions, Pairs
      <3> QED
        BY <3>1, <3>2, <3>3
    <2> QED
      BY <1>7, <2>2, <2>3 DEF Push, TypeOK
  <1>8. CASE PushFails(d)
    <2>1. Provider(d) \in Connected
      BY <1>s, ProvidersMap DEF Provider, Sessions
    <2>2. /\ stored' \in [Connected -> Headers \cup {Nothing}]
          /\ failures' \in 0 .. MaxFailures
      <3>1. \/ stored' = stored
            \/ stored' = [stored EXCEPT ![Provider(d)] = session[d].sealed]
        BY <1>8 DEF PushFails
      <3>2. session[d].sealed \in Headers
        BY <1>8 DEF PushFails, PushingSealed
      <3>3. failures' = failures \/ (failures < MaxFailures /\ failures' = failures + 1)
        BY <1>8 DEF PushFails, Fail
      <3> QED
        BY <2>1, <3>1, <3>2, <3>3 DEF TypeOK
    <2>3. /\ header' \in [Devices -> Headers \cup {Nothing}]
          /\ seen' \in [Devices -> [Connected -> Revisions]]
      BY <1>8, <1>s DEF PushFails, Recover, TypeOK, Sessions
    <2> QED
      BY <1>8, <1>e, <2>2, <2>3 DEF PushFails, TypeOK
  <1>9. CASE Crash(d)
    BY <1>9, <1>e DEF Crash, Fail, TypeOK
  <1>10. CASE ForgetSyncKey(d)
    <2>1. /\ header' \in [Devices -> Headers \cup {Nothing}]
          /\ seen' \in [Devices -> [Connected -> Revisions]]
      BY <1>10 DEF ForgetSyncKey, TypeOK, Revisions
    <2> QED
      BY <1>10, <2>1 DEF ForgetSyncKey, TypeOK, PushingSealed, At
  <1> QED
    BY <1>1, <1>2, <1>3, <1>4, <1>5, <1>6, <1>7, <1>8, <1>9, <1>10

LEMMA StutterType == TypeInv /\ UNCHANGED vars => TypeInv'
  BY DEF TypeInv, TypeOK, PushingSealed, At, vars

\* The state of a change of the Master Key is well typed: a session is for a connected
\* provider, and what it pushes is the header that sync_file sealed.
THEOREM TypeCorrect == Spec => []TypeOK
  <1>1. TypeInv /\ [Next]_vars => TypeInv'
    BY StepType, StutterType DEF Next
  <1>2. TypeInv => TypeOK
    BY DEF TypeInv
  <1> QED
    BY InitType, <1>1, <1>2, PTL DEF Spec

-----------------------------------------------------------------------------
(* The keys in hand *)

OneDevice == \A d, e \in Devices : d = e

\* What the user may know: the key in force and the new keys offered since.
Known == {told} \cup offered

Opens(h) == h # Nothing => h.wrap \in Known

\* Every header that is at a provider, on the device or in its session opens with a known
\* key, and a change has left the providers it has visited with its new key.
KeyInv ==
    /\ KeyInHand
    /\ \A d \in Devices :
          /\ Opens(header[d])
          /\ Opens(session[d].fetched)
          /\ Opens(session[d].saved.header)
          /\ At(d, "push") => Opens(session[d].sealed) /\ header[d] = session[d].sealed
          /\ IsChange(d) =>
                /\ session[d].keys[2] \in offered
                /\ \A i \in 1 .. session[d].at - 1 :
                      stored[Providers[i]] # Nothing
                         => stored[Providers[i]].wrap = session[d].keys[2]
                /\ At(d, "push") => session[d].sealed.wrap = session[d].keys[2]

LEMMA InitKeys == Init => KeyInv
  BY IdleType DEF Init, KeyInv, KeyInHand, Opens, Known, At, IsChange, Idle, NoMetadata

\* When the only device ends its session, what remains to know is what is stored and saved.
LEMMA EndKeys ==
    ASSUME TypeInv, NEW d \in Devices, \A e \in Devices : e = d, End(d),
           KeyInHand', Opens(header[d])'
    PROVE  KeyInv'
  BY DEF End, TypeInv, TypeOK, KeyInv, Opens, At, IsChange, Idle, NoMetadata

LEMMA StepKeys ==
    ASSUME TypeInv, KeyInv, NEW d \in Devices, \A e \in Devices : e = d,
           \/ BeginSync(d) \/ BeginChange(d) \/ Fetch(d) \/ Work(d) \/ RefuseKeys(d)
           \/ Refuse(d) \/ Push(d) \/ PushFails(d) \/ Crash(d) \/ ForgetSyncKey(d)
    PROVE  KeyInv'
  <1>s. session[d] \in Sessions /\ header[d] \in Headers \cup {Nothing}
    BY DEF TypeInv, TypeOK
  <1>p. Provider(d) \in Connected
    BY <1>s, ProvidersMap DEF Provider, Sessions
  <1>k. /\ KeyInHand /\ Opens(header[d])
        /\ Opens(session[d].fetched) /\ Opens(session[d].saved.header)
    BY DEF KeyInv
  <1>1. CASE BeginSync(d)
    <2>1. /\ session'[d].phase = "fetch" /\ session'[d].keys = Nothing
          /\ session'[d].fetched = Nothing /\ session'[d].saved = NoMetadata
          /\ UNCHANGED <<stored, header, told, offered>>
      <3>1. PICK i \in DOMAIN Providers :
               session' = [session EXCEPT ![d] = [Idle EXCEPT !.phase = "fetch", !.at = i]]
        BY <1>1 DEF BeginSync
      <3>2. session'[d] = [Idle EXCEPT !.phase = "fetch", !.at = i]
        BY <3>1 DEF TypeInv, TypeOK
      <3> QED
        BY <1>1, <3>2 DEF BeginSync, Idle
    <2> QED
      BY <1>k, <2>1 DEF KeyInv, KeyInHand, Opens, Known, At, IsChange, NoMetadata
  <1>2. CASE BeginChange(d)
    <2>1. PICK current \in {told} \cup offered, new \in Keys :
             /\ session' = [session EXCEPT ![d] =
                              [Idle EXCEPT !.phase = "fetch", !.keys = <<current, new>>]]
             /\ offered' = offered \cup {new}
             /\ UNCHANGED <<stored, header, told>>
      BY <1>2 DEF BeginChange
    <2>2. Known \subseteq Known'
      BY <2>1 DEF Known
    <2>3. KeyInHand' /\ Opens(header[d])'
      BY <1>k, <2>1, <2>2 DEF KeyInHand, Opens, Known
    <2>4. /\ session'[d].phase = "fetch" /\ session'[d].at = 1
          /\ session'[d].keys = <<current, new>>
          /\ session'[d].fetched = Nothing /\ session'[d].saved = NoMetadata
      BY <2>1 DEF TypeInv, TypeOK, Idle
    <2> QED
      BY <2>1, <2>3, <2>4 DEF KeyInv, Opens, At, IsChange, NoMetadata
  <1>3. CASE Fetch(d)
    <2>1. Opens(stored[Provider(d)])
      BY <1>k, <1>p DEF KeyInHand, Opens, Known
    <2>2. /\ session'[d].phase = "work" /\ session'[d].at = session[d].at
          /\ session'[d].keys = session[d].keys
          /\ session'[d].fetched = stored[Provider(d)]
          /\ session'[d].saved.header = header[d]
          /\ UNCHANGED <<stored, header, told, offered>>
      BY <1>3, <1>s DEF Fetch, TypeInv, TypeOK, Sessions
    <2> QED
      BY <1>k, <2>1, <2>2 DEF KeyInv, KeyInHand, Opens, Known, At, IsChange
  <1>4. CASE Work(d)
    <2>1. Sealed(d) \in Headers /\ CanRead(d)
      BY <1>4, SealedType DEF Work, TypeInv
    <2>2. /\ session'[d].phase = "push" /\ session'[d].at = session[d].at
          /\ session'[d].keys = session[d].keys
          /\ session'[d].fetched = session[d].fetched
          /\ session'[d].saved = session[d].saved
          /\ session'[d].sealed = Sealed(d) /\ header'[d] = Sealed(d)
          /\ UNCHANGED <<stored, told, offered>>
      BY <1>4, <1>s DEF Work, TypeInv, TypeOK, Sessions
    <2>3. Wrapping(d) \in Known
      BY <1>k, <2>1 DEF Wrapping, CanRead, Opens
    <2>4. IsChange(d) => Sealed(d).wrap = session[d].keys[2] /\ session[d].keys[2] \in Known
      BY DEF Sealed, KeyInv, Known
    <2>5. ~ IsChange(d) => Sealed(d).wrap = Wrapping(d)
      BY DEF Sealed
    <2>6. Opens(Sealed(d))
      BY <2>3, <2>4, <2>5 DEF Opens
    <2> QED
      BY <1>k, <2>2, <2>4, <2>6 DEF KeyInv, KeyInHand, Opens, Known, At, IsChange
  <1>5. CASE RefuseKeys(d)
    BY <1>5, <1>k, EndKeys DEF RefuseKeys, KeyInHand, Opens, Known
  <1>6. CASE Refuse(d)
    BY <1>6, <1>k, EndKeys DEF Refuse, KeyInHand, Opens, Known
  <1>7. CASE Push(d)
    <2>1. /\ session[d].sealed \in Headers /\ Opens(session[d].sealed)
          /\ header[d] = session[d].sealed
          /\ stored' = [stored EXCEPT ![Provider(d)] = session[d].sealed]
          /\ UNCHANGED header
      BY <1>7 DEF Push, KeyInv, TypeInv, PushingSealed
    <2>2. \A p \in Connected : stored'[p] =
             IF p = Provider(d) THEN session[d].sealed ELSE stored[p]
      BY <2>1 DEF TypeInv, TypeOK
    <2>3. ASSUME UNCHANGED <<told, offered>> PROVE KeyInHand' /\ Opens(header[d])'
      BY <1>k, <2>1, <2>2, <2>3 DEF KeyInHand, Opens, Known
    <2>4. CASE ~ IsChange(d)
      BY <1>7, <2>3, <2>4, EndKeys DEF Push, NextProvider
    <2>5. ASSUME IsChange(d)
          PROVE  \A i \in 1 .. session[d].at :
                    stored'[Providers[i]] # Nothing
                       => stored'[Providers[i]].wrap = session[d].keys[2]
      <3>1. session[d].sealed.wrap = session[d].keys[2]
        BY <1>7, <2>5 DEF Push, KeyInv
      <3>2. \A i \in 1 .. session[d].at - 1 :
               stored[Providers[i]] # Nothing
                  => stored[Providers[i]].wrap = session[d].keys[2]
        BY <2>5 DEF KeyInv
      <3>3. TAKE i \in 1 .. session[d].at
      <3>4. Providers[i] \in Connected /\ i \in 1 .. Len(Providers)
        BY <1>s, ProvidersMap DEF Sessions
      <3>5. CASE Providers[i] = Provider(d)
        BY <2>2, <3>1, <3>4, <3>5
      <3>6. CASE Providers[i] # Provider(d)
        <4>1. i \in 1 .. session[d].at - 1
          BY <1>s, <3>6, ProvidersMap DEF Provider, Sessions
        <4> QED
          BY <2>2, <3>2, <3>4, <3>6, <4>1
      <3> QED
        BY <3>5, <3>6
    <2>6. CASE IsChange(d) /\ session[d].at < Len(Providers)
      <3>1. session' = [session EXCEPT ![d] =
               [Idle EXCEPT !.phase = "fetch", !.at = session[d].at + 1,
                            !.keys = session[d].keys]]
            /\ UNCHANGED <<told, offered>>
        BY <1>7, <2>6 DEF Push, NextProvider
      <3>2. /\ session'[d].phase = "fetch" /\ session'[d].at = session[d].at + 1
            /\ session'[d].keys = session[d].keys
            /\ session'[d].fetched = Nothing /\ session'[d].saved = NoMetadata
        BY <3>1 DEF TypeInv, TypeOK, Idle
      <3>3. session'[d].at - 1 = session[d].at
        BY <1>s, <3>2, ProvidersMap DEF Sessions
      <3>4. session[d].keys[2] \in offered
        BY <2>6 DEF KeyInv
      <3> QED
        BY <2>3, <2>5, <2>6, <3>1, <3>2, <3>3, <3>4
           DEF KeyInv, Opens, At, IsChange, NoMetadata
    <2>7. CASE IsChange(d) /\ ~ session[d].at < Len(Providers)
      <3>1. /\ End(d) /\ told' = session[d].keys[2] /\ offered' = {}
        BY <1>7, <2>7 DEF Push, NextProvider
      <3>2. session[d].at = Len(Providers)
        BY <1>s, <2>7, ProvidersMap DEF Sessions
      <3>3. KeyInHand'
        BY <2>5, <2>7, <3>1, <3>2, ProvidersMap DEF KeyInHand, Connected
      <3>4. Opens(header[d])'
        BY <1>7, <2>1, <2>7, <3>1 DEF Push, KeyInv, Opens, Known
      <3> QED
        BY <3>1, <3>3, <3>4, EndKeys
    <2> QED
      BY <2>4, <2>6, <2>7
  <1>8. CASE PushFails(d)
    <2>1. /\ session[d].sealed \in Headers /\ Opens(session[d].sealed)
          /\ UNCHANGED <<told, offered>>
      BY <1>8 DEF PushFails, KeyInv, TypeInv, PushingSealed
    <2>2. \/ stored' = stored
          \/ stored' = [stored EXCEPT ![Provider(d)] = session[d].sealed]
      BY <1>8 DEF PushFails
    <2>3. KeyInHand'
      BY <1>k, <1>p, <2>1, <2>2 DEF TypeInv, TypeOK, KeyInHand, Opens, Known
    <2>4. header'[d] \in {header[d], session[d].saved.header}
      BY <1>8 DEF PushFails, Recover, TypeInv, TypeOK
    <2>5. Opens(header[d])'
      BY <1>k, <2>1, <2>4 DEF Opens, Known
    <2> QED
      BY <1>8, <2>3, <2>5, EndKeys DEF PushFails
  <1>9. CASE Crash(d)
    BY <1>9, <1>k, EndKeys DEF Crash, KeyInHand, Opens, Known
  <1>10. CASE ForgetSyncKey(d)
    <2>1. /\ header'[d] = Nothing
          /\ UNCHANGED <<stored, session, told, offered>>
      BY <1>10 DEF ForgetSyncKey, TypeInv, TypeOK
    <2> QED
      BY <1>10, <1>k, <2>1 DEF ForgetSyncKey, KeyInv, KeyInHand, Opens, Known, At, IsChange
  <1> QED
    BY <1>1, <1>2, <1>3, <1>4, <1>5, <1>6, <1>7, <1>8, <1>9, <1>10

LEMMA StutterKeys == KeyInv /\ UNCHANGED vars => KeyInv'
  BY DEF KeyInv, KeyInHand, Opens, Known, At, IsChange, vars

\* One device syncs the vault: the keys the user was told to keep open every provider while a
\* change is unfinished, and the new key opens every provider once it is reported complete,
\* whatever fails, crashes or is forgotten in between.
THEOREM KeysStayInHand ==
    ASSUME OneDevice
    PROVE  Spec => []KeyInHand
  <1>1. TypeInv /\ KeyInv /\ [Next]_vars => TypeInv' /\ KeyInv'
    BY StepType, StutterType, StepKeys, StutterKeys DEF Next, OneDevice
  <1>2. KeyInv => KeyInHand
    BY DEF KeyInv
  <1> QED
    BY InitType, InitKeys, <1>1, <1>2, PTL DEF Spec

-----------------------------------------------------------------------------
(* Trying a change again *)

\* The settings page visits first a provider whose sessions leave the metadata as it is.
FirstKeepsHeader == Providers[1] \notin Restoring

\* A header that a provider has accepted with the pair of keys last accepted.
OfAccepted(h) == h # Nothing /\ h.wrap \in {accepted[1], accepted[2]}

\* Once a pair is accepted the device keeps a header that opens with it, which needs that
\* an error does not bring back an older one: what a session saved is the local
\* header, and a change has one from its second provider on.
AcceptInv ==
    \A d \in Devices :
       /\ accepted # Nothing => OfAccepted(header[d])
       /\ At(d, "work") => session[d].saved.header = header[d]
       /\ At(d, "push") /\ accepted # Nothing /\ Provider(d) \in Restoring
             => OfAccepted(session[d].saved.header)
       /\ At(d, "push") => header[d] # Nothing
       /\ ~ At(d, "idle") /\ IsChange(d) /\ session[d].at > 1 => header[d] # Nothing

LEMMA InitAccepts == Init => AcceptInv
  BY IdleType DEF Init, AcceptInv, At, IsChange, Idle

\* The only device ends its session and its header, if not unchanged, is one accepted.
LEMMA EndAccepts ==
    ASSUME TypeInv, AcceptInv, NEW d \in Devices, OneDevice, End(d), UNCHANGED accepted,
           accepted # Nothing => OfAccepted(header'[d])
    PROVE  AcceptInv'
  BY DEF End, TypeInv, TypeOK, AcceptInv, OfAccepted, OneDevice, At, IsChange, Idle

LEMMA StepAccepts ==
    ASSUME TypeInv, AcceptInv, NEW d \in Devices, OneDevice, FirstKeepsHeader,
           \/ BeginSync(d) \/ BeginChange(d) \/ Fetch(d) \/ Work(d) \/ RefuseKeys(d)
           \/ Refuse(d) \/ Push(d) \/ PushFails(d) \/ Crash(d) \/ ForgetSyncKey(d)
    PROVE  AcceptInv'
  <1>s. /\ session[d] \in Sessions /\ header[d] \in Headers \cup {Nothing}
        /\ accepted \in Pairs \cup {Nothing} /\ session \in [Devices -> Sessions]
        /\ header \in [Devices -> Headers \cup {Nothing}]
    BY DEF TypeInv, TypeOK
  <1>k. /\ accepted # Nothing => OfAccepted(header[d])
        /\ At(d, "work") => session[d].saved.header = header[d]
        /\ At(d, "push") /\ accepted # Nothing /\ Provider(d) \in Restoring
              => OfAccepted(session[d].saved.header)
        /\ At(d, "push") => header[d] # Nothing
        /\ ~ At(d, "idle") /\ IsChange(d) /\ session[d].at > 1 => header[d] # Nothing
    BY DEF AcceptInv
  <1>o. \A e \in Devices : e = d
    BY DEF OneDevice
  <1>1. CASE BeginSync(d) \/ BeginChange(d)
    <2>1. /\ session'[d].phase = "fetch" /\ UNCHANGED <<header, accepted>>
          /\ session'[d].keys = Nothing \/ session'[d].at = 1
      <3>1. CASE BeginSync(d)
        <4>1. PICK i \in DOMAIN Providers :
                 session' = [session EXCEPT ![d] = [Idle EXCEPT !.phase = "fetch", !.at = i]]
          BY <3>1 DEF BeginSync
        <4>2. session'[d] = [Idle EXCEPT !.phase = "fetch", !.at = i]
          BY <1>s, <4>1
        <4> QED
          BY <3>1, <4>2 DEF BeginSync, Idle
      <3>2. CASE BeginChange(d)
        <4>1. PICK current \in {told} \cup offered, new \in Keys :
                 session' = [session EXCEPT ![d] =
                               [Idle EXCEPT !.phase = "fetch", !.keys = <<current, new>>]]
          BY <3>2 DEF BeginChange
        <4>2. session'[d] = [Idle EXCEPT !.phase = "fetch", !.keys = <<current, new>>]
          BY <1>s, <4>1
        <4> QED
          BY <3>2, <4>2 DEF BeginChange, Idle
      <3> QED
        BY <1>1, <3>1, <3>2
    <2> QED
      BY <1>o, <1>k, <2>1 DEF AcceptInv, OfAccepted, At, IsChange
  <1>2. CASE Fetch(d)
    <2>1. /\ session'[d].phase = "work" /\ session'[d].at = session[d].at
          /\ session'[d].keys = session[d].keys /\ session'[d].saved.header = header[d]
          /\ UNCHANGED <<header, accepted>> /\ ~ At(d, "idle")
      BY <1>2, <1>s DEF Fetch, Sessions, At
    <2> QED
      BY <1>o, <1>k, <2>1 DEF AcceptInv, OfAccepted, At, IsChange
  <1>3. CASE Work(d)
    <2>1. /\ Sealed(d) \in Headers /\ KeysAccepted(d) /\ At(d, "work")
          /\ Sealed(d) # Nothing
      BY <1>3, SealedType DEF Work, TypeInv
    <2>2. /\ session'[d].phase = "push" /\ session'[d].at = session[d].at
          /\ session'[d].keys = session[d].keys
          /\ session'[d].saved = session[d].saved /\ header'[d] = Sealed(d)
          /\ accepted' = IF IsChange(d) THEN session[d].keys ELSE accepted
      BY <1>3, <1>s DEF Work, Sessions
    <2>3. accepted' # Nothing => OfAccepted(header[d])'
      <3>1. CASE IsChange(d)
        BY <2>1, <2>2, <3>1 DEF OfAccepted, Sealed
      <3>2. CASE ~ IsChange(d)
        BY <1>k, <2>1, <2>2, <3>2 DEF OfAccepted, Sealed, Wrapping
      <3> QED
        BY <3>1, <3>2
    <2>4. accepted' # Nothing /\ Provider(d) \in Restoring => OfAccepted(session[d].saved.header)'
      <3>1. session[d].saved.header = header[d]
        BY <1>k, <2>1
      <3>2. CASE IsChange(d)
        <4>1. Provider(d) \in Restoring => session[d].at # 1
          BY DEF FirstKeepsHeader, Provider
        <4>2. Provider(d) \in Restoring => header[d] # Nothing
          BY <1>s, <1>k, <2>1, <3>2, <4>1, ProvidersMap DEF Sessions, At
        <4>3. header[d] # Nothing => header[d].wrap \in {session[d].keys[1], session[d].keys[2]}
          BY <2>1, <3>2 DEF KeysAccepted, Wrapping
        <4> QED
          BY <2>2, <3>1, <3>2, <4>2, <4>3 DEF OfAccepted
      <3>3. CASE ~ IsChange(d)
        BY <1>k, <2>2, <3>1, <3>3 DEF OfAccepted
      <3> QED
        BY <3>2, <3>3
    <2>5. Provider(d)' = Provider(d) /\ header'[d] # Nothing
      BY <2>1, <2>2 DEF Provider
    <2> QED
      BY <1>o, <2>2, <2>3, <2>4, <2>5 DEF AcceptInv, At, OfAccepted
  <1>4. CASE RefuseKeys(d) \/ Refuse(d) \/ Crash(d)
    <2>1. End(d) /\ UNCHANGED <<header, accepted>>
      BY <1>4 DEF RefuseKeys, Refuse, Crash
    <2> QED
      BY <1>k, <2>1, EndAccepts
  <1>5. CASE Push(d)
    <2>1. UNCHANGED <<header, accepted>> /\ header[d] # Nothing
      BY <1>5, <1>k DEF Push
    <2>2. CASE End(d)
      BY <1>5, <1>k, <2>2, EndAccepts DEF Push
    <2>3. CASE /\ IsChange(d)
               /\ session' = [session EXCEPT ![d] =
                    [Idle EXCEPT !.phase = "fetch", !.at = session[d].at + 1,
                                 !.keys = session[d].keys]]
      <3>1. session'[d].phase = "fetch" /\ UNCHANGED <<header, accepted>>
        BY <1>5, <1>s, <2>3 DEF Push, Idle
      <3> QED
        BY <1>o, <1>k, <2>1, <3>1 DEF AcceptInv, OfAccepted, At, IsChange
    <2> QED
      BY <1>5, <2>2, <2>3 DEF Push, NextProvider
  <1>6. CASE PushFails(d)
    <2>1. End(d) /\ UNCHANGED accepted /\ At(d, "push")
      BY <1>6 DEF PushFails
    <2>2. \/ header'[d] = header[d]
          \/ Provider(d) \in Restoring /\ header'[d] = session[d].saved.header
      BY <1>6, <1>s DEF PushFails, Recover
    <2> QED
      BY <1>k, <2>1, <2>2, EndAccepts
  <1>7. CASE ForgetSyncKey(d)
    <2>1. accepted' = Nothing /\ session' = session /\ At(d, "idle")
      BY <1>7 DEF ForgetSyncKey
    <2> QED
      BY <1>o, <2>1 DEF AcceptInv, At, IsChange
  <1> QED
    BY <1>1, <1>2, <1>3, <1>4, <1>5, <1>6, <1>7

LEMMA StutterAccepts == AcceptInv /\ UNCHANGED vars => AcceptInv'
  BY DEF AcceptInv, OfAccepted, At, IsChange, Provider, vars

\* One device changes the Master Key, visiting first a provider whose sessions do not restore
\* the metadata: a change whose keys one provider accepted is refused by none after it, nor
\* when it is tried again, whatever failed, crashed or was synced in between.
THEOREM ResumesAreAccepted ==
    ASSUME OneDevice, FirstKeepsHeader
    PROVE  Spec => ResumeIsNotRefused
  <1> DEFINE Kept == \A d \in Devices : RefuseKeys(d) => session[d].keys # accepted
  <1>1. TypeInv /\ AcceptInv /\ [Next]_vars => TypeInv' /\ AcceptInv'
    BY StepType, StutterType, StepAccepts, StutterAccepts DEF Next
  <1>2. TypeInv /\ AcceptInv => Kept
    <2> SUFFICES ASSUME AcceptInv, NEW d \in Devices, RefuseKeys(d), session[d].keys = accepted
                 PROVE  FALSE
      OBVIOUS
    <2>1. IsChange(d) /\ ~ KeysAccepted(d)
      BY DEF RefuseKeys, KeysAccepted
    <2>2. OfAccepted(header[d])
      BY <2>1 DEF AcceptInv, IsChange
    <2>3. Wrapping(d) \in {session[d].keys[1], session[d].keys[2]}
      BY <2>2 DEF OfAccepted, Wrapping
    <2> QED
      BY <2>1, <2>3 DEF KeysAccepted
  <1>3. TypeInv /\ AcceptInv => [Kept]_vars
    BY <1>2
  <1> HIDE DEF Kept
  <1>4. Spec => [][Kept]_vars
    BY InitType, InitAccepts, <1>1, <1>3, PTL DEF Spec
  <1> QED
    BY <1>4 DEF Kept, ResumeIsNotRefused
===============================================================================
