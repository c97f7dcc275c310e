--------------------------- MODULE VaultSync_proofs ---------------------------
(***************************************************************************)
(* Proofs about VaultSync for every set of devices, sessions and records,  *)
(* every number of attempts and every bound: every variable keeps its      *)
(* type; smart merge loses nothing, whatever the user, the other sessions  *)
(* and the network do between a fetch and a push, so that the protocol     *)
(* implements the abstract vault; and stored revisions grow.  The second   *)
(* part is about the guard of a push and what a device keeps afterwards.   *)
(***************************************************************************)
EXTENDS VaultSync, TLAPS

-----------------------------------------------------------------------------
(* Values *)

LEMMA ZeroTypes ==
    /\ NoRows \in Rows
    /\ NoEnvelope \in Envelopes
    /\ NoMetadata \in Metadata
    /\ IdleSession \in SessionStates
BY BoundsAssumption
   DEF NoRows, Rows, Stamps, NoEnvelope, Envelopes, Ids, Vaults, Revisions, NoMetadata,
       Metadata, IdleSession, SessionStates, Phases

\* The state of a session after an attempt that pushed nothing more: idle, restoring the
\* metadata, or fetching again with nothing kept from the attempt.
LeftWith(s, x) ==
    \/ x = IdleSession
    \/ x = [sess[s] EXCEPT !.phase = "abort"]
    \/ sess[s].attempt + 1 < MaxAttempts /\ x = [sess[s] EXCEPT !.phase = "retry"]
    \/ /\ sess[s].attempt + 1 < MaxAttempts
       /\ x = [IdleSession EXCEPT !.phase = "fetch", !.attempt = sess[s].attempt + 1,
                 !.strategy = sess[s].strategy]

LEMMA LeavingSteps ==
    ASSUME TypeOK, NEW s \in Sessions, Leave(s) \/ GiveUp(s) \/ TryAgain(s)
    PROVE  \E x : LeftWith(s, x) /\ sess' = [sess EXCEPT ![s] = x]
<1>1. sess[s].attempt \in Nat /\ sess[s].attempt <= MaxAttempts - 1 /\ MaxAttempts \in Nat
  BY BoundsAssumption DEF TypeOK, SessionStates
<1>2. CASE Leave(s)
  BY <1>2 DEF Leave, LeftWith
<1>3. CASE GoTo(s, "abort")
  BY <1>3 DEF GoTo, LeftWith
<1>4. CASE GiveUp(s)
  BY <1>2, <1>3, <1>4 DEF GiveUp
<1>5. CASE TryAgain(s) /\ ~ GiveUp(s)
  <2> DEFINE y == [IdleSession EXCEPT !.phase = "fetch", !.attempt = sess[s].attempt + 1,
                     !.strategy = sess[s].strategy]
             z == [sess[s] EXCEPT !.phase = "retry"]
  <2>1. sess[s].attempt + 1 < MaxAttempts
    BY <1>1, <1>5 DEF TryAgain
  <2>2. sess' = [sess EXCEPT ![s] = y] \/ sess' = [sess EXCEPT ![s] = z]
    BY <1>5 DEF TryAgain, GoTo
  <2>3. LeftWith(s, y) /\ LeftWith(s, z)
    BY <2>1 DEF LeftWith
  <2> QED BY <2>2, <2>3
<1> QED BY <1>2, <1>4, <1>5

LEMMA LeftTypes ==
    ASSUME TypeOK, NEW s \in Sessions, NEW x, LeftWith(s, x)
    PROVE  x \in SessionStates
<1>1. sess[s] \in SessionStates /\ IdleSession \in SessionStates
  BY ZeroTypes DEF TypeOK
<1>2. CASE x = [sess[s] EXCEPT !.phase = "abort"] \/ x = [sess[s] EXCEPT !.phase = "retry"]
  BY <1>1, <1>2 DEF SessionStates, Phases
<1>3. CASE /\ sess[s].attempt + 1 < MaxAttempts
           /\ x = [IdleSession EXCEPT !.phase = "fetch", !.attempt = sess[s].attempt + 1,
                     !.strategy = sess[s].strategy]
  <2>1. sess[s].attempt + 1 \in 0 .. MaxAttempts - 1
    BY <1>1, <1>3, BoundsAssumption DEF SessionStates
  <2> QED BY <1>1, <1>3, <2>1 DEF SessionStates, Phases
<1> QED BY <1>1, <1>2, <1>3 DEF LeftWith

LEMMA ImportedTypes ==
    ASSUME TypeOK, NEW s \in Sessions, NEW rows \in Rows
    PROVE  Imported(s, rows) \in Rows
<1>1. sess[s].fetched.rows \in Rows
  BY DEF TypeOK, SessionStates, Envelopes
<1>2. NewestRows(rows, sess[s].fetched.rows) \in Rows
  BY <1>1 DEF NewestRows, Rows, Greater
<1> QED BY <1>1, <1>2 DEF Imported

LEMMA HeaderTypes ==
    ASSUME NEW m \in Metadata, NEW e \in Envelopes
    PROVE  SucceededHeader(m, e) \in [vault : Ids, revision : Revisions]
BY DEF Metadata, Envelopes, SucceededHeader, Greater

-----------------------------------------------------------------------------
(* Types *)

\* Revisions come from sealed envelopes: none exceeds the number sealed so far, which is
\* why a revision never leaves its type.
RevisionsMinted ==
    /\ remote.revision <= minted
    /\ \A e \in history : e.revision <= minted
    /\ \A d \in Devices : meta[d].revision <= minted
    /\ \A s \in Sessions : /\ sess[s].fetched.revision <= minted
                           /\ sess[s].base.revision <= minted
                           /\ sess[s].sealed.revision <= minted
                           /\ sess[s].saved.revision <= minted

\* A session that will make another attempt has one left.
AttemptsLeft == \A s \in Sessions : At(s, "retry") => sess[s].attempt + 1 < MaxAttempts

TypeInv == TypeOK /\ RevisionsMinted /\ AttemptsLeft

\* The parts of TypeInv that speak of the sessions, in the next state.
SessionsTyped ==
    /\ sess' \in [Sessions -> SessionStates]
    /\ \A s \in Sessions : /\ sess'[s].fetched.revision <= minted'
                           /\ sess'[s].base.revision <= minted'
                           /\ sess'[s].sealed.revision <= minted'
                           /\ sess'[s].saved.revision <= minted'
    /\ AttemptsLeft'

LEMMA OneSessionTyped ==
    ASSUME TypeInv, UNCHANGED minted, NEW s \in Sessions, NEW x \in SessionStates,
           sess' = [sess EXCEPT ![s] = x],
           x.fetched.revision <= minted, x.base.revision <= minted,
           x.sealed.revision <= minted, x.saved.revision <= minted,
           x.phase # "retry" \/ x.attempt + 1 < MaxAttempts
    PROVE  SessionsTyped
BY DEF TypeInv, TypeOK, RevisionsMinted, SessionsTyped, AttemptsLeft, At

LEMMA LeftWithTyped ==
    ASSUME TypeInv, UNCHANGED minted, NEW s \in Sessions,
           \E x : LeftWith(s, x) /\ sess' = [sess EXCEPT ![s] = x]
    PROVE  SessionsTyped
<1>1. PICK x : LeftWith(s, x) /\ sess' = [sess EXCEPT ![s] = x]
  OBVIOUS
<1>2. x \in SessionStates
  BY <1>1, LeftTypes DEF TypeInv
<1>3. minted \in Nat /\ 0 <= minted
  BY BoundsAssumption DEF TypeInv, TypeOK, Ids
<1>4. sess[s] \in SessionStates
  BY DEF TypeInv, TypeOK
<1>5. /\ x.fetched.revision <= minted /\ x.base.revision <= minted
      /\ x.sealed.revision <= minted /\ x.saved.revision <= minted
  <2>1. CASE x = [sess[s] EXCEPT !.phase = "abort"] \/ x = [sess[s] EXCEPT !.phase = "retry"]
    BY <1>4, <2>1 DEF TypeInv, RevisionsMinted, SessionStates
  <2>2. CASE x.fetched = NoEnvelope /\ x.base = IdleSession.base
             /\ x.sealed = NoEnvelope /\ x.saved = NoMetadata
    BY <1>3, <2>2 DEF IdleSession, NoEnvelope, NoMetadata
  <2>3. CASE x = IdleSession
    BY <2>2, <2>3 DEF IdleSession
  <2>4. CASE x = [IdleSession EXCEPT !.phase = "fetch", !.attempt = sess[s].attempt + 1,
                     !.strategy = sess[s].strategy]
    BY <2>2, <2>4 DEF IdleSession
  <2> QED BY <1>1, <2>1, <2>3, <2>4 DEF LeftWith
<1>6. x.phase # "retry" \/ x.attempt + 1 < MaxAttempts
  <2>1. CASE x = [sess[s] EXCEPT !.phase = "abort"]
    BY <1>4, <2>1 DEF SessionStates
  <2>2. CASE sess[s].attempt + 1 < MaxAttempts /\ x = [sess[s] EXCEPT !.phase = "retry"]
    BY <1>4, <2>2 DEF SessionStates
  <2>3. CASE x = IdleSession
    BY <2>3 DEF IdleSession
  <2>4. CASE x = [IdleSession EXCEPT !.phase = "fetch", !.attempt = sess[s].attempt + 1,
                     !.strategy = sess[s].strategy]
    BY <2>4 DEF IdleSession
  <2> QED BY <1>1, <2>1, <2>2, <2>3, <2>4 DEF LeftWith
<1> QED BY <1>1, <1>2, <1>5, <1>6, OneSessionTyped

LEMMA LeavingTyped ==
    ASSUME TypeInv, UNCHANGED minted, NEW s \in Sessions,
           Leave(s) \/ GiveUp(s) \/ TryAgain(s)
    PROVE  SessionsTyped
BY LeavingSteps, LeftWithTyped DEF TypeInv

LEMMA SealedTypes ==
    ASSUME TypeInv, NEW s \in Sessions, minted < MaxSnapshots
    PROVE  /\ NewEnvelope(s) \in Envelopes
           /\ NewEnvelope(s).revision <= minted + 1
<1>1. minted \in Nat /\ minted + 1 \in Ids
  BY BoundsAssumption DEF TypeInv, TypeOK, Ids
<1>2. DeviceOf[s] \in Devices
  BY SessionsAssumption
<1>3. sess[s].base \in [vault : Ids, revision : Revisions]
  BY DEF TypeInv, TypeOK, SessionStates
<1>4. sess[s].base.revision <= minted
  BY DEF TypeInv, RevisionsMinted
<1>5. sess[s].base.revision + 1 \in Revisions
  BY <1>1, <1>3, <1>4, BoundsAssumption DEF Revisions, Ids
<1> QED BY <1>1, <1>2, <1>3, <1>4, <1>5, BoundsAssumption
        DEF NewEnvelope, Envelopes, TypeInv, TypeOK, Ids, Revisions

LEMMA TypeInvInit == Init => TypeInv
<1> SUFFICES ASSUME Init PROVE TypeInv
  OBVIOUS
<1>1. TypeOK
  BY ZeroTypes, BoundsAssumption
     DEF Init, TypeOK, Rows, Stamps, Revisions, Ids, Interruptions
<1>2. RevisionsMinted
  BY DEF Init, RevisionsMinted, NoEnvelope, NoMetadata, IdleSession
<1>3. AttemptsLeft
  BY DEF Init, AttemptsLeft, At, IdleSession
<1> QED BY <1>1, <1>2, <1>3 DEF TypeInv

\* Only the metadata of one device changes, to metadata whose revision is minted.
LEMMA MetadataTyped ==
    ASSUME TypeInv, UNCHANGED <<remote, history, data, clock, acked, spent>>,
           minted' \in Ids, minted' >= minted, SessionsTyped,
           NEW d \in Devices, NEW m \in Metadata, m.revision <= minted',
           meta' = [meta EXCEPT ![d] = m]
    PROVE  TypeInv'
<1>1. minted \in Nat /\ minted' \in Nat
  BY BoundsAssumption DEF TypeInv, TypeOK, Ids
<1>2. TypeOK'
  BY DEF TypeInv, TypeOK, SessionsTyped
<1>3. /\ remote.revision \in Nat
      /\ \A e \in history : e.revision \in Nat
      /\ \A e \in Devices : meta[e].revision \in Nat
  BY BoundsAssumption DEF TypeInv, TypeOK, Envelopes, Metadata, Revisions
<1>4. RevisionsMinted'
  BY <1>1, <1>3 DEF TypeInv, TypeOK, RevisionsMinted, SessionsTyped
<1> QED BY <1>2, <1>4 DEF TypeInv, SessionsTyped

\* The provider keeps what it has or stores the envelope of one session.
LEMMA StoreTyped ==
    ASSUME TypeInv, UNCHANGED <<data, clock, meta, minted>>, SessionsTyped,
           acked' \in [Devices -> Revisions], spent' \in [Interruptions -> Nat],
           \/ UNCHANGED <<remote, history>>
           \/ \E e \in Envelopes : Store(e) /\ e.revision <= minted
    PROVE  TypeInv'
<1>1. TypeOK'
  BY DEF TypeInv, TypeOK, SessionsTyped, Store
<1>2. RevisionsMinted'
  BY DEF TypeInv, TypeOK, RevisionsMinted, SessionsTyped, Store
<1> QED BY <1>1, <1>2 DEF TypeInv, SessionsTyped

LEMMA SpentTyped == ASSUME TypeOK, NEW i \in Interruptions, Spend(i)
                    PROVE  spent' \in [Interruptions -> Nat]
BY DEF TypeOK, Spend

LEMMA TypeInvNext == TypeInv /\ [Next]_vars => TypeInv'
<1> SUFFICES ASSUME TypeInv, [Next]_vars PROVE TypeInv'
  OBVIOUS
<1>1. /\ minted \in Nat /\ minted \in Ids /\ 0 <= minted
      /\ acked \in [Devices -> Revisions]
      /\ spent \in [Interruptions -> Nat]
      /\ sess \in [Sessions -> SessionStates]
      /\ remote \in Envelopes
  BY BoundsAssumption DEF TypeInv, TypeOK, Ids
<1>2. ASSUME NEW s \in Sessions
      PROVE  /\ DeviceOf[s] \in Devices
             /\ sess[s] \in SessionStates
             /\ sess[s].fetched \in Envelopes /\ sess[s].fetched.revision <= minted
             /\ sess[s].base.revision <= minted
             /\ sess[s].sealed \in Envelopes /\ sess[s].sealed.revision <= minted
             /\ sess[s].saved \in Metadata /\ sess[s].saved.revision <= minted
  BY <1>1, SessionsAssumption DEF TypeInv, RevisionsMinted, SessionStates
<1>3. ASSUME NEW s \in Sessions, Leave(s) \/ GiveUp(s) \/ TryAgain(s), UNCHANGED minted
      PROVE  SessionsTyped
  BY <1>3, LeavingTyped
<1>4. ASSUME NEW s \in Sessions, NEW p \in Phases \ {"retry"}, GoTo(s, p), UNCHANGED minted
      PROVE  SessionsTyped
  <2> DEFINE x == [sess[s] EXCEPT !.phase = p]
  <2>1. x \in SessionStates /\ sess' = [sess EXCEPT ![s] = x]
    BY <1>2, <1>4 DEF GoTo, SessionStates
  <2>2. /\ x.fetched.revision <= minted /\ x.base.revision <= minted
        /\ x.sealed.revision <= minted /\ x.saved.revision <= minted
        /\ x.phase # "retry"
    BY <1>2 DEF SessionStates
  <2> HIDE DEF x
  <2> QED BY <1>4, <2>1, <2>2, OneSessionTyped
<1>5. ASSUME NEW d \in Devices, NEW r \in Records, Edit(d, r)
      PROVE  TypeInv'
  <2>1. clock + 1 \in Stamps /\ clock' = clock + 1
    BY <1>5, BoundsAssumption DEF Edit, TypeInv, TypeOK, Stamps
  <2>2. data' \in [Devices -> Rows]
    BY <1>5, <2>1 DEF Edit, TypeInv, TypeOK, Rows
  <2> QED BY <1>5, <2>1, <2>2 DEF Edit, TypeInv, TypeOK, RevisionsMinted, AttemptsLeft, At
<1>6. ASSUME NEW s \in Sessions, Begin(s)
      PROVE  TypeInv'
  <2>1. PICK strategy \in Strategies :
           sess' = [sess EXCEPT ![s].phase = "fetch", ![s].strategy = strategy]
    BY <1>6 DEF Begin
  <2> DEFINE x == [sess[s] EXCEPT !.phase = "fetch", !.strategy = strategy]
  <2>2. x \in SessionStates /\ sess' = [sess EXCEPT ![s] = x]
    BY <1>1, <1>2, <2>1, StrategiesAssumption DEF SessionStates, Phases
  <2>3. /\ x.fetched.revision <= minted /\ x.base.revision <= minted
        /\ x.sealed.revision <= minted /\ x.saved.revision <= minted
        /\ x.phase # "retry"
    BY <1>2 DEF SessionStates
  <2> HIDE DEF x
  <2>4. SessionsTyped
    BY <1>6, <2>2, <2>3, OneSessionTyped DEF Begin
  <2> QED BY <1>1, <1>6, <2>4, StoreTyped DEF Begin
<1>7. ASSUME NEW s \in Sessions, Fetch(s)
      PROVE  TypeInv'
  <2> DEFINE x == [sess[s] EXCEPT !.phase = "import", !.fetched = remote]
  <2>1. x \in SessionStates /\ sess' = [sess EXCEPT ![s] = x]
    BY <1>1, <1>2, <1>7 DEF Fetch, SessionStates, Phases
  <2>2. /\ x.fetched.revision <= minted /\ x.base.revision <= minted
        /\ x.sealed.revision <= minted /\ x.saved.revision <= minted
        /\ x.phase # "retry"
    BY <1>2 DEF SessionStates, TypeInv, RevisionsMinted
  <2> HIDE DEF x
  <2>3. SessionsTyped
    BY <1>7, <2>1, <2>2, OneSessionTyped DEF Fetch
  <2> QED BY <1>1, <1>7, <2>3, StoreTyped DEF Fetch
<1>8. ASSUME NEW s \in Sessions, FetchFails(s)
      PROVE  TypeInv'
  BY <1>1, <1>3, <1>8, SpentTyped, StoreTyped DEF FetchFails, TypeInv, Interruptions
<1>9. ASSUME NEW s \in Sessions, FetchConflict(s)
      PROVE  TypeInv'
  <2> DEFINE x == [sess[s] EXCEPT !.attempt = sess[s].attempt + 1]
  <2>1. sess' = [sess EXCEPT ![s] = x]
    BY <1>1, <1>9 DEF FetchConflict
  <2>2. sess[s].attempt + 1 \in 0 .. MaxAttempts - 1
    BY <1>2, <1>9, BoundsAssumption DEF FetchConflict, SessionStates
  <2>3. x \in SessionStates
    BY <1>2, <2>2 DEF SessionStates
  <2>4. /\ x.fetched.revision <= minted /\ x.base.revision <= minted
        /\ x.sealed.revision <= minted /\ x.saved.revision <= minted
        /\ x.phase # "retry"
    BY <1>2, <1>9 DEF SessionStates, FetchConflict, At
  <2> HIDE DEF x
  <2>5. SessionsTyped
    BY <1>9, <2>1, <2>3, <2>4, OneSessionTyped DEF FetchConflict
  <2> QED BY <1>1, <1>9, <2>5, SpentTyped, StoreTyped
          DEF FetchConflict, TypeInv, Interruptions
<1>10. ASSUME NEW s \in Sessions, Import(s)
       PROVE  TypeInv'
  <2> DEFINE d == DeviceOf[s]
             header == SucceededHeader(meta[d], sess[s].fetched)
             x == [sess[s] EXCEPT !.phase = "seal", !.saved = meta[d], !.base = header]
  <2>1. d \in Devices /\ meta[d] \in Metadata /\ meta[d].revision <= minted
    BY <1>2 DEF TypeInv, TypeOK, RevisionsMinted
  <2>2. header \in [vault : Ids, revision : Revisions] /\ header.revision <= minted
    BY <1>2, <2>1, HeaderTypes DEF SucceededHeader, Greater
  <2>3. x \in SessionStates /\ sess' = [sess EXCEPT ![s] = x]
    BY <1>1, <1>2, <1>10, <2>1, <2>2 DEF Import, SessionStates, Phases
  <2>4. /\ x.fetched.revision <= minted /\ x.base.revision <= minted
        /\ x.sealed.revision <= minted /\ x.saved.revision <= minted
        /\ x.phase # "retry"
    BY <1>2, <2>1, <2>2 DEF SessionStates
  <2>5. data' \in [Devices -> Rows]
    BY <1>10, <2>1, ImportedTypes DEF Import, TypeInv, TypeOK
  <2> HIDE DEF x
  <2>6. SessionsTyped
    BY <1>10, <2>3, <2>4, OneSessionTyped DEF Import
  <2> QED BY <1>10, <2>5, <2>6 DEF Import, TypeInv, TypeOK, RevisionsMinted, SessionsTyped
<1>11. ASSUME NEW s \in Sessions, Refuse(s)
       PROVE  TypeInv'
  <2>1. CASE Leave(s)
    BY <1>1, <1>3, <1>11, <2>1, StoreTyped DEF Refuse
  <2>2. CASE ~ Leave(s)
    <3> DEFINE d == DeviceOf[s]
               x == [sess[s] EXCEPT !.phase = "abort", !.saved = meta[d]]
    <3>1. d \in Devices /\ meta[d] \in Metadata /\ meta[d].revision <= minted
      BY <1>2 DEF TypeInv, TypeOK, RevisionsMinted
    <3>2. x \in SessionStates /\ sess' = [sess EXCEPT ![s] = x]
      BY <1>1, <1>2, <1>11, <2>2, <3>1 DEF Refuse, SessionStates, Phases
    <3>3. /\ x.fetched.revision <= minted /\ x.base.revision <= minted
          /\ x.sealed.revision <= minted /\ x.saved.revision <= minted
          /\ x.phase # "retry"
      BY <1>2, <3>1 DEF SessionStates
    <3> HIDE DEF x
    <3>4. SessionsTyped
      BY <1>11, <3>2, <3>3, OneSessionTyped DEF Refuse
    <3> QED BY <1>1, <1>11, <3>4, StoreTyped DEF Refuse
  <2> QED BY <2>1, <2>2
<1>12. ASSUME NEW s \in Sessions, Seal(s)
       PROVE  TypeInv'
  <2> DEFINE d == DeviceOf[s]
             e == NewEnvelope(s)
             x == [sess[s] EXCEPT !.phase = "remember", !.sealed = e]
             m == [meta[d] EXCEPT !.vault = e.vault, !.revision = e.revision]
  <2>1. e \in Envelopes /\ e.revision <= minted + 1 /\ minted' = minted + 1
    BY <1>12, SealedTypes DEF Seal
  <2>2. minted' \in Ids /\ minted' >= minted
    BY <1>1, <1>12, BoundsAssumption DEF Seal, Ids
  <2>3. d \in Devices /\ meta[d] \in Metadata
    BY <1>2 DEF TypeInv, TypeOK
  <2>4. m \in Metadata /\ m.revision <= minted' /\ meta' = [meta EXCEPT ![d] = m]
    BY <1>12, <2>1, <2>3 DEF Seal, TypeInv, TypeOK, Metadata, Envelopes
  <2>5. x \in SessionStates /\ sess' = [sess EXCEPT ![s] = x]
        /\ x.sealed.revision <= minted' /\ x.phase # "retry"
    BY <1>1, <1>2, <1>12, <2>1 DEF Seal, SessionStates, Phases
  <2>6. ASSUME NEW t \in Sessions, t # s
        PROVE  sess'[t] = sess[t]
    BY <2>5, <2>6 DEF TypeInv, TypeOK
  <2>7. ASSUME NEW t \in Sessions
        PROVE  /\ sess[t].fetched.revision \in Nat /\ sess[t].base.revision \in Nat
               /\ sess[t].sealed.revision \in Nat /\ sess[t].saved.revision \in Nat
    BY <1>1, BoundsAssumption DEF SessionStates, Envelopes, Metadata, Revisions
  <2>8. /\ x.fetched = sess[s].fetched /\ x.base = sess[s].base /\ x.saved = sess[s].saved
    BY <1>2 DEF SessionStates
  <2>9. sess'[s] = x /\ sess' \in [Sessions -> SessionStates]
    BY <1>1, <2>5
  <2> HIDE DEF x, e
  <2>10. SessionsTyped
    BY <1>1, <1>2, <2>1, <2>5, <2>6, <2>7, <2>8, <2>9
       DEF SessionsTyped, TypeInv, AttemptsLeft, At
  <2> HIDE DEF m, d
  <2> QED BY <1>12, <2>2, <2>3, <2>4, <2>10, MetadataTyped DEF Seal
<1>13. ASSUME NEW s \in Sessions, SealFails(s)
       PROVE  TypeInv'
  <2>1. spent' \in [Interruptions -> Nat]
    BY <1>1, <1>13, SpentTyped DEF SealFails, TypeInv, Interruptions
  <2> QED BY <1>1, <1>3, <1>13, <2>1, StoreTyped DEF SealFails
<1>14. ASSUME NEW s \in Sessions, Remember(s)
       PROVE  TypeInv'
  <2> DEFINE d == DeviceOf[s]
             e == sess[s].sealed
             m == [meta[d] EXCEPT !.seen[e.vault] = e.revision]
  <2>1. d \in Devices /\ meta[d] \in Metadata /\ meta[d].revision <= minted
    BY <1>2 DEF TypeInv, TypeOK, RevisionsMinted
  <2>2. m \in Metadata /\ m.revision <= minted
    BY <1>2, <2>1 DEF Metadata, Envelopes
  <2>3. meta' = [meta EXCEPT ![d] = m]
    BY <1>14, <2>1 DEF Remember, TypeInv, TypeOK, Metadata
  <2>4. SessionsTyped
    BY <1>4, <1>14 DEF Remember, Phases
  <2> HIDE DEF m, d
  <2>5. UNCHANGED <<remote, history, data, clock, acked, minted, spent>>
    BY <1>14 DEF Remember
  <2>6. minted' \in Ids /\ minted' >= minted /\ m.revision <= minted'
    BY <1>1, <2>2, <2>5
  <2> QED BY <2>1, <2>2, <2>3, <2>4, <2>5, <2>6, MetadataTyped
<1>15. ASSUME NEW s \in Sessions, PushAccepted(s)
       PROVE  TypeInv'
  <2>1. SessionsTyped
    BY <1>4, <1>15 DEF PushAccepted, Phases
  <2> QED BY <1>1, <1>2, <1>15, <2>1, StoreTyped DEF PushAccepted
<1>16. ASSUME NEW s \in Sessions, CheckUnchanged(s)
       PROVE  TypeInv'
  <2>1. SessionsTyped
    BY <1>4, <1>16 DEF CheckUnchanged, Phases
  <2> QED BY <1>1, <1>16, <2>1, StoreTyped DEF CheckUnchanged
<1>17. ASSUME NEW s \in Sessions, PushConflict(s)
       PROVE  TypeInv'
  BY <1>1, <1>3, <1>17, StoreTyped DEF PushConflict
<1>18. ASSUME NEW s \in Sessions, PushRetryable(s)
       PROVE  TypeInv'
  <2>1. spent' \in [Interruptions -> Nat]
    BY <1>18, SpentTyped DEF PushRetryable, TypeInv, Interruptions
  <2>2. SessionsTyped
    BY <1>3, <1>18 DEF PushRetryable
  <2> QED BY <1>1, <1>2, <1>18, <2>1, <2>2, StoreTyped DEF PushRetryable
<1>19. ASSUME NEW s \in Sessions, PushFails(s)
       PROVE  TypeInv'
  <2>1. spent' \in [Interruptions -> Nat]
    BY <1>19, SpentTyped DEF PushFails, TypeInv, Interruptions
  <2>2. SessionsTyped
    BY <1>3, <1>19 DEF PushFails
  <2> QED BY <1>1, <1>2, <1>19, <2>1, <2>2, StoreTyped DEF PushFails
<1>20. ASSUME NEW s \in Sessions, Acknowledge(s)
       PROVE  TypeInv'
  <2>1. acked' \in [Devices -> Revisions]
    BY <1>1, <1>2, <1>20 DEF Acknowledge, Envelopes
  <2>2. SessionsTyped
    BY <1>3, <1>20 DEF Acknowledge
  <2> QED BY <1>1, <1>20, <2>1, <2>2, StoreTyped DEF Acknowledge
<1>21. ASSUME NEW s \in Sessions, Retry(s) \/ Abort(s)
       PROVE  TypeInv'
  <2> DEFINE d == DeviceOf[s]
  <2>1. \E x : LeftWith(s, x) /\ sess' = [sess EXCEPT ![s] = x]
    <3>1. CASE Retry(s)
      <4> DEFINE y == [IdleSession EXCEPT !.phase = "fetch", !.attempt = sess[s].attempt + 1,
                         !.strategy = sess[s].strategy]
      <4>1. sess[s].attempt + 1 < MaxAttempts
        BY <3>1 DEF Retry, TypeInv, AttemptsLeft
      <4>2. LeftWith(s, y) /\ sess' = [sess EXCEPT ![s] = y]
        BY <3>1, <4>1 DEF LeftWith, Retry
      <4> QED BY <4>2
    <3>2. CASE Abort(s)
      BY <3>2 DEF LeftWith, Abort, Leave
    <3> QED BY <1>21, <3>1, <3>2
  <2>2. UNCHANGED <<remote, history, data, clock, acked, minted, spent>>
    BY <1>21 DEF Retry, Abort
  <2>3. SessionsTyped
    BY <2>1, <2>2, LeftWithTyped
  <2>4. d \in Devices /\ meta' = [meta EXCEPT ![d] = sess[s].saved]
    BY <1>2, <1>21 DEF Retry, Abort
  <2> HIDE DEF d
  <2>5. minted' \in Ids /\ minted' >= minted /\ sess[s].saved.revision <= minted'
    BY <1>1, <1>2, <2>2
  <2> QED BY <1>2, <2>2, <2>3, <2>4, <2>5, MetadataTyped
<1>22. ASSUME NEW s \in Sessions, RestoreVersion(s)
       PROVE  TypeInv'
  <2>1. spent' \in [Interruptions -> Nat]
    BY <1>22, SpentTyped DEF RestoreVersion, TypeInv, Interruptions
  <2>2. SessionsTyped
    BY <1>4, <1>22 DEF RestoreVersion, Phases
  <2>3. PICK e \in history : Store(e)
    BY <1>22 DEF RestoreVersion
  <2>4. e \in Envelopes /\ e.revision <= minted
    BY <2>3 DEF TypeInv, TypeOK, RevisionsMinted
  <2> QED BY <1>1, <1>22, <2>1, <2>2, <2>3, <2>4, StoreTyped DEF RestoreVersion
<1>23. ASSUME NEW s \in Sessions, ClearCheckpoint(s)
       PROVE  TypeInv'
  <2> DEFINE d == DeviceOf[s]
             m == [meta[d] EXCEPT !.seen = [v \in Vaults |-> 0]]
             x == [sess[s] EXCEPT !.phase = "fetch", !.strategy = "remote_wins"]
  <2>1. d \in Devices /\ meta[d] \in Metadata /\ meta[d].revision <= minted
    BY <1>2 DEF TypeInv, TypeOK, RevisionsMinted
  <2>2. m \in Metadata /\ m.revision <= minted
    BY <2>1, BoundsAssumption DEF Metadata, Revisions
  <2>3. meta' = [meta EXCEPT ![d] = m]
    BY <1>23, <2>1 DEF ClearCheckpoint, TypeInv, TypeOK, Metadata
  <2>4. x \in SessionStates /\ sess' = [sess EXCEPT ![s] = x]
    BY <1>1, <1>2, <1>23 DEF ClearCheckpoint, SessionStates, Phases
  <2>5. /\ x.fetched.revision <= minted /\ x.base.revision <= minted
        /\ x.sealed.revision <= minted /\ x.saved.revision <= minted
        /\ x.phase # "retry"
    BY <1>2 DEF SessionStates
  <2> HIDE DEF x
  <2>6. SessionsTyped
    BY <1>23, <2>4, <2>5, OneSessionTyped DEF ClearCheckpoint
  <2> HIDE DEF m, d
  <2>7. UNCHANGED <<remote, history, data, clock, acked, minted, spent>>
    BY <1>23 DEF ClearCheckpoint
  <2>8. minted' \in Ids /\ minted' >= minted /\ m.revision <= minted'
    BY <1>1, <2>2, <2>7
  <2> QED BY <2>1, <2>2, <2>3, <2>6, <2>7, <2>8, MetadataTyped
<1>24. ASSUME NEW d \in Devices, ForgetSyncKey(d)
       PROVE  TypeInv'
  <2>1. spent' \in [Interruptions -> Nat]
    BY <1>24, SpentTyped DEF ForgetSyncKey, TypeInv, Interruptions
  <2>2. NoMetadata.revision = 0 /\ NoMetadata \in Metadata
    BY ZeroTypes DEF NoMetadata
  <2>3. meta' \in [Devices -> Metadata]
    BY <1>24, <2>2 DEF ForgetSyncKey, TypeInv, TypeOK
  <2>4. \A e \in Devices : meta'[e].revision <= minted
    BY <1>1, <1>24, <2>2 DEF ForgetSyncKey, TypeInv, TypeOK, RevisionsMinted
  <2> QED BY <1>24, <2>1, <2>3, <2>4
          DEF ForgetSyncKey, TypeInv, TypeOK, RevisionsMinted, AttemptsLeft, At
<1>25. ASSUME NEW d \in Devices, Crash(d)
       PROVE  TypeInv'
  <2>1. spent' \in [Interruptions -> Nat]
    BY <1>25, SpentTyped DEF Crash, TypeInv, Interruptions
  <2>2. /\ IdleSession.fetched.revision = 0 /\ IdleSession.base.revision = 0
        /\ IdleSession.sealed.revision = 0 /\ IdleSession.saved.revision = 0
    BY DEF IdleSession, NoEnvelope, NoMetadata
  <2>3. IdleSession.phase # "retry"
    BY DEF IdleSession
  <2>4. SessionsTyped
    BY <1>1, <1>2, <1>25, <2>2, <2>3, ZeroTypes
       DEF Crash, SessionsTyped, TypeInv, AttemptsLeft, At
  <2> QED BY <1>1, <1>25, <2>1, <2>4, StoreTyped DEF Crash
<1>26. CASE UNCHANGED vars
  BY <1>26 DEF vars, TypeInv, TypeOK, RevisionsMinted, AttemptsLeft, At
<1> QED
  BY <1>5, <1>6, <1>7, <1>8, <1>9, <1>10, <1>11, <1>12, <1>13, <1>14, <1>15, <1>16, <1>17,
     <1>18, <1>19, <1>20, <1>21, <1>22, <1>23, <1>24, <1>25, <1>26
     DEF Next, Proceed, Disturb

\* Every variable keeps its type, and no revision exceeds the number of envelopes sealed.
THEOREM TypeCorrect == Spec => []TypeOK
<1>1. TypeInv => TypeOK
  BY DEF TypeInv
<1> QED BY <1>1, TypeInvInit, TypeInvNext, PTL DEF Spec

-----------------------------------------------------------------------------
(* Merging *)

\* What the theorems assume of the constants: every sync merges, and nobody restores an
\* old version (both of the other strategies, and a restore, drop rows on purpose).
MergingOnly == Strategies = {"smart_merge"} /\ Budget["restore"] = 0

\* A provider that compares the tag and stores the envelope in one request.
Conditional == Transport \in {"github", "object"}

AtMost(a, b) == \A r \in Records : a[r] <= b[r]

\* The phases in which a session holds what it fetched or sealed.
Holding == {"import", "seal", "remember", "push", "put"}

-----------------------------------------------------------------------------
(* What a step does *)

\* Nothing but these five actions leads into a phase that holds data.
LEMMA HoldingSteps ==
    ASSUME TypeInv, [Next]_vars, NEW t \in Sessions
    PROVE  \/ sess'[t].phase \notin Holding
           \/ sess'[t] = sess[t]
           \/ Fetch(t) \/ Import(t) \/ Seal(t) \/ Remember(t) \/ CheckUnchanged(t)
<1> DEFINE Goal == \/ sess'[t].phase \notin Holding
                   \/ sess'[t] = sess[t]
                   \/ Fetch(t) \/ Import(t) \/ Seal(t) \/ Remember(t) \/ CheckUnchanged(t)
<1>1. sess \in [Sessions -> SessionStates] /\ sess[t] \in SessionStates
  BY DEF TypeInv, TypeOK
<1>2. ASSUME NEW s \in Sessions, Leave(s) \/ GiveUp(s) \/ TryAgain(s)
      PROVE  Goal
  <2>1. PICK x : LeftWith(s, x) /\ sess' = [sess EXCEPT ![s] = x]
    BY <1>2, LeavingSteps DEF TypeInv
  <2>2. x.phase \notin Holding
    <3>1. CASE x = IdleSession
      BY <3>1 DEF IdleSession, Holding
    <3>2. CASE \/ x = [sess[s] EXCEPT !.phase = "abort"]
               \/ x = [sess[s] EXCEPT !.phase = "retry"]
      BY <1>1, <3>2 DEF SessionStates, Holding
    <3>3. CASE x = [IdleSession EXCEPT !.phase = "fetch", !.attempt = sess[s].attempt + 1,
                       !.strategy = sess[s].strategy]
      BY <3>3 DEF IdleSession, Holding
    <3> QED BY <2>1, <3>1, <3>2, <3>3 DEF LeftWith
  <2> QED BY <1>1, <2>1, <2>2
<1>3. ASSUME NEW s \in Sessions, NEW p \in Phases, GoTo(s, p), p \notin Holding
      PROVE  Goal
  BY <1>1, <1>3 DEF GoTo, SessionStates
<1>4. ASSUME NEW s \in Sessions,
             Fetch(s) \/ Import(s) \/ Seal(s) \/ Remember(s) \/ CheckUnchanged(s)
      PROVE  Goal
  <2>1. CASE s = t
    BY <1>4, <2>1
  <2>2. CASE s # t
    BY <1>1, <1>4, <2>2 DEF Fetch, Import, Seal, Remember, CheckUnchanged, GoTo
  <2> QED BY <2>1, <2>2
<1>5. ASSUME NEW s \in Sessions, Begin(s) \/ FetchConflict(s) \/ ClearCheckpoint(s)
      PROVE  Goal
  BY <1>1, <1>5 DEF Begin, FetchConflict, ClearCheckpoint, At, SessionStates, Holding
<1>6. ASSUME NEW s \in Sessions, Refuse(s)
      PROVE  Goal
  <2>1. CASE Leave(s)
    BY <1>2, <2>1
  <2>2. CASE ~ Leave(s)
    BY <1>1, <1>6, <2>2 DEF Refuse, SessionStates, Holding
  <2> QED BY <2>1, <2>2
<1>7. ASSUME NEW s \in Sessions, Retry(s) \/ Abort(s)
      PROVE  Goal
  <2>1. CASE Retry(s)
    <3> DEFINE y == [IdleSession EXCEPT !.phase = "fetch", !.attempt = sess[s].attempt + 1,
                       !.strategy = sess[s].strategy]
    <3>1. y.phase \notin Holding
      BY DEF IdleSession, Holding
    <3>2. sess' = [sess EXCEPT ![s] = y]
      BY <2>1 DEF Retry
    <3> QED BY <1>1, <3>1, <3>2
  <2>2. CASE Abort(s)
    BY <1>2, <2>2 DEF Abort
  <2> QED BY <1>7, <2>1, <2>2
<1>8. ASSUME NEW d \in Devices, Crash(d)
      PROVE  Goal
  BY <1>1, <1>8 DEF Crash, IdleSession, Holding
<1>9. CASE UNCHANGED sess
  BY <1>9
<1> HIDE DEF Goal
<1>10. ASSUME NEW s \in Sessions, Proceed(s) \/ Disturb(s) \/ RestoreVersion(s)
       PROVE  Goal
  <2>1. CASE Proceed(s)
    <3>1. CASE PushAccepted(s)
      BY <1>3, <3>1 DEF PushAccepted, Phases, Holding
    <3>2. CASE PushConflict(s)
      BY <1>2, <3>2 DEF PushConflict
    <3>3. CASE Acknowledge(s)
      BY <1>2, <3>3 DEF Acknowledge
    <3> QED BY <1>4, <1>5, <1>6, <1>7, <2>1, <3>1, <3>2, <3>3 DEF Proceed
  <2>2. CASE Disturb(s)
    <3>1. CASE FetchFails(s)
      BY <1>2, <3>1 DEF FetchFails
    <3>2. CASE SealFails(s)
      BY <1>2, <3>2 DEF SealFails
    <3>3. CASE PushRetryable(s)
      BY <1>2, <3>3 DEF PushRetryable
    <3>4. CASE PushFails(s)
      BY <1>2, <3>4 DEF PushFails
    <3> QED BY <1>5, <2>2, <3>1, <3>2, <3>3, <3>4 DEF Disturb
  <2>3. CASE RestoreVersion(s)
    BY <1>3, <2>3 DEF RestoreVersion, Phases, Holding
  <2> QED BY <1>10, <2>1, <2>2, <2>3
<1> QED BY <1>5, <1>8, <1>9, <1>10 DEF Next, Edit, ForgetSyncKey, vars, Goal

\* The object changes only by a push of a session that holds its envelope, and, where the
\* provider compares the tag, only if the object is still the one the session fetched.
LEMMA RemoteSteps ==
    ASSUME TypeInv, [Next]_vars, Budget["restore"] = 0, spent["restore"] = 0
    PROVE  \/ UNCHANGED remote
           \/ \E s \in Sessions :
                 /\ sess[s].phase \in {"push", "put"}
                 /\ remote' = sess[s].sealed
                 /\ UNCHANGED <<data, clock>>
                 /\ Conditional => remote = sess[s].fetched
<1> DEFINE Pushed(s) == /\ sess[s].phase \in {"push", "put"}
                        /\ remote' = sess[s].sealed
                        /\ UNCHANGED <<data, clock>>
                        /\ Conditional => remote = sess[s].fetched
<1>1. ASSUME NEW s \in Sessions, PushAccepted(s)
      PROVE  Pushed(s)
  BY <1>1 DEF PushAccepted, Precondition, Conditional, Store, At
<1>2. ASSUME NEW s \in Sessions, PushRetryable(s)
      PROVE  UNCHANGED remote \/ Pushed(s)
  BY <1>2 DEF PushRetryable, Conditional, Store, At
<1>3. ASSUME NEW s \in Sessions, PushFails(s)
      PROVE  UNCHANGED remote \/ Pushed(s)
  BY <1>3 DEF PushFails, Precondition, Conditional, Store, At
<1>4. ASSUME NEW s \in Sessions, RestoreVersion(s)
      PROVE  FALSE
  BY <1>4 DEF RestoreVersion, Spend
<1>5. ASSUME NEW s \in Sessions, Proceed(s), ~ PushAccepted(s)
      PROVE  UNCHANGED remote
  BY <1>5 DEF Proceed, Fetch, Import, Refuse, Seal, Remember, CheckUnchanged, PushConflict,
              Retry, Abort, Acknowledge, ClearCheckpoint
<1>6. ASSUME NEW s \in Sessions, Disturb(s), ~ PushRetryable(s), ~ PushFails(s)
      PROVE  UNCHANGED remote
  BY <1>6 DEF Disturb, FetchFails, FetchConflict, SealFails
<1> HIDE DEF Pushed
<1>7. UNCHANGED remote \/ \E s \in Sessions : Pushed(s)
  BY <1>1, <1>2, <1>3, <1>4, <1>5, <1>6
     DEF Next, Begin, Edit, Crash, ForgetSyncKey, vars
<1> QED BY <1>7 DEF Pushed

\* The databases change only by an edit, at a new time, and by an import.
LEMMA DataSteps ==
    ASSUME TypeInv, [Next]_vars
    PROVE  \/ UNCHANGED <<data, clock>>
           \/ \E d \in Devices, r \in Records : Edit(d, r)
           \/ \E s \in Sessions : Import(s)
<1>1. ASSUME NEW s \in Sessions, Proceed(s), ~ Import(s)
      PROVE  UNCHANGED <<data, clock>>
  BY <1>1 DEF Proceed, Fetch, Refuse, Seal, Remember, CheckUnchanged, PushAccepted,
              PushConflict, Retry, Abort, Acknowledge, ClearCheckpoint
<1>2. ASSUME NEW s \in Sessions, Disturb(s)
      PROVE  UNCHANGED <<data, clock>>
  BY <1>2 DEF Disturb, FetchFails, FetchConflict, SealFails, PushRetryable, PushFails
<1> QED BY <1>1, <1>2 DEF Next, Begin, RestoreVersion, Crash, ForgetSyncKey, vars

-----------------------------------------------------------------------------
(* What a session holds *)

\* Nobody restores, so every session merges.
AllMerge == spent["restore"] = 0 /\ \A s \in Sessions : sess[s].strategy = "smart_merge"
                                                /\ sess[s].phase # "clear"

\* No copy of a row is newer than the latest edit.
NothingFromTheFuture ==
    /\ \A r \in Records : remote.rows[r] <= clock
    /\ \A d \in Devices, r \in Records : data[d][r] <= clock
    /\ \A s \in Sessions, r \in Records :
          sess[s].phase \in Holding => sess[s].fetched.rows[r] <= clock
    /\ \A s \in Sessions, r \in Records :
          sess[s].phase \in {"remember", "push", "put"} => sess[s].sealed.rows[r] <= clock

\* After the import the database contains what was fetched, and so does the envelope made
\* of the database.
FetchedIsKept ==
    \A s \in Sessions :
        /\ At(s, "seal") => AtMost(sess[s].fetched.rows, data[DeviceOf[s]])
        /\ sess[s].phase \in {"remember", "push", "put"}
              => AtMost(sess[s].fetched.rows, sess[s].sealed.rows)

MergeInv == TypeInv /\ AllMerge /\ NothingFromTheFuture /\ FetchedIsKept

LEMMA MergeInvInit == Init => MergeInv
<1> SUFFICES ASSUME Init PROVE MergeInv
  OBVIOUS
<1>1. TypeInv
  BY TypeInvInit
<1>2. AllMerge
  BY DEF Init, AllMerge, IdleSession, Interruptions
<1>3. NothingFromTheFuture /\ FetchedIsKept
  BY DEF Init, NothingFromTheFuture, FetchedIsKept, IdleSession, NoEnvelope, NoRows, Holding, At
<1> QED BY <1>1, <1>2, <1>3 DEF MergeInv

LEMMA AllMergeNext ==
    ASSUME TypeInv, AllMerge, MergingOnly, [Next]_vars
    PROVE  AllMerge'
<1> DEFINE Merging(x) == x.strategy = "smart_merge" /\ x.phase # "clear"
<1>1. /\ sess \in [Sessions -> SessionStates]
      /\ spent \in [Interruptions -> Nat] /\ spent["restore"] = 0 /\ Budget["restore"] = 0
      /\ \A s \in Sessions : sess[s] \in SessionStates /\ Merging(sess[s])
  BY DEF TypeInv, TypeOK, AllMerge, MergingOnly
<1>2. ASSUME NEW s \in Sessions, NEW x, Merging(x), sess' = [sess EXCEPT ![s] = x],
             spent'["restore"] = 0
      PROVE  AllMerge'
  BY <1>1, <1>2 DEF AllMerge
<1>3. ASSUME NEW s \in Sessions, NEW x, LeftWith(s, x)
      PROVE  Merging(x)
  <2>1. CASE x = IdleSession
    BY <2>1 DEF IdleSession
  <2>2. CASE x = [sess[s] EXCEPT !.phase = "abort"] \/ x = [sess[s] EXCEPT !.phase = "retry"]
    BY <1>1, <2>2 DEF SessionStates
  <2>3. CASE x = [IdleSession EXCEPT !.phase = "fetch", !.attempt = sess[s].attempt + 1,
                     !.strategy = sess[s].strategy]
    BY <1>1, <2>3 DEF IdleSession
  <2> QED BY <1>3, <2>1, <2>2, <2>3 DEF LeftWith
<1>4. ASSUME NEW i \in {"outage", "crash", "forget"}, Spend(i)
      PROVE  spent'["restore"] = 0
  BY <1>1, <1>4 DEF Spend, Interruptions
<1>5. ASSUME NEW s \in Sessions, Leave(s) \/ GiveUp(s) \/ TryAgain(s), spent'["restore"] = 0
      PROVE  AllMerge'
  BY <1>2, <1>3, <1>5, LeavingSteps DEF TypeInv
<1>6. ASSUME NEW s \in Sessions, NEW p \in Phases \ {"clear"}, GoTo(s, p),
             spent'["restore"] = 0
      PROVE  AllMerge'
  <2> DEFINE x == [sess[s] EXCEPT !.phase = p]
  <2>1. Merging(x) /\ sess' = [sess EXCEPT ![s] = x]
    BY <1>1, <1>6 DEF GoTo, SessionStates
  <2> HIDE DEF x
  <2> QED BY <1>2, <1>6, <2>1
<1>7. ASSUME NEW s \in Sessions, Begin(s)
      PROVE  AllMerge'
  <2> DEFINE x == [sess[s] EXCEPT !.phase = "fetch", !.strategy = "smart_merge"]
  <2>1. sess' = [sess EXCEPT ![s] = x] /\ spent' = spent
    BY <1>1, <1>7 DEF Begin, MergingOnly
  <2>2. Merging(x)
    BY <1>1 DEF SessionStates
  <2> HIDE DEF x
  <2> QED BY <1>1, <1>2, <2>1, <2>2
<1>8. ASSUME NEW s \in Sessions, Fetch(s) \/ Import(s) \/ Seal(s) \/ FetchConflict(s)
      PROVE  AllMerge'
  <2>1. spent'["restore"] = 0
    BY <1>1, <1>4, <1>8 DEF Fetch, Import, Seal, FetchConflict
  <2>2. sess'[s].phase # "clear" /\ sess'[s].strategy = sess[s].strategy
    BY <1>1, <1>8 DEF Fetch, Import, Seal, FetchConflict, SessionStates
  <2>3. \A t \in Sessions : t # s => sess'[t] = sess[t]
    BY <1>1, <1>8 DEF Fetch, Import, Seal, FetchConflict
  <2> QED BY <1>1, <2>1, <2>2, <2>3 DEF AllMerge
<1>9. ASSUME NEW s \in Sessions, Refuse(s)
      PROVE  AllMerge'
  <2>1. spent'["restore"] = 0
    BY <1>1, <1>9 DEF Refuse
  <2>2. CASE Leave(s)
    BY <1>5, <2>1, <2>2
  <2>3. CASE ~ Leave(s)
    <3> DEFINE x == [sess[s] EXCEPT !.phase = "abort", !.saved = meta[DeviceOf[s]]]
    <3>1. sess' = [sess EXCEPT ![s] = x]
      BY <1>1, <1>9, <2>3 DEF Refuse
    <3>2. Merging(x)
      BY <1>1 DEF SessionStates
    <3> HIDE DEF x
    <3> QED BY <1>2, <2>1, <3>1, <3>2
  <2> QED BY <2>2, <2>3
<1>10. ASSUME NEW s \in Sessions, Retry(s)
       PROVE  AllMerge'
  <2> DEFINE y == [IdleSession EXCEPT !.phase = "fetch", !.attempt = sess[s].attempt + 1,
                     !.strategy = sess[s].strategy]
  <2>1. sess' = [sess EXCEPT ![s] = y] /\ spent' = spent
    BY <1>10 DEF Retry
  <2>2. Merging(y)
    BY <1>1 DEF IdleSession
  <2> HIDE DEF y
  <2> QED BY <1>1, <1>2, <2>1, <2>2
<1>11. ASSUME NEW s \in Sessions, Abort(s) \/ Acknowledge(s) \/ PushConflict(s)
       PROVE  AllMerge'
  BY <1>1, <1>5, <1>11 DEF Abort, Acknowledge, PushConflict
<1>12. ASSUME NEW s \in Sessions, Remember(s) \/ PushAccepted(s) \/ CheckUnchanged(s)
       PROVE  AllMerge'
  BY <1>1, <1>6, <1>12 DEF Remember, PushAccepted, CheckUnchanged, Phases
<1>13. ASSUME NEW s \in Sessions, FetchFails(s) \/ SealFails(s)
       PROVE  AllMerge'
  BY <1>1, <1>4, <1>5, <1>13 DEF FetchFails, SealFails
<1>14. ASSUME NEW s \in Sessions, PushRetryable(s) \/ PushFails(s)
       PROVE  AllMerge'
  BY <1>4, <1>5, <1>14 DEF PushRetryable, PushFails
<1>15. ASSUME NEW s \in Sessions, ClearCheckpoint(s) \/ RestoreVersion(s)
       PROVE  FALSE
  BY <1>1, <1>15 DEF ClearCheckpoint, RestoreVersion, Spend, At
<1>16. ASSUME NEW d \in Devices, Crash(d)
       PROVE  AllMerge'
  <2>1. spent'["restore"] = 0
    BY <1>4, <1>16 DEF Crash
  <2>2. Merging(IdleSession)
    BY DEF IdleSession
  <2> QED BY <1>1, <1>16, <2>1, <2>2 DEF Crash, AllMerge
<1>17. ASSUME NEW d \in Devices, ForgetSyncKey(d) \/ \E r \in Records : Edit(d, r)
       PROVE  AllMerge'
  BY <1>1, <1>4, <1>17 DEF ForgetSyncKey, Edit, AllMerge
<1>18. CASE UNCHANGED vars
  BY <1>18 DEF vars, AllMerge
<1> QED
  BY <1>7, <1>8, <1>9, <1>10, <1>11, <1>12, <1>13, <1>14, <1>15, <1>16, <1>17, <1>18
     DEF Next, Proceed, Disturb

\* A database only learns.
LEMMA DataGrows ==
    ASSUME TypeInv, AllMerge, NothingFromTheFuture, [Next]_vars
    PROVE  /\ clock' >= clock
           /\ \A d \in Devices, r \in Records : /\ data'[d][r] >= data[d][r]
                                                /\ data'[d][r] <= clock'
<1>1. /\ data \in [Devices -> Rows] /\ clock \in Nat /\ Stamps \subseteq Nat
      /\ \A d \in Devices, r \in Records : data[d][r] \in Nat
  BY BoundsAssumption DEF TypeInv, TypeOK, Rows, Stamps
<1>2. CASE UNCHANGED <<data, clock>>
  BY <1>1, <1>2 DEF NothingFromTheFuture
<1>3. ASSUME NEW e \in Devices, NEW q \in Records, Edit(e, q)
      PROVE  /\ clock' >= clock
             /\ \A d \in Devices, r \in Records : /\ data'[d][r] >= data[d][r]
                                                  /\ data'[d][r] <= clock'
  <2>1. data' = [data EXCEPT ![e][q] = clock + 1] /\ clock' = clock + 1
    BY <1>3 DEF Edit
  <2>2. \A d \in Devices, r \in Records :
           data'[d][r] = data[d][r] \/ data'[d][r] = clock + 1
    BY <1>1, <2>1 DEF Rows
  <2> QED BY <1>1, <2>1, <2>2 DEF NothingFromTheFuture
<1>4. ASSUME NEW s \in Sessions, Import(s)
      PROVE  /\ clock' >= clock
             /\ \A d \in Devices, r \in Records : /\ data'[d][r] >= data[d][r]
                                                  /\ data'[d][r] <= clock'
  <2>1. /\ data' = [data EXCEPT ![DeviceOf[s]] = Imported(s, data[DeviceOf[s]])]
        /\ clock' = clock /\ sess[s].phase = "import" /\ sess[s].strategy = "smart_merge"
    BY <1>4 DEF Import, At, AllMerge
  <2>2. \A r \in Records : /\ sess[s].fetched.rows[r] <= clock
                           /\ sess[s].fetched.rows[r] \in Nat
    BY <1>1, <2>1 DEF NothingFromTheFuture, Holding, TypeInv, TypeOK, SessionStates, Envelopes, Rows
  <2>3. DeviceOf[s] \in Devices
    BY SessionsAssumption
  <2>4. \A r \in Records : \/ data'[DeviceOf[s]][r] = data[DeviceOf[s]][r]
                           \/ /\ data'[DeviceOf[s]][r] = sess[s].fetched.rows[r]
                              /\ data[DeviceOf[s]][r] <= sess[s].fetched.rows[r]
    BY <1>1, <2>1, <2>2, <2>3 DEF Imported, NewestRows, Greater
  <2>5. \A d \in Devices : d # DeviceOf[s] => data'[d] = data[d]
    BY <1>1, <2>1
  <2> QED BY <1>1, <2>1, <2>2, <2>4, <2>5 DEF NothingFromTheFuture
<1> QED BY <1>2, <1>3, <1>4, DataSteps

LEMMA NothingFromTheFutureNext ==
    ASSUME MergeInv, MergingOnly, [Next]_vars
    PROVE  NothingFromTheFuture'
<1>1. /\ TypeInv /\ AllMerge /\ NothingFromTheFuture /\ FetchedIsKept
      /\ Budget["restore"] = 0 /\ spent["restore"] = 0
  BY DEF MergeInv, AllMerge, MergingOnly
<1>2. /\ clock' >= clock
      /\ \A d \in Devices, r \in Records : data'[d][r] <= clock'
  BY <1>1, DataGrows
<1>3. /\ clock \in Nat /\ clock' \in Nat
      /\ sess \in [Sessions -> SessionStates]
      /\ \A r \in Records : remote.rows[r] \in Nat
      /\ \A s \in Sessions, r \in Records : /\ sess[s].fetched.rows[r] \in Nat
                                            /\ sess[s].sealed.rows[r] \in Nat
  <2>1. TypeInv'
    BY <1>1, TypeInvNext
  <2> QED BY <1>1, <2>1, BoundsAssumption
          DEF TypeInv, TypeOK, SessionStates, Envelopes, Rows, Stamps
<1>4. ASSUME NEW r \in Records
      PROVE  remote'.rows[r] <= clock'
  <2>1. CASE UNCHANGED remote
    BY <1>1, <1>2, <1>3, <2>1 DEF NothingFromTheFuture
  <2>2. CASE \E s \in Sessions :
                /\ sess[s].phase \in {"push", "put"}
                /\ remote' = sess[s].sealed
    BY <1>1, <1>2, <1>3, <2>2 DEF NothingFromTheFuture
  <2> QED BY <1>1, <2>1, <2>2, RemoteSteps
<1>5. ASSUME NEW t \in Sessions, NEW r \in Records
      PROVE  /\ sess'[t].phase \in Holding => sess'[t].fetched.rows[r] <= clock'
             /\ sess'[t].phase \in {"remember", "push", "put"}
                   => sess'[t].sealed.rows[r] <= clock'
  <2>1. CASE sess'[t].phase \notin Holding
    BY <2>1 DEF Holding
  <2>2. CASE sess'[t] = sess[t]
    BY <1>1, <1>2, <1>3, <2>2 DEF NothingFromTheFuture
  <2>3. CASE Fetch(t)
    <3>1. sess'[t].phase = "import" /\ sess'[t].fetched = remote
      BY <1>3, <2>3 DEF Fetch, SessionStates
    <3> QED BY <1>1, <1>2, <1>3, <3>1 DEF NothingFromTheFuture
  <2>4. CASE Import(t)
    <3>1. /\ sess[t].phase = "import"
          /\ sess'[t].phase = "seal" /\ sess'[t].fetched = sess[t].fetched
      BY <1>3, <2>4 DEF Import, SessionStates, At
    <3> QED BY <1>1, <1>2, <1>3, <3>1 DEF NothingFromTheFuture, Holding
  <2>5. CASE Seal(t)
    <3>1. /\ sess[t].phase = "seal" /\ sess'[t].fetched = sess[t].fetched
          /\ sess'[t].sealed.rows = data[DeviceOf[t]]
      BY <1>3, <2>5 DEF Seal, NewEnvelope, SessionStates, At
    <3>2. DeviceOf[t] \in Devices /\ clock' = clock
      BY <2>5, SessionsAssumption DEF Seal
    <3> QED BY <1>1, <1>2, <1>3, <3>1, <3>2 DEF NothingFromTheFuture, Holding
  <2>6. CASE Remember(t) \/ CheckUnchanged(t)
    <3>1. /\ sess[t].phase \in {"remember", "push"}
          /\ sess'[t].fetched = sess[t].fetched /\ sess'[t].sealed = sess[t].sealed
      BY <1>3, <2>6 DEF Remember, CheckUnchanged, GoTo, SessionStates, At
    <3> QED BY <1>1, <1>2, <1>3, <3>1 DEF NothingFromTheFuture, Holding
  <2> QED BY <1>1, <2>1, <2>2, <2>3, <2>4, <2>5, <2>6, HoldingSteps
<1> QED BY <1>2, <1>4, <1>5 DEF NothingFromTheFuture

LEMMA FetchedIsKeptNext ==
    ASSUME MergeInv, MergingOnly, [Next]_vars
    PROVE  FetchedIsKept'
<1>1. TypeInv /\ AllMerge /\ NothingFromTheFuture /\ FetchedIsKept
  BY DEF MergeInv
<1>2. /\ sess \in [Sessions -> SessionStates]
      /\ data \in [Devices -> Rows]
      /\ \A d \in Devices, r \in Records : data[d][r] \in Nat /\ data'[d][r] \in Nat
      /\ \A s \in Sessions, r \in Records : sess[s].fetched.rows[r] \in Nat
  <2>1. TypeInv'
    BY <1>1, TypeInvNext
  <2> QED BY <1>1, <2>1, BoundsAssumption
          DEF TypeInv, TypeOK, SessionStates, Envelopes, Rows, Stamps
<1>3. \A d \in Devices, r \in Records : data'[d][r] >= data[d][r]
  BY <1>1, DataGrows
<1> SUFFICES ASSUME NEW t \in Sessions
    PROVE  /\ sess'[t].phase = "seal" => AtMost(sess'[t].fetched.rows, data'[DeviceOf[t]])
           /\ sess'[t].phase \in {"remember", "push", "put"}
                 => AtMost(sess'[t].fetched.rows, sess'[t].sealed.rows)
  BY DEF FetchedIsKept, At, AtMost
<1>4. DeviceOf[t] \in Devices
  BY SessionsAssumption
<1>5. CASE sess'[t].phase \notin Holding
  BY <1>5 DEF Holding
<1>6. CASE sess'[t] = sess[t]
  BY <1>1, <1>2, <1>3, <1>4, <1>6 DEF FetchedIsKept, At, AtMost
<1>7. CASE Fetch(t)
  <2>1. sess'[t].phase = "import"
    BY <1>2, <1>7 DEF Fetch, SessionStates
  <2> QED BY <2>1
<1>8. CASE Import(t)
  <2>1. /\ sess[t].strategy = "smart_merge" /\ sess'[t].phase = "seal"
        /\ sess'[t].fetched = sess[t].fetched
        /\ data'[DeviceOf[t]] = Imported(t, data[DeviceOf[t]])
    BY <1>1, <1>2, <1>4, <1>8 DEF Import, AllMerge, SessionStates
  <2>2. AtMost(sess[t].fetched.rows, Imported(t, data[DeviceOf[t]]))
    <3>1. Imported(t, data[DeviceOf[t]]) = NewestRows(data[DeviceOf[t]], sess[t].fetched.rows)
      BY <2>1 DEF Imported
    <3> QED BY <1>2, <1>4, <3>1 DEF AtMost, NewestRows, Greater
  <2> QED BY <2>1, <2>2
<1>9. CASE Seal(t)
  <2>1. /\ sess[t].phase = "seal" /\ sess'[t].phase = "remember"
        /\ sess'[t].fetched = sess[t].fetched /\ sess'[t].sealed.rows = data[DeviceOf[t]]
    BY <1>2, <1>9 DEF Seal, NewEnvelope, SessionStates, At
  <2> QED BY <1>1, <2>1 DEF FetchedIsKept, At
<1>10. CASE Remember(t) \/ CheckUnchanged(t)
  <2>1. /\ sess[t].phase \in {"remember", "push"} /\ sess'[t].phase \in {"push", "put"}
        /\ sess'[t].fetched = sess[t].fetched /\ sess'[t].sealed = sess[t].sealed
    BY <1>2, <1>10 DEF Remember, CheckUnchanged, GoTo, SessionStates, At
  <2> QED BY <1>1, <2>1 DEF FetchedIsKept
<1> QED BY <1>1, <1>5, <1>6, <1>7, <1>8, <1>9, <1>10, HoldingSteps

LEMMA MergeInvNext ==
    ASSUME MergingOnly
    PROVE  MergeInv /\ [Next]_vars => MergeInv'
<1> SUFFICES ASSUME MergeInv, [Next]_vars PROVE MergeInv'
  OBVIOUS
<1>1. TypeInv /\ AllMerge
  BY DEF MergeInv
<1>2. TypeInv'
  BY <1>1, TypeInvNext
<1>3. AllMerge'
  BY <1>1, AllMergeNext
<1> QED BY <1>2, <1>3, NothingFromTheFutureNext, FetchedIsKeptNext DEF MergeInv

-----------------------------------------------------------------------------
(* Theorems *)

\* Where the provider compares the tag as part of the write, no stored row is ever replaced
\* by an older one or dropped, for any number of devices, sessions per device, attempts,
\* lost answers, crashes and forgotten keys.
THEOREM NothingIsLost ==
    ASSUME MergingOnly, Conditional
    PROVE  Spec => NoLostUpdate
<1>1. ASSUME MergeInv, [Next]_vars
      PROVE  [\A r \in Records : remote'.rows[r] >= remote.rows[r]]_vars
  <2>1. /\ TypeInv /\ Budget["restore"] = 0 /\ spent["restore"] = 0
        /\ \A r \in Records : remote.rows[r] \in Nat
    BY <1>1, BoundsAssumption
       DEF MergeInv, AllMerge, MergingOnly, TypeInv, TypeOK, Envelopes, Rows, Stamps
  <2>2. CASE UNCHANGED remote
    BY <2>1, <2>2
  <2>3. ASSUME NEW s \in Sessions, sess[s].phase \in {"push", "put"},
               remote' = sess[s].sealed, remote = sess[s].fetched
        PROVE  \A r \in Records : remote'.rows[r] >= remote.rows[r]
    <3>1. \A r \in Records : sess[s].sealed.rows[r] \in Nat
      BY <2>1, BoundsAssumption DEF TypeInv, TypeOK, SessionStates, Envelopes, Rows, Stamps
    <3> QED BY <1>1, <2>1, <2>3, <3>1 DEF MergeInv, FetchedIsKept, AtMost
  <2> QED BY <1>1, <2>1, <2>2, <2>3, RemoteSteps DEF vars
<1> QED BY <1>1, MergeInvInit, MergeInvNext, PTL DEF Spec, NoLostUpdate

\* Whatever the provider compares, rows are lost only to a session whose fetched object is
\* no longer the stored one.
THEOREM LossNeedsStaleSession ==
    ASSUME MergingOnly
    PROVE  Spec => LostOnlyToStaleSession
<1> DEFINE Stale == \E s \in Sessions : /\ sess[s].phase \in {"push", "put"}
                                        /\ remote' = sess[s].sealed
                                        /\ remote # sess[s].fetched
           Loss == \E r \in Records : remote'.rows[r] < remote.rows[r]
<1>1. ASSUME MergeInv, [Next]_vars
      PROVE  [Loss => Stale]_vars
  <2> SUFFICES Loss => Stale
    OBVIOUS
  <2>1. /\ TypeInv /\ Budget["restore"] = 0 /\ spent["restore"] = 0
        /\ \A r \in Records : remote.rows[r] \in Nat
    BY <1>1, BoundsAssumption
       DEF MergeInv, AllMerge, MergingOnly, TypeInv, TypeOK, Envelopes, Rows, Stamps
  <2>2. CASE UNCHANGED remote
    BY <2>1, <2>2
  <2>3. ASSUME NEW s \in Sessions, sess[s].phase \in {"push", "put"},
               remote' = sess[s].sealed
        PROVE  Loss => Stale
    <3>1. CASE remote # sess[s].fetched
      BY <2>3, <3>1
    <3>2. CASE remote = sess[s].fetched
      <4>1. \A r \in Records : sess[s].sealed.rows[r] \in Nat
        BY <2>1, BoundsAssumption DEF TypeInv, TypeOK, SessionStates, Envelopes, Rows, Stamps
      <4>2. \A r \in Records : remote.rows[r] <= remote'.rows[r]
        BY <1>1, <2>3, <3>2 DEF MergeInv, FetchedIsKept, AtMost
      <4> QED BY <2>1, <2>3, <4>1, <4>2
    <3> QED BY <3>1, <3>2
  <2> HIDE DEF Loss, Stale
  <2> QED BY <1>1, <2>1, <2>2, <2>3, RemoteSteps
<1> QED BY <1>1, MergeInvInit, MergeInvNext, PTL DEF Spec, LostOnlyToStaleSession

-----------------------------------------------------------------------------
(* Refinement of the abstract vault *)

\* What a session fetched was, and therefore still is, in the vault.
FetchedIsStored ==
    \A s \in Sessions : At(s, "import") => AtMost(sess[s].fetched.rows, remote.rows)

\* What a session will push is in its database, which only learns.
SealedIsLocal ==
    \A s \in Sessions : sess[s].phase \in {"remember", "push", "put"}
                           => AtMost(sess[s].sealed.rows, data[DeviceOf[s]])

RefineInv == MergeInv /\ FetchedIsStored /\ SealedIsLocal

\* What the proofs use of the types.
RowsAreStamps ==
    /\ data \in [Devices -> Rows]
    /\ \A r \in Records : remote.rows[r] \in Nat
    /\ \A d \in Devices, r \in Records : data[d][r] \in Nat
    /\ \A s \in Sessions, r \in Records : /\ sess[s].fetched.rows[r] \in Nat
                                          /\ sess[s].sealed.rows[r] \in Nat

LEMMA TypedRows == TypeInv => RowsAreStamps
BY BoundsAssumption
   DEF TypeInv, TypeOK, SessionStates, Envelopes, Rows, Stamps, RowsAreStamps

LEMMA StoredRowsGrow ==
    ASSUME MergeInv, MergingOnly, Conditional, [Next]_vars
    PROVE  AtMost(remote.rows, remote'.rows)
<1>1. TypeInv /\ FetchedIsKept /\ Budget["restore"] = 0 /\ spent["restore"] = 0
  BY DEF MergeInv, AllMerge, MergingOnly
<1>2. RowsAreStamps
  BY <1>1, TypedRows
<1>3. CASE UNCHANGED remote
  BY <1>2, <1>3 DEF AtMost, RowsAreStamps
<1>4. ASSUME NEW s \in Sessions, sess[s].phase \in {"push", "put"},
             remote' = sess[s].sealed, remote = sess[s].fetched
      PROVE  AtMost(remote.rows, remote'.rows)
  BY <1>1, <1>4 DEF FetchedIsKept
<1> QED BY <1>1, <1>3, <1>4, RemoteSteps

LEMMA RefineInvInit == Init => RefineInv
<1> SUFFICES ASSUME Init PROVE RefineInv
  OBVIOUS
<1>1. FetchedIsStored /\ SealedIsLocal
  BY DEF Init, FetchedIsStored, SealedIsLocal, At, IdleSession
<1> QED BY <1>1, MergeInvInit DEF RefineInv

LEMMA RefineInvNext ==
    ASSUME MergingOnly, Conditional
    PROVE  RefineInv /\ [Next]_vars => RefineInv'
<1> SUFFICES ASSUME RefineInv, [Next]_vars PROVE RefineInv'
  OBVIOUS
<1>1. MergeInv /\ TypeInv /\ AllMerge /\ NothingFromTheFuture
  BY DEF RefineInv, MergeInv
<1>2. MergeInv' /\ TypeInv'
  BY <1>1, MergeInvNext DEF MergeInv
<1>3. RowsAreStamps /\ RowsAreStamps' /\ sess \in [Sessions -> SessionStates]
  <2>1. RowsAreStamps'
    BY <1>2, BoundsAssumption
       DEF TypeInv, TypeOK, SessionStates, Envelopes, Rows, Stamps, RowsAreStamps
  <2> QED BY <1>1, <2>1, TypedRows DEF TypeInv, TypeOK
<1>4. AtMost(remote.rows, remote'.rows)
  BY <1>1, StoredRowsGrow
<1>5. \A d \in Devices : AtMost(data[d], data'[d])
  BY <1>1, <1>3, DataGrows DEF AtMost, RowsAreStamps
<1>6. ASSUME NEW t \in Sessions, sess'[t].phase = "import"
      PROVE  AtMost(sess'[t].fetched.rows, remote'.rows)
  <2>1. CASE sess'[t] = sess[t]
    <3>1. AtMost(sess[t].fetched.rows, remote.rows)
      BY <1>6, <2>1 DEF RefineInv, FetchedIsStored, At
    <3> QED BY <1>3, <1>4, <2>1, <3>1 DEF AtMost, RowsAreStamps
  <2>2. CASE Fetch(t)
    <3>1. sess'[t].fetched = remote /\ remote' = remote
      BY <1>3, <2>2 DEF Fetch, SessionStates
    <3> QED BY <1>3, <3>1 DEF AtMost, RowsAreStamps
  <2>3. CASE Import(t) \/ Seal(t) \/ Remember(t) \/ CheckUnchanged(t)
    <3>1. sess'[t].phase # "import"
      BY <1>3, <2>3 DEF Import, Seal, Remember, CheckUnchanged, GoTo, SessionStates
    <3> QED BY <1>6, <3>1
  <2> QED BY <1>1, <1>6, <2>1, <2>2, <2>3, HoldingSteps DEF Holding
<1>7. ASSUME NEW t \in Sessions, sess'[t].phase \in {"remember", "push", "put"}
      PROVE  AtMost(sess'[t].sealed.rows, data'[DeviceOf[t]])
  <2>1. DeviceOf[t] \in Devices
    BY SessionsAssumption
  <2>2. CASE /\ sess[t].phase \in {"remember", "push", "put"}
             /\ sess'[t].sealed = sess[t].sealed
    <3>1. AtMost(sess[t].sealed.rows, data[DeviceOf[t]])
      BY <2>2 DEF RefineInv, SealedIsLocal
    <3> QED BY <1>3, <1>5, <2>1, <2>2, <3>1 DEF AtMost, RowsAreStamps
  <2>3. CASE sess'[t] = sess[t]
    BY <1>7, <2>2, <2>3
  <2>4. CASE Fetch(t) \/ Import(t)
    <3>1. sess'[t].phase \in {"import", "seal"}
      BY <1>3, <2>4 DEF Fetch, Import, SessionStates
    <3> QED BY <1>7, <3>1
  <2>5. CASE Seal(t)
    <3>1. sess'[t].sealed.rows = data[DeviceOf[t]] /\ data' = data
      BY <1>3, <2>5 DEF Seal, NewEnvelope, SessionStates
    <3> QED BY <1>3, <2>1, <3>1 DEF AtMost, RowsAreStamps
  <2>6. CASE Remember(t) \/ CheckUnchanged(t)
    <3>1. /\ sess[t].phase \in {"remember", "push", "put"}
          /\ sess'[t].sealed = sess[t].sealed
      BY <1>3, <2>6 DEF Remember, CheckUnchanged, GoTo, SessionStates, At
    <3> QED BY <2>2, <3>1
  <2> QED BY <1>1, <1>7, <2>3, <2>4, <2>5, <2>6, HoldingSteps DEF Holding
<1> QED BY <1>2, <1>6, <1>7 DEF RefineInv, FetchedIsStored, SealedIsLocal, At

\* An import is a Learn, a push is a Publish, an edit is an Edit, and nothing else touches
\* the rows.
LEMMA VaultStep ==
    ASSUME RefineInv, MergingOnly, Conditional, [Next]_vars
    PROVE  [Vault!Next]_(Vault!vars)
<1>1. /\ MergeInv /\ TypeInv /\ AllMerge /\ NothingFromTheFuture
      /\ FetchedIsKept /\ FetchedIsStored /\ SealedIsLocal
      /\ Budget["restore"] = 0 /\ spent["restore"] = 0
  BY DEF RefineInv, MergeInv, AllMerge, MergingOnly
<1>2. RowsAreStamps
  BY <1>1, TypedRows
<1>3. ASSUME NEW d \in Devices, NEW r \in Records, Edit(d, r), UNCHANGED remote
      PROVE  Vault!Edit(d, r)
  <2>1. data' = [data EXCEPT ![d][r] = clock + 1] /\ data[d][r] <= clock /\ clock \in Nat
    BY <1>1, <1>3, BoundsAssumption DEF Edit, NothingFromTheFuture, TypeInv, TypeOK, Stamps
  <2>2. data[d] \in Rows /\ data'[d][r] = clock + 1
    BY <1>2, <2>1 DEF RowsAreStamps, Rows
  <2>3. data'[d][r] > data[d][r]
    BY <1>2, <2>1, <2>2 DEF RowsAreStamps
  <2>4. data' = [data EXCEPT ![d][r] = data'[d][r]]
    BY <2>1, <2>2
  <2> QED BY <1>3, <2>3, <2>4 DEF Vault!Edit
<1>4. ASSUME NEW s \in Sessions, Import(s), UNCHANGED remote
      PROVE  Vault!Learn(DeviceOf[s])
  <2> DEFINE seen == sess[s].fetched.rows
             d == DeviceOf[s]
  <2>1. d \in Devices /\ sess[s].phase = "import" /\ sess[s].strategy = "smart_merge"
    BY <1>1, <1>4, SessionsAssumption DEF Import, At, AllMerge
  <2>2. data' = [data EXCEPT ![d] = NewestRows(data[d], seen)]
    BY <1>4, <2>1 DEF Import, Imported
  <2>3. NewestRows(data[d], seen) = Vault!Newest(data[d], seen)
    BY DEF NewestRows, Greater, Vault!Newest
  <2>4. seen \in Vault!Earlier(remote.rows)
    <3>1. seen \in Rows
      BY <1>1 DEF TypeInv, TypeOK, SessionStates, Envelopes
    <3>2. \A r \in Records : seen[r] \in 0 .. remote.rows[r] /\ seen[r] <= remote.rows[r]
      BY <1>1, <1>2, <2>1 DEF FetchedIsStored, AtMost, At, RowsAreStamps
    <3>3. seen \in [Records -> UNION {0 .. remote.rows[r] : r \in Records}]
      BY <3>1, <3>2 DEF Rows
    <3> QED BY <3>2, <3>3 DEF Vault!Earlier, Vault!AtMost
  <2> QED BY <1>4, <2>2, <2>3, <2>4 DEF Vault!Learn
<1>5. ASSUME NEW s \in Sessions, sess[s].phase \in {"push", "put"},
             remote' = sess[s].sealed, remote = sess[s].fetched, UNCHANGED data
      PROVE  Vault!Publish(DeviceOf[s])
  <2> DEFINE sent == sess[s].sealed.rows
             d == DeviceOf[s]
  <2>1. d \in Devices
    BY SessionsAssumption
  <2>2. sent \in Rows
    BY <1>1 DEF TypeInv, TypeOK, SessionStates, Envelopes
  <2>3. \A r \in Records : sent[r] \in 0 .. data[d][r] /\ sent[r] <= data[d][r]
    BY <1>1, <1>2, <1>5, <2>1 DEF SealedIsLocal, AtMost, RowsAreStamps
  <2>4. sent \in [Records -> UNION {0 .. data[d][r] : r \in Records}]
    BY <2>2, <2>3 DEF Rows
  <2>5. sent \in Vault!Earlier(data[d])
    BY <2>3, <2>4 DEF Vault!Earlier, Vault!AtMost
  <2>6. \A r \in Records : remote.rows[r] <= sent[r]
    BY <1>1, <1>5 DEF FetchedIsKept, AtMost
  <2>7. remote'.rows = Vault!Newest(remote.rows, sent)
    <3>1. \A r \in Records : (IF remote.rows[r] >= sent[r] THEN remote.rows[r] ELSE sent[r])
                                = sent[r]
      BY <1>2, <2>6 DEF RowsAreStamps
    <3> QED BY <1>5, <2>2, <3>1 DEF Vault!Newest, Rows
  <2> QED BY <1>5, <2>5, <2>7 DEF Vault!Publish
<1>6. CASE UNCHANGED remote
  <2>1. CASE UNCHANGED <<data, clock>>
    BY <1>6, <2>1 DEF Vault!vars
  <2>2. CASE \E d \in Devices, r \in Records : Edit(d, r)
    BY <1>3, <1>6, <2>2 DEF Vault!Next
  <2>3. CASE \E s \in Sessions : Import(s)
    BY <1>4, <1>6, <2>3, SessionsAssumption DEF Vault!Next
  <2> QED BY <1>1, <2>1, <2>2, <2>3, DataSteps
<1>7. CASE \E s \in Sessions : /\ sess[s].phase \in {"push", "put"}
                               /\ remote' = sess[s].sealed
                               /\ UNCHANGED <<data, clock>>
                               /\ remote = sess[s].fetched
  BY <1>5, <1>7, SessionsAssumption DEF Vault!Next
<1> QED BY <1>1, <1>6, <1>7, RemoteSteps

\* Where every sync merges and the provider compares the tag as part of the write, the sync
\* protocol with all its retries, failures and crashes is the abstract vault: copies of rows
\* only learn, from copies that were there.
THEOREM SyncImplementsVault ==
    ASSUME MergingOnly, Conditional
    PROVE  Spec => ImplementsVault
<1>1. Init => Vault!Init
  BY DEF Init, Vault!Init, NoEnvelope, NoRows
<1>2. RefineInv /\ [Next]_vars => [Vault!Next]_(Vault!vars)
  BY VaultStep
<1> QED BY <1>1, <1>2, RefineInvInit, RefineInvNext, PTL DEF Spec, ImplementsVault, Vault!Spec

-----------------------------------------------------------------------------
(* Revisions: the header of an envelope succeeds both the header the device keeps and the  *)
(* header of the object, whatever the merge strategy, so that a stored revision is always  *)
(* newer than the one it replaces.                                                          *)

NoRestore == Budget["restore"] = 0

\* What rebuild_envelope_header is for.
HeaderSucceeds ==
    \A s \in Sessions :
        /\ At(s, "seal") => sess[s].base.revision >= sess[s].fetched.revision
        /\ sess[s].phase \in {"remember", "push", "put"}
              => sess[s].sealed.revision > sess[s].fetched.revision

LEMMA HeaderSucceedsNext ==
    ASSUME TypeInv, HeaderSucceeds, [Next]_vars
    PROVE  HeaderSucceeds'
<1>1. ASSUME NEW t \in Sessions
      PROVE  /\ sess'[t].phase = "seal" => sess'[t].base.revision >= sess'[t].fetched.revision
             /\ sess'[t].phase \in {"remember", "push", "put"}
                   => sess'[t].sealed.revision > sess'[t].fetched.revision
  <2>1. /\ sess \in [Sessions -> SessionStates]
        /\ sess[t].fetched.revision \in Nat /\ sess[t].base.revision \in Nat
        /\ DeviceOf[t] \in Devices /\ meta[DeviceOf[t]].revision \in Nat
    BY SessionsAssumption, BoundsAssumption
       DEF TypeInv, TypeOK, SessionStates, Envelopes, Metadata, Revisions
  <2>2. CASE sess'[t].phase \notin Holding
    BY <2>2 DEF Holding
  <2>3. CASE sess'[t] = sess[t]
    BY <2>3 DEF HeaderSucceeds, At
  <2>4. CASE Fetch(t)
    <3>1. sess'[t].phase = "import"
      BY <2>1, <2>4 DEF Fetch, SessionStates
    <3> QED BY <3>1
  <2>5. CASE Import(t)
    <3>1. /\ sess'[t].phase = "seal" /\ sess'[t].fetched = sess[t].fetched
          /\ sess'[t].base.revision = Greater(meta[DeviceOf[t]].revision, sess[t].fetched.revision)
      BY <2>1, <2>5 DEF Import, SucceededHeader, SessionStates
    <3> QED BY <2>1, <3>1 DEF Greater
  <2>6. CASE Seal(t)
    <3>1. /\ sess[t].phase = "seal" /\ sess'[t].phase = "remember"
          /\ sess'[t].fetched = sess[t].fetched
          /\ sess'[t].sealed.revision = sess[t].base.revision + 1
      BY <2>1, <2>6 DEF Seal, NewEnvelope, SessionStates, At
    <3> QED BY <2>1, <3>1 DEF HeaderSucceeds, At
  <2>7. CASE Remember(t) \/ CheckUnchanged(t)
    <3>1. /\ sess[t].phase \in {"remember", "push"} /\ sess'[t].phase \in {"push", "put"}
          /\ sess'[t].fetched = sess[t].fetched /\ sess'[t].sealed = sess[t].sealed
      BY <2>1, <2>7 DEF Remember, CheckUnchanged, GoTo, SessionStates, At
    <3> QED BY <3>1 DEF HeaderSucceeds
  <2> QED BY <2>2, <2>3, <2>4, <2>5, <2>6, <2>7, HoldingSteps
<1> QED BY <1>1 DEF HeaderSucceeds, At

LEMMA NobodyRestores ==
    ASSUME TypeInv, NoRestore, spent["restore"] = 0, [Next]_vars
    PROVE  spent'["restore"] = 0
<1>1. spent \in [Interruptions -> Nat]
  BY DEF TypeInv, TypeOK
<1>2. ASSUME NEW i \in {"outage", "crash", "forget"}, Spend(i)
      PROVE  spent'["restore"] = 0
  BY <1>1, <1>2 DEF Spend, Interruptions
<1>3. ASSUME NEW s \in Sessions, Proceed(s)
      PROVE  UNCHANGED spent
  BY <1>3 DEF Proceed, Fetch, Import, Refuse, Seal, Remember, CheckUnchanged, PushAccepted,
              PushConflict, Retry, Abort, Acknowledge, ClearCheckpoint
<1>4. ASSUME NEW s \in Sessions, Disturb(s)
      PROVE  spent'["restore"] = 0
  BY <1>2, <1>4 DEF Disturb, FetchFails, FetchConflict, SealFails, PushRetryable, PushFails
<1>5. ASSUME NEW s \in Sessions, RestoreVersion(s)
      PROVE  FALSE
  BY <1>5 DEF RestoreVersion, Spend, NoRestore
<1>6. ASSUME NEW d \in Devices, Crash(d) \/ ForgetSyncKey(d) \/ \E r \in Records : Edit(d, r)
      PROVE  spent'["restore"] = 0
  BY <1>2, <1>6 DEF Crash, ForgetSyncKey, Edit
<1> QED BY <1>3, <1>4, <1>5, <1>6 DEF Next, Begin, vars

RevisionInv == TypeInv /\ spent["restore"] = 0 /\ HeaderSucceeds

LEMMA RevisionInvNext ==
    ASSUME NoRestore
    PROVE  RevisionInv /\ [Next]_vars => RevisionInv'
BY TypeInvNext, NobodyRestores, HeaderSucceedsNext DEF RevisionInv

\* Where the provider compares the tag as part of the write and nobody restores, every
\* stored envelope has a larger revision than the one it replaces, under every strategy.
THEOREM RevisionsGrow ==
    ASSUME NoRestore, Conditional
    PROVE  Spec => RevisionAdvances
<1>1. Init => RevisionInv
  BY TypeInvInit DEF Init, RevisionInv, HeaderSucceeds, At, IdleSession, Interruptions
<1>2. ASSUME RevisionInv, [Next]_vars
      PROVE  [remote' # remote => remote'.revision > remote.revision]_vars
  <2>1. TypeInv /\ spent["restore"] = 0 /\ HeaderSucceeds
    BY <1>2 DEF RevisionInv
  <2> QED BY <1>2, <2>1, RemoteSteps DEF HeaderSucceeds, NoRestore
<1> QED BY <1>1, <1>2, RevisionInvNext, PTL DEF Spec, RevisionAdvances

-----------------------------------------------------------------------------
(* What a device remembers of its syncs agrees with what the provider     *)
(* stores: the rollback guard, the link to a vault and the revision of a   *)
(* restored version.                                                       *)

\* What the theorems assume of the constants.
OneSessionEach == \A s, t \in Sessions : DeviceOf[s] = DeviceOf[t] => s = t
NeverForgets == Budget["forget"] = 0

LEMMA NeverSpent ==
    ASSUME TypeInv, NEW i \in Interruptions, Budget[i] = 0, Spend(i)
    PROVE  FALSE
BY DEF TypeInv, TypeOK, Spend

-----------------------------------------------------------------------------
(* The steps of one session, by what they do to its variables, to the metadata and the     *)
(* checkpoint of its device and to the provider                                            *)

\* The metadata and checkpoint of the device and the object at the provider stay.
KeepsMeta(s) == meta'[DeviceOf[s]] = meta[DeviceOf[s]]
KeepsAcked(s) == acked'[DeviceOf[s]] = acked[DeviceOf[s]]
KeepsStored == remote' = remote /\ history' = history

\* Idle or fetching: before the session reads anything.
Waits(s) ==
    /\ sess[s].phase \in {"idle", "fetch"} /\ sess'[s].phase \in {"idle", "fetch"}
    /\ KeepsMeta(s) /\ KeepsAcked(s) /\ KeepsStored

Fetches(s) ==
    /\ sess[s].phase = "fetch" /\ sess'[s].phase = "import" /\ sess'[s].fetched = remote
    /\ KeepsMeta(s) /\ KeepsAcked(s) /\ KeepsStored

Imports(s) ==
    /\ sess[s].phase = "import" /\ sess'[s].phase = "seal"
    /\ Acceptable(meta[DeviceOf[s]], sess[s].fetched)
    /\ sess'[s].fetched = sess[s].fetched /\ sess'[s].saved = meta[DeviceOf[s]]
    /\ sess'[s].base = SucceededHeader(meta[DeviceOf[s]], sess[s].fetched)
    /\ KeepsMeta(s) /\ KeepsAcked(s) /\ KeepsStored

Refuses(s) ==
    /\ sess[s].phase = "import" /\ sess'[s].phase \in {"idle", "abort"}
    /\ ~ Acceptable(meta[DeviceOf[s]], sess[s].fetched)
    /\ sess'[s].phase = "abort" => IsObject /\ sess'[s].saved = meta[DeviceOf[s]]
    /\ KeepsMeta(s) /\ KeepsAcked(s) /\ KeepsStored

Seals(s) ==
    /\ sess[s].phase = "seal" /\ sess'[s].phase = "remember"
    /\ sess'[s].fetched = sess[s].fetched /\ sess'[s].saved = sess[s].saved
    /\ sess'[s].sealed.revision = sess[s].base.revision + 1
    /\ sess'[s].sealed.vault # 0
    /\ sess[s].base.vault # 0 => sess'[s].sealed.vault = sess[s].base.vault
    /\ meta'[DeviceOf[s]].vault = sess'[s].sealed.vault
    /\ meta'[DeviceOf[s]].revision = sess'[s].sealed.revision
    /\ meta'[DeviceOf[s]].seen = meta[DeviceOf[s]].seen
    /\ KeepsAcked(s) /\ KeepsStored

Remembers(s) ==
    /\ sess[s].phase = "remember" /\ sess'[s].phase = "push"
    /\ sess'[s].fetched = sess[s].fetched /\ sess'[s].saved = sess[s].saved
    /\ sess'[s].sealed = sess[s].sealed
    /\ meta'[DeviceOf[s]].vault = meta[DeviceOf[s]].vault
    /\ meta'[DeviceOf[s]].revision = meta[DeviceOf[s]].revision
    /\ sess[s].sealed.vault # 0
          => meta'[DeviceOf[s]].seen[sess[s].sealed.vault] = sess[s].sealed.revision
    /\ KeepsAcked(s) /\ KeepsStored

\* The comparison before an unconditional write.
Compares(s) ==
    /\ sess[s].phase = "push" /\ sess'[s].phase = "put"
    /\ Transport = "object_unconditional"
    /\ sess'[s].fetched = sess[s].fetched /\ sess'[s].saved = sess[s].saved
    /\ sess'[s].sealed = sess[s].sealed
    /\ KeepsMeta(s) /\ KeepsAcked(s) /\ KeepsStored

Pushes(s) ==
    /\ sess[s].phase \in {"push", "put"} /\ sess'[s].phase = "acknowledge"
    /\ Precondition(s) /\ Store(sess[s].sealed)
    /\ sess'[s].sealed = sess[s].sealed
    /\ KeepsMeta(s) /\ KeepsAcked(s)

\* The envelope is not made or not pushed, or it is pushed and the session does not learn so.
Fails(s) ==
    /\ sess[s].phase \in {"seal", "push", "put"}
    /\ IF IsObject THEN /\ sess'[s].phase \in {"retry", "abort"}
                        /\ sess'[s].saved = sess[s].saved
                   ELSE sess'[s].phase \in {"idle", "fetch"}
    /\ \/ KeepsStored
       \/ /\ Spend("outage") /\ Precondition(s) /\ Store(sess[s].sealed)
          /\ sess[s].phase \in {"push", "put"}
    /\ KeepsMeta(s) /\ KeepsAcked(s)

Acknowledges(s) ==
    /\ sess[s].phase = "acknowledge" /\ sess'[s].phase = "idle"
    /\ acked'[DeviceOf[s]] = sess[s].sealed.revision
    /\ KeepsMeta(s) /\ KeepsStored

\* The metadata is again what it was before the attempt.
Undoes(s) ==
    /\ sess[s].phase \in {"retry", "abort"} /\ sess'[s].phase \in {"idle", "fetch"}
    /\ meta'[DeviceOf[s]] = sess[s].saved
    /\ KeepsAcked(s) /\ KeepsStored

Restores(s) ==
    /\ sess[s].phase = "idle" /\ sess'[s].phase = "clear"
    /\ Spend("restore") /\ remote' \in history /\ history' = history
    /\ KeepsMeta(s) /\ KeepsAcked(s)

Clears(s) ==
    /\ sess[s].phase = "clear" /\ sess'[s].phase = "fetch"
    /\ meta'[DeviceOf[s]].vault = meta[DeviceOf[s]].vault
    /\ meta'[DeviceOf[s]].revision = meta[DeviceOf[s]].revision
    /\ \A v \in Vaults : meta'[DeviceOf[s]].seen[v] = 0
    /\ KeepsAcked(s) /\ KeepsStored

Moves(s) ==
    \/ Waits(s) \/ Fetches(s) \/ Imports(s) \/ Refuses(s) \/ Seals(s) \/ Remembers(s)
    \/ Compares(s) \/ Pushes(s) \/ Fails(s) \/ Acknowledges(s) \/ Undoes(s) \/ Restores(s)
    \/ Clears(s)

Step(s) == Begin(s) \/ Proceed(s) \/ Disturb(s) \/ RestoreVersion(s)

\* The other sessions, and the devices without it, stay as they are.
Others(s) ==
    /\ \A t \in Sessions \ {s} : sess'[t] = sess[t]
    /\ \A d \in Devices \ {DeviceOf[s]} : meta'[d] = meta[d] /\ acked'[d] = acked[d]

LEMMA OthersStay == ASSUME TypeInv, NEW s \in Sessions, Step(s)
                    PROVE  Others(s)
<1>1. /\ sess \in [Sessions -> SessionStates] /\ meta \in [Devices -> Metadata]
      /\ acked \in [Devices -> Revisions] /\ DeviceOf[s] \in Devices
  BY SessionsAssumption DEF TypeInv, TypeOK
<1>2. ASSUME Leave(s) \/ GiveUp(s) \/ TryAgain(s)
      PROVE  \A t \in Sessions \ {s} : sess'[t] = sess[t]
  BY <1>1, <1>2, LeavingSteps DEF TypeInv
<1>3. ASSUME NEW p, GoTo(s, p)
      PROVE  \A t \in Sessions \ {s} : sess'[t] = sess[t]
  BY <1>1, <1>3 DEF GoTo
<1>4. \A t \in Sessions \ {s} : sess'[t] = sess[t]
  <2>1. CASE Begin(s) \/ RestoreVersion(s)
    BY <1>1, <1>3, <2>1 DEF Begin, RestoreVersion
  <2>2. CASE Disturb(s)
    BY <1>1, <1>2, <2>2
       DEF Disturb, FetchFails, FetchConflict, SealFails, PushRetryable, PushFails
  <2>3. CASE Fetch(s) \/ Import(s) \/ Seal(s) \/ ClearCheckpoint(s) \/ Retry(s)
    BY <1>1, <2>3 DEF Fetch, Import, Seal, ClearCheckpoint, Retry
  <2>4. CASE Refuse(s)
    BY <1>1, <1>2, <2>4 DEF Refuse
  <2>5. CASE Remember(s) \/ CheckUnchanged(s) \/ PushAccepted(s)
    BY <1>3, <2>5 DEF Remember, CheckUnchanged, PushAccepted
  <2>6. CASE PushConflict(s) \/ Abort(s) \/ Acknowledge(s)
    BY <1>2, <2>6 DEF PushConflict, Abort, Acknowledge
  <2> QED BY <2>1, <2>2, <2>3, <2>4, <2>5, <2>6 DEF Step, Proceed
<1>5. \A d \in Devices \ {DeviceOf[s]} : meta'[d] = meta[d]
  <2>1. CASE Begin(s) \/ RestoreVersion(s) \/ Disturb(s)
    BY <2>1 DEF Begin, RestoreVersion, Disturb, FetchFails, FetchConflict, SealFails,
                PushRetryable, PushFails
  <2>2. CASE Proceed(s)
    BY <1>1, <2>2 DEF Proceed, Fetch, Import, Refuse, Seal, Remember, CheckUnchanged,
       PushAccepted, PushConflict, Retry, Abort, Acknowledge, ClearCheckpoint
  <2> QED BY <2>1, <2>2 DEF Step
<1>6. \A d \in Devices \ {DeviceOf[s]} : acked'[d] = acked[d]
  <2>1. CASE Begin(s) \/ RestoreVersion(s) \/ Disturb(s)
    BY <2>1 DEF Begin, RestoreVersion, Disturb, FetchFails, FetchConflict, SealFails,
                PushRetryable, PushFails
  <2>2. CASE Proceed(s)
    BY <1>1, <2>2 DEF Proceed, Fetch, Import, Refuse, Seal, Remember, CheckUnchanged,
       PushAccepted, PushConflict, Retry, Abort, Acknowledge, ClearCheckpoint
  <2> QED BY <2>1, <2>2 DEF Step
<1> QED BY <1>4, <1>5, <1>6 DEF Others

\* Leaving: where a failed attempt goes.
LEMMA FailedAttempt ==
    ASSUME TypeInv, NEW s \in Sessions, GiveUp(s) \/ TryAgain(s)
    PROVE  IF IsObject THEN /\ sess'[s].phase \in {"retry", "abort"}
                            /\ sess'[s].saved = sess[s].saved
                       ELSE sess'[s].phase \in {"idle", "fetch"}
<1>1. sess \in [Sessions -> SessionStates] /\ sess[s] \in SessionStates
  BY DEF TypeInv, TypeOK
<1>2. CASE GiveUp(s)
  BY <1>1, <1>2 DEF GiveUp, GoTo, Leave, IdleSession, SessionStates
<1>3. CASE TryAgain(s) /\ ~ GiveUp(s) /\ IsObject
  BY <1>1, <1>3 DEF TryAgain, GoTo, SessionStates
<1>4. CASE TryAgain(s) /\ ~ GiveUp(s) /\ ~ IsObject
  <2> DEFINE y == [IdleSession EXCEPT !.phase = "fetch", !.attempt = sess[s].attempt + 1,
                     !.strategy = sess[s].strategy]
  <2>1. sess' = [sess EXCEPT ![s] = y] /\ y.phase = "fetch"
    BY <1>4 DEF TryAgain, IdleSession
  <2> HIDE DEF y
  <2> QED BY <1>1, <1>4, <2>1
<1> QED BY <1>2, <1>3, <1>4

LEMMA SessionMoves == ASSUME TypeInv, NEW s \in Sessions, Step(s)
                      PROVE  Moves(s)
<1>1. /\ sess \in [Sessions -> SessionStates] /\ sess[s] \in SessionStates
      /\ meta \in [Devices -> Metadata] /\ acked \in [Devices -> Revisions]
      /\ DeviceOf[s] \in Devices /\ meta[DeviceOf[s]] \in Metadata
      /\ minted \in Nat
      /\ sess[s].base \in [vault : Ids, revision : Revisions]
      /\ sess[s].sealed \in Envelopes
  BY SessionsAssumption, BoundsAssumption DEF TypeInv, TypeOK, SessionStates, Ids
<1> USE DEF KeepsMeta, KeepsAcked, KeepsStored, At
<1>2. CASE Begin(s)
  BY <1>1, <1>2 DEF Begin, Waits, SessionStates, Moves
<1>3. CASE FetchFails(s)
  BY <1>1, <1>3 DEF FetchFails, Leave, IdleSession, Waits, Moves
<1>4. CASE FetchConflict(s)
  BY <1>1, <1>4 DEF FetchConflict, SessionStates, Waits, Moves
<1>5. CASE SealFails(s)
  BY <1>5, FailedAttempt DEF SealFails, Fails, Moves
<1>6. CASE PushRetryable(s)
  BY <1>6, FailedAttempt DEF PushRetryable, Precondition, Fails, Moves
<1>7. CASE PushFails(s)
  BY <1>7, FailedAttempt DEF PushFails, Fails, Moves
<1>8. CASE PushConflict(s)
  BY <1>8, FailedAttempt DEF PushConflict, Fails, Moves
<1>9. CASE RestoreVersion(s)
  <2>1. sess'[s].phase = "clear"
    BY <1>1, <1>9 DEF RestoreVersion, GoTo
  <2>2. remote' \in history /\ history' = history
    BY <1>9 DEF RestoreVersion, Store
  <2> QED BY <1>9, <2>1, <2>2 DEF RestoreVersion, Restores, Moves
<1>10. CASE Fetch(s)
  BY <1>1, <1>10 DEF Fetch, SessionStates, Fetches, Moves
<1>11. CASE Import(s)
  <2>1. /\ sess'[s].phase = "seal" /\ sess'[s].fetched = sess[s].fetched
        /\ sess'[s].saved = meta[DeviceOf[s]]
        /\ sess'[s].base = SucceededHeader(meta[DeviceOf[s]], sess[s].fetched)
    BY <1>1, <1>11 DEF Import, SessionStates
  <2> QED BY <1>11, <2>1 DEF Import, Imports, Moves
<1>12. CASE Refuse(s)
  <2>1. CASE IsObject
    <3>1. sess'[s].phase = "abort" /\ sess'[s].saved = meta[DeviceOf[s]]
      BY <1>1, <1>12, <2>1 DEF Refuse, SessionStates
    <3> QED BY <1>12, <2>1, <3>1 DEF Refuse, Refuses, Moves
  <2>2. CASE ~ IsObject
    BY <1>1, <1>12, <2>2 DEF Refuse, Leave, IdleSession, Refuses, Moves
  <2> QED BY <2>1, <2>2
<1>13. CASE Seal(s)
  <2> DEFINE e == NewEnvelope(s)
             m == meta[DeviceOf[s]]
  <2>1. /\ e.revision = sess[s].base.revision + 1 /\ e.vault # 0
        /\ sess[s].base.vault # 0 => e.vault = sess[s].base.vault
    BY <1>1 DEF NewEnvelope
  <2> HIDE DEF e
  <2>2. /\ sess'[s].phase = "remember" /\ sess'[s].fetched = sess[s].fetched
        /\ sess'[s].saved = sess[s].saved /\ sess'[s].sealed = e
    BY <1>1, <1>13 DEF Seal, e, SessionStates
  <2>3. meta'[DeviceOf[s]] = [m EXCEPT !.vault = e.vault, !.revision = e.revision]
    BY <1>1, <1>13 DEF Seal, e
  <2>4. m \in Metadata
    BY <1>1
  <2> HIDE DEF m
  <2>5. /\ meta'[DeviceOf[s]].vault = e.vault /\ meta'[DeviceOf[s]].revision = e.revision
        /\ meta'[DeviceOf[s]].seen = m.seen
    BY <2>3, <2>4 DEF Metadata
  <2> QED BY <1>13, <2>1, <2>2, <2>5 DEF Seal, Seals, Moves, m
<1>14. CASE Remember(s)
  <2> DEFINE m == meta[DeviceOf[s]]
             v == sess[s].sealed.vault
  <2>1. /\ sess'[s].phase = "push" /\ sess'[s].fetched = sess[s].fetched
        /\ sess'[s].saved = sess[s].saved /\ sess'[s].sealed = sess[s].sealed
    BY <1>1, <1>14 DEF Remember, GoTo, SessionStates
  <2>2. meta'[DeviceOf[s]] = [m EXCEPT !.seen[v] = sess[s].sealed.revision]
    BY <1>1, <1>14 DEF Remember
  <2>3. m \in Metadata /\ (v # 0 => v \in Vaults)
    BY <1>1 DEF Vaults, Envelopes
  <2> HIDE DEF m, v
  <2>4. /\ meta'[DeviceOf[s]].vault = m.vault /\ meta'[DeviceOf[s]].revision = m.revision
        /\ v # 0 => meta'[DeviceOf[s]].seen[v] = sess[s].sealed.revision
    BY <2>2, <2>3 DEF Metadata
  <2> QED BY <1>14, <2>1, <2>4 DEF Remember, Remembers, Moves, m, v
<1>15. CASE CheckUnchanged(s)
  <2>1. /\ sess'[s].phase = "put" /\ sess'[s].fetched = sess[s].fetched
        /\ sess'[s].saved = sess[s].saved /\ sess'[s].sealed = sess[s].sealed
    BY <1>1, <1>15 DEF CheckUnchanged, GoTo, SessionStates
  <2> QED BY <1>15, <2>1 DEF CheckUnchanged, Compares, Moves
<1>16. CASE PushAccepted(s)
  <2>1. sess'[s].phase = "acknowledge" /\ sess'[s].sealed = sess[s].sealed
    BY <1>1, <1>16 DEF PushAccepted, GoTo, SessionStates
  <2> QED BY <1>16, <2>1 DEF PushAccepted, Pushes, Moves
<1>17. CASE Retry(s) \/ Abort(s)
  <2>1. sess'[s].phase \in {"idle", "fetch"}
    <3>1. CASE Abort(s)
      BY <1>1, <3>1 DEF Abort, Leave, IdleSession
    <3>2. CASE Retry(s)
      <4> DEFINE y == [IdleSession EXCEPT !.phase = "fetch", !.attempt = sess[s].attempt + 1,
                         !.strategy = sess[s].strategy]
      <4>1. sess' = [sess EXCEPT ![s] = y] /\ y.phase = "fetch"
        BY <3>2 DEF Retry, IdleSession
      <4> HIDE DEF y
      <4> QED BY <1>1, <4>1
    <3> QED BY <1>17, <3>1, <3>2
  <2>2. meta'[DeviceOf[s]] = sess[s].saved
    BY <1>1, <1>17 DEF Retry, Abort
  <2> QED BY <1>17, <2>1, <2>2 DEF Retry, Abort, Undoes, Moves
<1>18. CASE Acknowledge(s)
  BY <1>1, <1>18 DEF Acknowledge, Leave, IdleSession, Acknowledges, Moves
<1>19. CASE ClearCheckpoint(s)
  <2> DEFINE m == meta[DeviceOf[s]]
  <2>1. sess'[s].phase = "fetch"
    BY <1>1, <1>19 DEF ClearCheckpoint, SessionStates
  <2>2. meta'[DeviceOf[s]] = [m EXCEPT !.seen = [v \in Vaults |-> 0]]
    BY <1>1, <1>19 DEF ClearCheckpoint
  <2>3. m \in Metadata
    BY <1>1
  <2> HIDE DEF m
  <2>4. /\ meta'[DeviceOf[s]].vault = m.vault /\ meta'[DeviceOf[s]].revision = m.revision
        /\ \A v \in Vaults : meta'[DeviceOf[s]].seen[v] = 0
    BY <2>2, <2>3 DEF Metadata
  <2> QED BY <1>19, <2>1, <2>4 DEF ClearCheckpoint, Clears, Moves, m
<1> QED BY <1>2, <1>3, <1>4, <1>5, <1>6, <1>7, <1>8, <1>9, <1>10, <1>11, <1>12, <1>13, <1>14,
        <1>15, <1>16, <1>17, <1>18, <1>19 DEF Step, Proceed, Disturb

\* Every other step leaves sessions and metadata, but for a crash and a forgotten key.
LEMMA NextSteps ==
    ASSUME [Next]_vars
    PROVE  \/ \E s \in Sessions : Step(s)
           \/ UNCHANGED <<remote, history, meta, acked, sess>>
           \/ \E d \in Devices : Crash(d) \/ ForgetSyncKey(d)
BY DEF Next, Step, Edit, vars

-----------------------------------------------------------------------------
(* A session owns the metadata of its device: from the import to the acknowledgement       *)
(* nothing else writes it, so the session knows what is in it.                              *)

HasSealed == {"remember", "push", "put", "acknowledge"}

Owns(s) ==
    LET m == meta[DeviceOf[s]] IN
    /\ At(s, "seal") => /\ m = sess[s].saved /\ sess[s].base.revision >= m.revision
                        /\ m.vault # 0 => sess[s].base.vault = m.vault
    /\ sess[s].phase \in HasSealed => /\ sess[s].sealed.vault # 0
                                      /\ m.vault = sess[s].sealed.vault
                                      /\ m.revision = sess[s].sealed.revision
    /\ sess[s].phase \in {"push", "put", "acknowledge"}
          => m.seen[sess[s].sealed.vault] = sess[s].sealed.revision

OwnInv == TypeInv /\ \A s \in Sessions : Owns(s)

\* What the proofs use of the types.
Numbers ==
    /\ \A d \in Devices : /\ meta[d] \in Metadata /\ meta[d].revision \in Nat
                          /\ \A v \in Vaults : meta[d].seen[v] \in Nat
                          /\ acked[d] \in Nat
    /\ \A s \in Sessions : /\ DeviceOf[s] \in Devices
                           /\ sess[s].fetched \in Envelopes
                           /\ sess[s].fetched.revision \in Nat
                           /\ sess[s].base.revision \in Nat
                           /\ sess[s].sealed \in Envelopes
                           /\ sess[s].sealed.revision \in Nat
                           /\ sess[s].saved \in Metadata
                           /\ sess[s].saved.revision \in Nat
                           /\ \A v \in Vaults : sess[s].saved.seen[v] \in Nat
    /\ remote \in Envelopes /\ remote.revision \in Nat
    /\ \A e \in history : e \in Envelopes /\ e.revision \in Nat

LEMMA TypedNumbers == TypeInv => Numbers
<1> SUFFICES ASSUME TypeInv PROVE Numbers
  OBVIOUS
<1>1. \A m \in Metadata : m.revision \in Nat /\ \A v \in Vaults : m.seen[v] \in Nat
  BY BoundsAssumption DEF Metadata, Revisions
<1>2. \A e \in Envelopes : e.revision \in Nat
  BY BoundsAssumption DEF Envelopes, Revisions
<1>3. \A d \in Devices : meta[d] \in Metadata /\ acked[d] \in Nat
  BY BoundsAssumption DEF TypeInv, TypeOK, Revisions
<1>4. \A s \in Sessions : /\ DeviceOf[s] \in Devices
                          /\ sess[s].fetched \in Envelopes /\ sess[s].sealed \in Envelopes
                          /\ sess[s].saved \in Metadata /\ sess[s].base.revision \in Nat
  BY SessionsAssumption, BoundsAssumption DEF TypeInv, TypeOK, SessionStates, Revisions
<1>5. remote \in Envelopes /\ \A e \in history : e \in Envelopes
  BY DEF TypeInv, TypeOK
<1> QED BY <1>1, <1>2, <1>3, <1>4, <1>5 DEF Numbers

LEMMA OwnInvInit == Init => OwnInv
BY TypeInvInit DEF Init, OwnInv, Owns, At, IdleSession, HasSealed

\* The session of a step keeps what it owns.
LEMMA OwnsMoves ==
    ASSUME Numbers, Numbers', NEW s \in Sessions, Moves(s), Owns(s)
    PROVE  Owns(s)'
<1>1. DeviceOf[s] \in Devices
  BY DEF Numbers
<1>2. CASE \/ Waits(s) \/ Fetches(s) \/ Refuses(s) \/ Fails(s) \/ Undoes(s)
           \/ Acknowledges(s) \/ Restores(s) \/ Clears(s)
  <2>1. sess'[s].phase \notin HasSealed \cup {"seal"}
    BY <1>2 DEF Waits, Fetches, Refuses, Fails, Undoes, Acknowledges, Restores, Clears,
                HasSealed
  <2> QED BY <2>1 DEF Owns, At, HasSealed
<1>3. CASE Imports(s)
  <2>1. /\ sess'[s].base.revision >= meta[DeviceOf[s]].revision
        /\ meta[DeviceOf[s]].vault # 0 => sess'[s].base.vault = meta[DeviceOf[s]].vault
    BY <1>1, <1>3 DEF Imports, SucceededHeader, Greater, Numbers
  <2> QED BY <1>3, <2>1 DEF Imports, Owns, At, HasSealed, KeepsMeta
<1>4. CASE Seals(s)
  BY <1>4 DEF Seals, Owns, At, HasSealed
<1>5. CASE Remembers(s)
  BY <1>5 DEF Remembers, Owns, At, HasSealed
<1>6. CASE Compares(s)
  BY <1>6 DEF Compares, Owns, At, HasSealed, KeepsMeta
<1>7. CASE Pushes(s)
  BY <1>7 DEF Pushes, Owns, At, HasSealed, KeepsMeta
<1> QED BY <1>2, <1>3, <1>4, <1>5, <1>6, <1>7 DEF Moves

LEMMA OwnInvNext ==
    ASSUME OneSessionEach, NeverForgets
    PROVE  OwnInv /\ [Next]_vars => OwnInv'
<1> SUFFICES ASSUME OwnInv, [Next]_vars PROVE OwnInv'
  OBVIOUS
<1>1. TypeInv /\ TypeInv' /\ \A s \in Sessions : Owns(s)
  BY TypeInvNext DEF OwnInv
<1>2. Numbers /\ Numbers'
  BY <1>1, TypedNumbers, PTL
<1>3. ASSUME NEW s \in Sessions, Step(s), NEW t \in Sessions
      PROVE  Owns(t)'
  <2>1. CASE t = s
    BY <1>1, <1>2, <1>3, <2>1, SessionMoves, OwnsMoves
  <2>2. CASE t # s
    <3>1. DeviceOf[t] \in Devices \ {DeviceOf[s]}
      BY <1>2, <2>2 DEF Numbers, OneSessionEach
    <3>2. sess'[t] = sess[t] /\ meta'[DeviceOf[t]] = meta[DeviceOf[t]]
      BY <1>1, <1>3, <2>2, <3>1, OthersStay DEF Others
    <3> QED BY <1>1, <3>2 DEF Owns, At
  <2> QED BY <2>1, <2>2
<1>4. ASSUME NEW d \in Devices, Crash(d), NEW t \in Sessions
      PROVE  Owns(t)'
  <2>1. meta' = meta /\ (sess'[t] = sess[t] \/ sess'[t] = IdleSession)
    BY <1>4 DEF Crash
  <2>2. CASE sess'[t] = sess[t]
    BY <1>1, <2>1, <2>2 DEF Owns, At
  <2>3. CASE sess'[t] = IdleSession
    BY <2>3 DEF Owns, At, IdleSession, HasSealed
  <2> QED BY <2>1, <2>2, <2>3
<1>5. ASSUME NEW d \in Devices, ForgetSyncKey(d)
      PROVE  FALSE
  BY <1>1, <1>5, NeverSpent DEF ForgetSyncKey, Interruptions, NeverForgets
<1>6. ASSUME UNCHANGED <<remote, history, meta, acked, sess>>, NEW t \in Sessions
      PROVE  Owns(t)'
  BY <1>1, <1>6 DEF Owns, At
<1>7. \A t \in Sessions : Owns(t)'
  BY <1>3, <1>4, <1>5, <1>6, NextSteps
<1> QED BY <1>1, <1>7 DEF OwnInv

-----------------------------------------------------------------------------
(* The rollback guard covers what a sync reported as done *)

\* Metadata m knows its vault at revision n or a later one.
Covers(m, n) == n # 0 => m.vault # 0 /\ m.seen[m.vault] >= n /\ m.revision >= n

\* The phases from which a session may put its snapshot of the metadata back.
MayUndo == {"seal", "remember", "push", "put", "retry", "abort"}

Covered(s) ==
    /\ ~ At(s, "clear")
    /\ sess[s].phase \in MayUndo => Covers(sess[s].saved, acked[DeviceOf[s]])

\* Every device's metadata covers its checkpoint at every moment, idle or not, and so does
\* every snapshot that may be restored.
GuardInv ==
    /\ OwnInv
    /\ \A d \in Devices : Covers(meta[d], acked[d])
    /\ \A s \in Sessions : Covered(s)

LEMMA GuardInvInit == Init => GuardInv
BY OwnInvInit DEF Init, GuardInv, Covers, Covered, At, IdleSession, MayUndo

LEMMA CoveredMoves ==
    ASSUME Numbers, Numbers', NEW s \in Sessions, Moves(s), ~ Restores(s), Owns(s),
           Covered(s), Covers(meta[DeviceOf[s]], acked[DeviceOf[s]])
    PROVE  Covers(meta[DeviceOf[s]], acked[DeviceOf[s]])' /\ Covered(s)'
<1>1. DeviceOf[s] \in Devices
  BY DEF Numbers
<1> USE DEF KeepsMeta, KeepsAcked
<1>2. CASE Waits(s) \/ Fetches(s)
  BY <1>2 DEF Waits, Fetches, Covers, Covered, At, MayUndo
<1>3. CASE Imports(s) \/ Refuses(s)
  BY <1>3 DEF Imports, Refuses, Covers, Covered, At, MayUndo
<1>4. CASE Seals(s)
  <2>1. sess[s].base.vault = meta[DeviceOf[s]].vault \/ meta[DeviceOf[s]].vault = 0
    BY <1>4 DEF Seals, Owns, At
  <2>2. Covers(meta[DeviceOf[s]], acked[DeviceOf[s]])'
    BY <1>1, <1>4, <2>1 DEF Seals, Owns, At, Covers, Numbers
  <2> QED BY <1>4, <2>2 DEF Seals, Covered, At, MayUndo, Covers
<1>5. CASE Remembers(s)
  BY <1>1, <1>5 DEF Remembers, Owns, HasSealed, Covers, Covered, At, MayUndo, Numbers
<1>6. CASE Compares(s) \/ Pushes(s)
  BY <1>6 DEF Compares, Pushes, Covers, Covered, At, MayUndo
<1>7. CASE Fails(s)
  BY <1>7 DEF Fails, Covers, Covered, At, MayUndo
<1>8. CASE Acknowledges(s)
  <2>1. Covers(meta[DeviceOf[s]], acked[DeviceOf[s]])'
    BY <1>1, <1>8 DEF Acknowledges, Owns, HasSealed, Covers, Numbers
  <2> QED BY <1>8, <2>1 DEF Acknowledges, Covered, At, MayUndo
<1>9. CASE Undoes(s)
  BY <1>9 DEF Undoes, Covers, Covered, At, MayUndo
<1>10. CASE Clears(s)
  BY <1>10 DEF Clears, Covered, At
<1> QED BY <1>2, <1>3, <1>4, <1>5, <1>6, <1>7, <1>8, <1>9, <1>10 DEF Moves

LEMMA GuardInvNext ==
    ASSUME OneSessionEach, NeverForgets, NoRestore
    PROVE  GuardInv /\ [Next]_vars => GuardInv'
<1> SUFFICES ASSUME GuardInv, [Next]_vars PROVE GuardInv'
  OBVIOUS
<1>1. /\ OwnInv /\ OwnInv' /\ TypeInv /\ TypeInv' /\ \A s \in Sessions : Owns(s)
      /\ \A d \in Devices : Covers(meta[d], acked[d])
      /\ \A s \in Sessions : Covered(s)
  BY OwnInvNext DEF GuardInv, OwnInv
<1>2. Numbers /\ Numbers'
  BY <1>1, TypedNumbers, PTL
<1>3. ASSUME NEW s \in Sessions, Step(s)
      PROVE  /\ \A d \in Devices : Covers(meta[d], acked[d])'
             /\ \A t \in Sessions : Covered(t)'
  <2>1. ~ Restores(s)
    BY <1>1, NeverSpent DEF Restores, Interruptions, NoRestore
  <2>2. DeviceOf[s] \in Devices /\ Moves(s) /\ Others(s)
    BY <1>1, <1>2, <1>3, SessionMoves, OthersStay DEF Numbers
  <2>3. Covers(meta[DeviceOf[s]], acked[DeviceOf[s]])' /\ Covered(s)'
    BY <1>1, <1>2, <2>1, <2>2, CoveredMoves
  <2>4. ASSUME NEW d \in Devices
        PROVE  Covers(meta[d], acked[d])'
    <3>1. CASE d = DeviceOf[s]
      BY <2>3, <3>1
    <3>2. CASE d # DeviceOf[s]
      BY <1>1, <2>2, <3>2 DEF Others, Covers
    <3> QED BY <3>1, <3>2
  <2>5. ASSUME NEW t \in Sessions
        PROVE  Covered(t)'
    <3>1. CASE t = s
      BY <2>3, <3>1
    <3>2. CASE t # s
      <4>1. DeviceOf[t] \in Devices \ {DeviceOf[s]}
        BY <1>2, <3>2 DEF Numbers, OneSessionEach
      <4> QED BY <1>1, <2>2, <3>2, <4>1 DEF Others, Covered, Covers, At
    <3> QED BY <3>1, <3>2
  <2> QED BY <2>4, <2>5
<1>4. ASSUME NEW d \in Devices, Crash(d)
      PROVE  /\ \A e \in Devices : Covers(meta[e], acked[e])'
             /\ \A t \in Sessions : Covered(t)'
  <2>1. meta' = meta /\ acked' = acked
    BY <1>4 DEF Crash
  <2>2. ASSUME NEW t \in Sessions
        PROVE  Covered(t)'
    <3>1. sess'[t] = sess[t] \/ sess'[t] = IdleSession
      BY <1>4 DEF Crash
    <3> QED BY <1>1, <2>1, <3>1 DEF Covered, Covers, At, IdleSession, MayUndo
  <2> QED BY <1>1, <2>1, <2>2 DEF Covers
<1>5. ASSUME NEW d \in Devices, ForgetSyncKey(d)
      PROVE  FALSE
  BY <1>1, <1>5, NeverSpent DEF ForgetSyncKey, Interruptions, NeverForgets
<1>6. ASSUME UNCHANGED <<remote, history, meta, acked, sess>>
      PROVE  /\ \A d \in Devices : Covers(meta[d], acked[d])'
             /\ \A t \in Sessions : Covered(t)'
  BY <1>1, <1>6 DEF Covered, Covers, At
<1> QED BY <1>1, <1>3, <1>4, <1>5, <1>6, NextSteps DEF GuardInv

\* With one session on each device, whatever the transport, the strategies, the failures and
\* the crashes: the rollback guard of an idle device covers every revision that a sync of it
\* reported as done. (Forgetting the key and restoring a version reset the guard on purpose.)
THEOREM GuardKept ==
    ASSUME OneSessionEach, NeverForgets, NoRestore
    PROVE  Spec => []GuardCoversAcknowledged
<1>1. GuardInv => GuardCoversAcknowledged
  BY DEF GuardInv, Covers, GuardCoversAcknowledged
<1> QED BY <1>1, GuardInvInit, GuardInvNext, PTL DEF Spec

-----------------------------------------------------------------------------
(* What a device remembers fits what the provider stores *)

OneSession == \A s, t \in Sessions : s = t

\* A provider that writes conditionally and whose failed pushes restore the metadata; no
\* crash between recording a revision and pushing it; versions restored by the only session.
Steady ==
    /\ Transport = "object" /\ OneSessionEach /\ NeverForgets
    /\ Budget["crash"] = 0
    /\ Budget["restore"] = 0 \/ OneSession

\* Metadata m links the device to no other vault than e's and remembers nothing newer.
Fits(m, e) ==
    IF e = NoEnvelope
    THEN m.vault = 0 /\ \A v \in Vaults : m.seen[v] = 0
    ELSE m.vault \in {0, e.vault} /\ m.seen[e.vault] <= e.revision

\* Envelope e can replace the object o: it is of the same vault and newer.
Succeeds(e, o) ==
    e.vault # 0 /\ (o # NoEnvelope => e.vault = o.vault /\ e.revision > o.revision)

\* All that was ever stored is of one vault.
OneVault ==
    /\ remote.vault = 0 => remote = NoEnvelope /\ history = {}
    /\ \A e \in history : e.vault = remote.vault

\* A device that does not sync knows nothing; between attempts a device's metadata fits the
\* object, and within one its snapshot does; a session seals for the vault it fetched.
Fitting(s) ==
    LET m == meta[DeviceOf[s]]
        p == sess[s]
    IN  /\ p.phase \in {"idle", "fetch", "import", "seal", "acknowledge"} => Fits(m, remote)
        /\ p.phase = "import" => Fits(m, p.fetched)
        /\ p.phase \in MayUndo => Fits(p.saved, remote)
        /\ p.phase = "clear" => remote # NoEnvelope /\ m.vault \in {0, remote.vault}
        /\ p.phase \in {"import", "seal"} /\ p.fetched # NoEnvelope => p.fetched.vault # 0
        /\ p.phase = "seal" /\ p.fetched # NoEnvelope => p.base.vault = p.fetched.vault
        /\ p.phase \in {"remember", "push"} => Succeeds(p.sealed, p.fetched)
        /\ p.phase # "put"

SteadyInv ==
    /\ OwnInv /\ HeaderSucceeds /\ OneVault
    /\ \A d \in Devices : (\A s \in Sessions : DeviceOf[s] # d) => meta[d] = NoMetadata
    /\ \A s \in Sessions : Fitting(s)

LEMMA FitsAdvance ==
    ASSUME NEW m \in Metadata, \A v \in Vaults : m.seen[v] \in Nat,
           NEW o \in Envelopes, NEW e \in Envelopes, o.revision \in Nat, e.revision \in Nat,
           Fits(m, o), Succeeds(e, o)
    PROVE  Fits(m, e)
<1>1. e # NoEnvelope /\ e.vault \in Vaults
  BY DEF NoEnvelope, Succeeds, Envelopes, Vaults
<1>2. CASE o = NoEnvelope
  BY <1>1, <1>2 DEF Fits
<1>3. CASE o # NoEnvelope
  BY <1>1, <1>3 DEF Fits, Succeeds
<1> QED BY <1>2, <1>3

LEMMA FitsAccepted ==
    ASSUME NEW m, NEW e \in Envelopes, e # NoEnvelope, Fits(m, e),
           e.revision \in Nat, m.seen[e.vault] \in Nat
    PROVE  Acceptable(m, e)
BY DEF Fits, Acceptable, SameVault, NotRolledBack

LEMMA SteadyInvInit == Init => SteadyInv
<1> SUFFICES ASSUME Init PROVE SteadyInv
  OBVIOUS
<1>1. OwnInv
  BY OwnInvInit
<1>2. HeaderSucceeds /\ OneVault
  BY DEF Init, HeaderSucceeds, OneVault, At, IdleSession, NoEnvelope
<1>3. Fits(NoMetadata, NoEnvelope)
  BY DEF Fits, NoMetadata
<1>4. ASSUME NEW s \in Sessions
      PROVE  Fitting(s)
  <2>1. /\ sess[s].phase = "idle" /\ meta[DeviceOf[s]] = NoMetadata /\ remote = NoEnvelope
    BY SessionsAssumption DEF Init, IdleSession
  <2> QED BY <1>3, <2>1 DEF Fitting, MayUndo
<1> QED BY <1>1, <1>2, <1>4 DEF Init, SteadyInv

\* A push stores an envelope that succeeds the object; nothing else but a restore stores.
LEMMA StoringSteps ==
    ASSUME Numbers, NEW s \in Sessions, Moves(s), Fitting(s), Transport = "object"
    PROVE  \/ KeepsStored /\ ~ Restores(s)
           \/ /\ Store(sess[s].sealed) /\ Succeeds(sess[s].sealed, remote)
              /\ sess[s].phase = "push" /\ (Pushes(s) \/ Fails(s))
           \/ Restores(s)
<1>1. CASE Pushes(s)
  BY <1>1 DEF Pushes, Precondition, Fitting
<1>2. CASE Fails(s)
  <2>1. CASE KeepsStored
    BY <1>2, <2>1 DEF Fails, Restores
  <2>2. CASE ~ KeepsStored
    BY <1>2, <2>2 DEF Fails, Precondition, Fitting
  <2> QED BY <2>1, <2>2
<1>3. CASE Restores(s)
  BY <1>3
<1>4. CASE /\ ~ Pushes(s) /\ ~ Fails(s) /\ ~ Restores(s)
  BY <1>4 DEF Moves, Waits, Fetches, Imports, Refuses, Seals, Remembers, Compares,
              Acknowledges, Undoes, Clears
<1> QED BY <1>1, <1>2, <1>3, <1>4

LEMMA OneVaultMoves ==
    ASSUME Numbers, NEW s \in Sessions, Moves(s), Fitting(s), Transport = "object", OneVault
    PROVE  OneVault'
<1>1. CASE KeepsStored
  BY <1>1 DEF KeepsStored, OneVault
<1>2. CASE Store(sess[s].sealed) /\ Succeeds(sess[s].sealed, remote)
  BY <1>2 DEF Store, Succeeds, OneVault, NoEnvelope
<1>3. CASE Restores(s)
  BY <1>3 DEF Restores, OneVault
<1> QED BY <1>1, <1>2, <1>3, StoringSteps

\* The session of a step.
LEMMA FittingMoves ==
    ASSUME Numbers, Numbers', NEW s \in Sessions, Moves(s), Fitting(s), Owns(s),
           HeaderSucceeds, HeaderSucceeds', OneVault, Transport = "object"
    PROVE  Fitting(s)'
<1>1. /\ DeviceOf[s] \in Devices /\ meta[DeviceOf[s]] \in Metadata
      /\ sess[s].saved \in Metadata /\ sess[s].sealed \in Envelopes
      /\ sess[s].fetched \in Envelopes
      /\ remote \in Envelopes /\ IsObject
  BY DEF Numbers, IsObject
<1> USE DEF KeepsMeta, KeepsStored
<1>2. CASE Waits(s) \/ Fetches(s)
  BY <1>2 DEF Waits, Fetches, Fitting, MayUndo, OneVault
<1>3. CASE Imports(s)
  <2>1. /\ sess'[s].phase = "seal" /\ sess'[s].saved = meta[DeviceOf[s]]
        /\ sess[s].phase = "import" /\ sess'[s].fetched = sess[s].fetched
        /\ meta'[DeviceOf[s]] = meta[DeviceOf[s]] /\ remote' = remote
    BY <1>3 DEF Imports
  <2>2. sess[s].fetched # NoEnvelope => sess'[s].base.vault = sess[s].fetched.vault
    BY <1>3 DEF Imports, Acceptable, SameVault, SucceededHeader
  <2> QED BY <2>1, <2>2 DEF Fitting, MayUndo
<1>4. CASE Refuses(s)
  BY <1>4 DEF Refuses, Fitting, MayUndo
<1>5. CASE Seals(s)
  <2>1. /\ sess'[s].phase = "remember" /\ sess'[s].saved = sess[s].saved
        /\ sess[s].phase = "seal" /\ sess'[s].fetched = sess[s].fetched /\ remote' = remote
    BY <1>5 DEF Seals
  <2>2. sess[s].fetched # NoEnvelope => sess'[s].sealed.vault = sess[s].fetched.vault
    BY <1>5, <2>1 DEF Fitting, Seals
  <2>3. sess'[s].sealed.vault # 0
    BY <1>5 DEF Seals
  <2>4. sess'[s].sealed.revision > sess'[s].fetched.revision
    BY <2>1 DEF HeaderSucceeds
  <2> QED BY <2>1, <2>2, <2>3, <2>4 DEF Fitting, MayUndo, Succeeds
<1>6. CASE Remembers(s)
  BY <1>6 DEF Remembers, Fitting, MayUndo
<1>7. CASE Compares(s)
  BY <1>7 DEF Compares
<1>8. CASE Pushes(s)
  <2>1. /\ sess[s].phase = "push" /\ sess'[s].phase = "acknowledge"
        /\ remote' = sess[s].sealed /\ sess[s].sealed.vault # 0
        /\ meta'[DeviceOf[s]] = meta[DeviceOf[s]]
    BY <1>8 DEF Pushes, Store, Fitting, Owns, HasSealed
  <2>2. Fits(meta[DeviceOf[s]], sess[s].sealed)
    BY <1>1, <2>1 DEF Owns, HasSealed, Fits, NoEnvelope, Numbers
  <2> QED BY <2>1, <2>2 DEF Fitting, MayUndo
<1>9. CASE Fails(s)
  <2>1. sess'[s].phase \in {"retry", "abort"} /\ sess'[s].saved = sess[s].saved
    BY <1>1, <1>9 DEF Fails
  <2>2. Fits(sess[s].saved, remote)
    BY <1>9 DEF Fails, Fitting, MayUndo
  <2>3. Fits(sess[s].saved, remote')
    <3>1. CASE remote' = remote
      BY <2>2, <3>1
    <3>2. CASE Store(sess[s].sealed) /\ Succeeds(sess[s].sealed, remote)
      <4>1. remote' = sess[s].sealed
        BY <3>2 DEF Store
      <4> QED BY <1>1, <2>2, <3>2, <4>1, FitsAdvance DEF Numbers
    <3>3. ~ Restores(s)
      BY <1>9 DEF Fails, Restores
    <3>4. \/ remote' = remote
          \/ Store(sess[s].sealed) /\ Succeeds(sess[s].sealed, remote)
      BY <3>3, StoringSteps
    <3> QED BY <3>1, <3>2, <3>4
  <2> QED BY <2>1, <2>3 DEF Fitting, MayUndo
<1>10. CASE Acknowledges(s)
  BY <1>10 DEF Acknowledges, Fitting, MayUndo
<1>11. CASE Undoes(s)
  BY <1>11 DEF Undoes, Fitting, MayUndo
<1>12. CASE Restores(s)
  <2>1. remote' # NoEnvelope /\ remote # NoEnvelope /\ remote'.vault = remote.vault
    BY <1>12 DEF Restores, OneVault, NoEnvelope
  <2> QED BY <1>12, <2>1 DEF Restores, Fitting, Fits, MayUndo
<1>13. CASE Clears(s)
  <2>1. remote.vault \in Vaults
    BY <1>1, <1>13 DEF Clears, Fitting, OneVault, Vaults, Envelopes
  <2>2. Fits(meta[DeviceOf[s]], remote)'
    BY <1>1, <1>13, <2>1 DEF Clears, Fitting, Fits, Numbers
  <2> QED BY <1>13, <2>2 DEF Clears, Fitting, MayUndo
<1> QED BY <1>2, <1>3, <1>4, <1>5, <1>6, <1>7, <1>8, <1>9, <1>10, <1>11, <1>12, <1>13
        DEF Moves

\* The other sessions: what they remember and fetched does not change, and the object
\* moves on.
LEMMA FittingOthers ==
    ASSUME TypeInv, Numbers, Numbers', Steady, NEW s \in Sessions, Step(s), Moves(s), Others(s),
           Fitting(s), NEW t \in Sessions, t # s, Fitting(t)
    PROVE  Fitting(t)'
<1>1. DeviceOf[t] \in Devices \ {DeviceOf[s]}
  BY DEF Numbers, Steady, OneSessionEach
<1>2. sess'[t] = sess[t] /\ meta'[DeviceOf[t]] = meta[DeviceOf[t]]
  BY <1>1 DEF Others
<1>3. CASE remote' = remote
  BY <1>2, <1>3 DEF Fitting
<1>4. CASE Store(sess[s].sealed) /\ Succeeds(sess[s].sealed, remote)
  <2>1. remote' = sess[s].sealed /\ sess[s].sealed # NoEnvelope
    BY <1>4 DEF Store, Succeeds, NoEnvelope
  <2>2. ASSUME NEW m \in Metadata, \A v \in Vaults : m.seen[v] \in Nat, Fits(m, remote)
        PROVE  Fits(m, remote')
    BY <1>4, <2>1, <2>2, FitsAdvance DEF Numbers
  <2>3. /\ meta[DeviceOf[t]] \in Metadata /\ sess[t].saved \in Metadata
        /\ \A v \in Vaults : meta[DeviceOf[t]].seen[v] \in Nat
        /\ \A v \in Vaults : sess[t].saved.seen[v] \in Nat
    BY <1>1 DEF Numbers
  <2>4. ASSUME sess[t].phase = "clear" PROVE meta[DeviceOf[t]].vault \in {0, remote'.vault}
    BY <1>4, <2>1, <2>4 DEF Fitting, Succeeds
  <2> QED BY <1>2, <2>1, <2>2, <2>3, <2>4 DEF Fitting
<1>5. ~ Restores(s)
  BY NeverSpent DEF Steady, OneSession, Restores, Interruptions
<1> QED BY <1>3, <1>4, <1>5, StoringSteps DEF Steady, KeepsStored

LEMMA SteadyInvNext ==
    ASSUME Steady
    PROVE  SteadyInv /\ [Next]_vars => SteadyInv'
<1> SUFFICES ASSUME SteadyInv, [Next]_vars PROVE SteadyInv'
  OBVIOUS
<1> DEFINE Apart(d) == (\A s \in Sessions : DeviceOf[s] # d) => meta[d] = NoMetadata
<1>1. /\ OwnInv /\ OwnInv' /\ TypeInv /\ TypeInv' /\ HeaderSucceeds /\ OneVault
      /\ \A s \in Sessions : Owns(s) /\ Fitting(s)
      /\ \A d \in Devices : Apart(d)
  BY OwnInvNext DEF SteadyInv, OwnInv, Steady
<1>2. Numbers /\ Numbers'
  BY <1>1, TypedNumbers, PTL
<1>3. HeaderSucceeds'
  BY <1>1, HeaderSucceedsNext
<1>4. ASSUME NEW s \in Sessions, Step(s)
      PROVE  OneVault' /\ (\A t \in Sessions : Fitting(t)') /\ \A d \in Devices : Apart(d)'
  <2>1. Moves(s) /\ Others(s)
    BY <1>1, <1>4, SessionMoves, OthersStay
  <2>2. OneVault'
    BY <1>1, <1>2, <2>1, OneVaultMoves DEF Steady
  <2>3. Fitting(s)'
    BY <1>1, <1>2, <1>3, <2>1, FittingMoves DEF Steady
  <2>4. ASSUME NEW t \in Sessions, t # s
        PROVE  Fitting(t)'
    BY <1>1, <1>2, <1>4, <2>1, <2>4, FittingOthers
  <2>5. \A d \in Devices : Apart(d)'
    BY <1>1, <2>1 DEF Others
  <2> QED BY <2>2, <2>3, <2>4, <2>5
<1>5. ASSUME NEW d \in Devices, Crash(d) \/ ForgetSyncKey(d)
      PROVE  FALSE
  BY <1>1, <1>5, NeverSpent DEF Crash, ForgetSyncKey, Interruptions, NeverForgets, Steady
<1>6. ASSUME UNCHANGED <<remote, history, meta, acked, sess>>
      PROVE  OneVault' /\ (\A t \in Sessions : Fitting(t)') /\ \A d \in Devices : Apart(d)'
  BY <1>1, <1>6 DEF OneVault, Fitting
<1>7. OneVault' /\ (\A t \in Sessions : Fitting(t)') /\ \A d \in Devices : Apart(d)'
  BY <1>4, <1>5, <1>6, NextSteps
<1> QED BY <1>1, <1>3, <1>7 DEF SteadyInv

\* Over a provider with conditional writes, whatever the network does and however often a
\* push has to be repeated: an object fetched again is never refused, as the conflict
\* handling of the transport promises.
THEOREM RetriesAccepted ==
    ASSUME Steady
    PROVE  Spec => []RetryAccepted
<1>1. SteadyInv => RetryAccepted
  <2> SUFFICES ASSUME SteadyInv, NEW s \in Sessions, At(s, "import"),
                      sess[s].fetched # NoEnvelope
               PROVE  Acceptable(meta[DeviceOf[s]], sess[s].fetched)
    BY DEF RetryAccepted, Acceptable
  <2>1. Numbers /\ Fitting(s)
    BY TypedNumbers DEF SteadyInv, OwnInv
  <2>2. /\ meta[DeviceOf[s]].vault \in {0, sess[s].fetched.vault}
        /\ meta[DeviceOf[s]].seen[sess[s].fetched.vault] <= sess[s].fetched.revision
    BY <2>1 DEF Fitting, Fits, At
  <2> QED BY <2>1, <2>2 DEF Acceptable, SameVault, NotRolledBack
<1> QED BY <1>1, SteadyInvInit, SteadyInvNext, PTL DEF Spec

\* Under the same assumptions a device whose syncs have ended, in success or in error, can
\* import what the provider stores: the failed ones left nothing behind that refuses it.
THEOREM NextSyncsAccepted ==
    ASSUME Steady
    PROVE  Spec => []NextSyncAccepted
<1>1. SteadyInv => NextSyncAccepted
  <2> SUFFICES ASSUME SteadyInv, NEW d \in Devices, IdleDevice(d), remote # NoEnvelope
               PROVE  Acceptable(meta[d], remote)
    BY DEF NextSyncAccepted, Acceptable
  <2>1. Numbers /\ OneVault
    BY TypedNumbers DEF SteadyInv, OwnInv
  <2>2. Fits(meta[d], remote)
    <3>1. CASE \E s \in Sessions : DeviceOf[s] = d
      BY <3>1 DEF SteadyInv, Fitting, IdleDevice, At
    <3>2. CASE \A s \in Sessions : DeviceOf[s] # d
      <4>1. remote.vault \in Vaults /\ remote.revision >= 0
        BY <2>1 DEF OneVault, Numbers, Envelopes, Vaults
      <4>2. meta[d] = NoMetadata
        BY <3>2 DEF SteadyInv
      <4> QED BY <4>1, <4>2 DEF Fits, NoMetadata
    <3> QED BY <3>1, <3>2
  <2> QED BY <2>2 DEF Fits, Acceptable, SameVault, NotRolledBack
<1> QED BY <1>1, SteadyInvInit, SteadyInvNext, PTL DEF Spec

-----------------------------------------------------------------------------
(* A restored version is stored again as the newest revision *)

\* One session, so that the user restores and syncs in turn. Where a failed push restores
\* the metadata, no answer may be lost: the revision of a push that was applied but not
\* answered is minted again.
RestoringAlone ==
    /\ OneSession /\ NeverForgets
    /\ IsObject => Budget["outage"] = 0

\* The device, and what it may restore, knows a revision as large as every stored one, and
\* what it is about to push is larger still.
Newest(s) ==
    LET m == meta[DeviceOf[s]]
        p == sess[s]
    IN  /\ \A e \in history : e.revision <= m.revision
        /\ p.phase \in {"remember", "push", "put"}
              => \A e \in history : e.revision < p.sealed.revision
        /\ p.phase \in {"retry", "abort"} => IsObject
        /\ p.phase \in MayUndo /\ IsObject
              => \A e \in history : e.revision <= p.saved.revision
        /\ p.phase = "acknowledge"
              => \A e \in history : e # p.sealed => e.revision < p.sealed.revision

NewestInv == OwnInv /\ \A s \in Sessions : Newest(s)

LEMMA NewestMoves ==
    ASSUME Numbers, Numbers', TypeInv, RestoringAlone, NEW s \in Sessions, Moves(s), Owns(s),
           Newest(s)
    PROVE  Newest(s)'
<1>1. DeviceOf[s] \in Devices
  BY DEF Numbers
<1>2. IsObject => ~ Spend("outage")
  BY NeverSpent DEF RestoringAlone, Interruptions
<1> USE DEF KeepsMeta, KeepsStored
<1>3. CASE Waits(s) \/ Fetches(s)
  BY <1>3 DEF Waits, Fetches, Newest, MayUndo
<1>4. CASE Imports(s) \/ Refuses(s)
  BY <1>4 DEF Imports, Refuses, Newest, MayUndo
<1>5. CASE Seals(s)
  <2>1. \A e \in history : e.revision < sess'[s].sealed.revision
    BY <1>1, <1>5 DEF Seals, Owns, At, Newest, Numbers
  <2>2. \A e \in history : e.revision <= meta'[DeviceOf[s]].revision
    BY <1>5, <2>1 DEF Seals, Numbers
  <2> QED BY <1>5, <2>1, <2>2 DEF Seals, Newest, MayUndo
<1>6. CASE Remembers(s) \/ Compares(s)
  BY <1>6 DEF Remembers, Compares, Newest, MayUndo
<1>7. CASE Pushes(s)
  <2>1. /\ history' = history \cup {sess[s].sealed} /\ sess'[s].sealed = sess[s].sealed
        /\ sess'[s].phase = "acknowledge" /\ meta'[DeviceOf[s]].revision = sess[s].sealed.revision
        /\ \A e \in history : e.revision < sess[s].sealed.revision
    BY <1>7 DEF Pushes, Store, Newest, Owns, HasSealed
  <2> QED BY <2>1 DEF Newest, MayUndo, Numbers
<1>8. CASE Fails(s)
  <2>1. CASE IsObject
    BY <1>2, <1>8, <2>1 DEF Fails, Newest, MayUndo
  <2>2. CASE ~ IsObject
    <3>1. sess'[s].phase \in {"idle", "fetch"} /\ meta'[DeviceOf[s]] = meta[DeviceOf[s]]
      BY <1>8, <2>2 DEF Fails
    <3>2. \A e \in history' : e.revision <= meta[DeviceOf[s]].revision
      <4>1. CASE sess[s].phase = "seal" /\ history' = history
        BY <4>1 DEF Newest
      <4>2. CASE /\ sess[s].phase \in {"push", "put"}
                 /\ history' = history \/ history' = history \cup {sess[s].sealed}
        BY <1>1, <4>2 DEF Newest, Owns, HasSealed, Numbers
      <4> QED BY <1>8, <4>1, <4>2 DEF Fails, Store
    <3> QED BY <2>2, <3>1, <3>2 DEF Newest, MayUndo
  <2> QED BY <2>1, <2>2
<1>9. CASE Acknowledges(s)
  BY <1>9 DEF Acknowledges, Newest, MayUndo
<1>10. CASE Undoes(s)
  BY <1>10 DEF Undoes, Newest, MayUndo
<1>11. CASE Restores(s)
  BY <1>11 DEF Restores, Newest, MayUndo
<1>12. CASE Clears(s)
  BY <1>12 DEF Clears, Newest, MayUndo
<1> QED BY <1>3, <1>4, <1>5, <1>6, <1>7, <1>8, <1>9, <1>10, <1>11, <1>12 DEF Moves

LEMMA NewestInvNext ==
    ASSUME RestoringAlone
    PROVE  NewestInv /\ [Next]_vars => NewestInv'
<1> SUFFICES ASSUME NewestInv, [Next]_vars PROVE NewestInv'
  OBVIOUS
<1>1. OneSessionEach /\ OneSession /\ NeverForgets
  BY DEF RestoringAlone, OneSession, OneSessionEach
<1>2. OwnInv /\ OwnInv' /\ TypeInv /\ TypeInv' /\ \A s \in Sessions : Owns(s) /\ Newest(s)
  BY <1>1, OwnInvNext DEF NewestInv, OwnInv
<1>3. Numbers /\ Numbers'
  BY <1>2, TypedNumbers, PTL
<1>4. ASSUME NEW s \in Sessions, Step(s), NEW t \in Sessions
      PROVE  Newest(t)'
  <2>1. t = s
    BY <1>1 DEF OneSession
  <2> QED BY <1>2, <1>3, <1>4, <2>1, SessionMoves, NewestMoves
<1>5. ASSUME NEW d \in Devices, Crash(d), NEW t \in Sessions
      PROVE  Newest(t)'
  <2>1. meta' = meta /\ history' = history /\ (sess'[t] = sess[t] \/ sess'[t] = IdleSession)
    BY <1>5 DEF Crash
  <2>2. CASE sess'[t] = sess[t]
    BY <1>2, <2>1, <2>2 DEF Newest
  <2>3. CASE sess'[t] = IdleSession
    BY <1>2, <2>1, <2>3 DEF Newest, IdleSession, MayUndo
  <2> QED BY <2>1, <2>2, <2>3
<1>6. ASSUME NEW d \in Devices, ForgetSyncKey(d)
      PROVE  FALSE
  BY <1>1, <1>2, <1>6, NeverSpent DEF ForgetSyncKey, Interruptions, NeverForgets
<1>7. ASSUME UNCHANGED <<remote, history, meta, acked, sess>>, NEW t \in Sessions
      PROVE  Newest(t)'
  BY <1>2, <1>7 DEF Newest
<1>8. \A t \in Sessions : Newest(t)'
  BY <1>4, <1>5, <1>6, <1>7, NextSteps
<1> QED BY <1>2, <1>8 DEF NewestInv

\* A device that restores a version pushes the restored rows as a revision newer than every
\* one the provider has stored, under every strategy and through crashes.
THEOREM RestoresAreNew ==
    ASSUME RestoringAlone
    PROVE  Spec => []RestoredAsNewRevision
<1>1. Init => NewestInv
  BY OwnInvInit DEF Init, NewestInv, Newest, IdleSession, MayUndo
<1>2. NewestInv => RestoredAsNewRevision
  BY DEF NewestInv, Newest, RestoredAsNewRevision, At
<1> QED BY <1>1, <1>2, NewestInvNext, PTL DEF Spec
================================================================================
