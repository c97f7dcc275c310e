-------------------------- MODULE SyncRecords_proofs --------------------------
(***************************************************************************)
(* Proofs about SyncRecords for any devices, clocks within the skew, rows  *)
(* and bounds.                                                             *)
(***************************************************************************)
EXTENDS SyncRecords, TLAPS

\* Rows as e edits have made them until time n: a stamp is the time of its edit on a clock
\* that is ahead by no more than the skew.
GoodHosts(e, n) ==
    {row \in HostRows :
        /\ row.stamp.version <= e
        /\ row.at <= n
        /\ row.at <= row.stamp.time
        /\ row.stamp.time <= row.at + Skew}

GoodTags(e) == {row \in TagRows : row.stamp.version <= e}

GoodSessions(e, n) ==
    [phase : {"idle", "export", "push"}, fresh : BOOLEAN, at : 0 .. MaxTime,
     hosts : [Hosts -> GoodHosts(e, n)]]

RecordsInv ==
    /\ now \in 0 .. MaxTime
    /\ edits \in 0 .. MaxEdits
    /\ host \in [Devices -> [Hosts -> GoodHosts(edits, now)]]
    /\ tag \in [Devices -> [Tags -> GoodTags(edits)]]
    /\ saving \in [Devices -> Saves]
    /\ vault \in [hosts : [Hosts -> GoodHosts(edits, now)], tags : [Tags -> GoodTags(edits)]]
    /\ sess \in [Devices -> GoodSessions(edits, now)]
    /\ flawed \subseteq 0 .. MaxEdits

-------------------------------------------------------------------------------
(* Rows *)

LEMMA NoRowsGood ==
    ASSUME NEW e \in Nat, NEW n \in Nat
    PROVE  NoHost \in GoodHosts(e, n) /\ NoTag \in GoodTags(e) /\ Idle \in GoodSessions(e, n)
<1>1. NoHost \in GoodHosts(e, n)
  BY ClocksAssumption, BoundsAssumption
  DEF NoHost, GoodHosts, HostRows, Never, Stamps
<1>2. NoTag \in GoodTags(e)
  BY DEF NoTag, GoodTags, TagRows, Never, Stamps
<1> QED
  BY <1>1, <1>2, BoundsAssumption DEF Idle, GoodSessions

\* Good rows stay good as time and edits go on.
LEMMA GoodStays ==
    ASSUME NEW e \in Nat, NEW f \in Nat, NEW n \in Nat, NEW m \in Nat, e <= f, n <= m
    PROVE  /\ GoodHosts(e, n) \subseteq GoodHosts(f, m)
           /\ GoodTags(e) \subseteq GoodTags(f)
           /\ GoodSessions(e, n) \subseteq GoodSessions(f, m)
<1>1. GoodHosts(e, n) \subseteq GoodHosts(f, m)
  <2> SUFFICES ASSUME NEW row \in GoodHosts(e, n) PROVE row \in GoodHosts(f, m)
    OBVIOUS
  <2>1. row.stamp.version \in Nat /\ row.at \in Nat
    BY BoundsAssumption DEF GoodHosts, HostRows, Stamps, Never
  <2> QED
    BY <2>1 DEF GoodHosts
<1>2. GoodTags(e) \subseteq GoodTags(f)
  <2> SUFFICES ASSUME NEW row \in GoodTags(e) PROVE row \in GoodTags(f)
    OBVIOUS
  <2>1. row.stamp.version \in Nat
    BY BoundsAssumption DEF GoodTags, TagRows, Stamps, Never
  <2> QED
    BY <2>1 DEF GoodTags
<1>3. GoodSessions(e, n) \subseteq GoodSessions(f, m)
  BY <1>1 DEF GoodSessions
<1> QED
  BY <1>1, <1>2, <1>3

\* The stamp of an edit on device d of a row that has been edited before, or not.
LEMMA LocalStampGood ==
    ASSUME RecordsInv, NEW d \in Devices, NEW old \in Stamps, old.version <= edits,
           edits < MaxEdits
    PROVE  /\ LocalStamp(d, old) \in Stamps
           /\ LocalStamp(d, old).version <= edits + 1
           /\ now <= LocalStamp(d, old).time
           /\ LocalStamp(d, old).time <= now + Skew
<1>1. old.version \in Nat /\ Offset[d] \in 0 .. Skew /\ now \in 0 .. MaxTime /\ edits \in Nat
  BY ClocksAssumption, BoundsAssumption DEF Stamps, Never, RecordsInv
<1>2. now + Offset[d] \in 0 .. MaxTime + Skew /\ old.version + 1 \in 1 .. MaxEdits
  BY <1>1, ClocksAssumption, BoundsAssumption
<1> QED
  BY <1>1, <1>2, ClocksAssumption DEF LocalStamp, Stamps

LEMMA StampNumbers ==
    ASSUME NEW a \in Stamps
    PROVE  a.time \in Nat /\ a.version \in Nat /\ a.device \in Nat
<1>1. CASE a = Never
  BY <1>1 DEF Never
<1>2. CASE a # Never
  <2>1. a.time \in 0 .. MaxTime + Skew /\ a.version \in 1 .. MaxEdits /\ a.device \in Devices
    BY <1>2 DEF Stamps
  <2>2. a.device \in Nat
    BY <2>1, NumbersAssumption, Zenon
  <2>3. a.time \in Nat /\ a.version \in Nat
    BY <2>1, BoundsAssumption, ClocksAssumption
  <2> QED
    BY <2>2, <2>3
<1> QED
  BY <1>1, <1>2

\* A row that an import takes has a stamp, of a time no earlier than that of the row it replaces.
LEMMA NewerStamp ==
    ASSUME NEW a \in Stamps, NEW b \in Stamps, NewerThan(a, b)
    PROVE  a # Never /\ a.time >= b.time
<1>1. /\ a.time \in Nat /\ a.version \in Nat /\ a.device \in Nat
      /\ b.time \in Nat /\ b.version \in Nat /\ b.device \in Nat
  BY StampNumbers
<1> QED
  BY <1>1 DEF NewerThan, Never

\* The trigger leaves a device in the stamp, and nothing else changes.
LEMMA WrittenStamp ==
    ASSUME NEW d \in Devices, NEW old \in Stamps, NEW new \in Stamps, new # Never
    PROVE  WrittenBy(d, old, new) \in Devices
  BY DEF WrittenBy, Stamps

LEMMA MergedHostGood ==
    ASSUME RecordsInv, NEW d \in Devices, NEW h \in Hosts
    PROVE  /\ MergedHosts(d)[h] \in GoodHosts(edits, now)
           /\ MergedHosts(d)[h].at + Skew >= host[d][h].at
<1> DEFINE new == vault.hosts[h]
           old == host[d][h]
<1>1. new \in GoodHosts(edits, now) /\ old \in GoodHosts(edits, now)
  BY DEF RecordsInv
<1>2. /\ new.stamp \in Stamps /\ old.stamp \in Stamps /\ new.at \in Nat /\ old.at \in Nat
      /\ new.stamp.time \in Nat /\ old.stamp.time \in Nat /\ Skew \in Nat
  BY <1>1, BoundsAssumption, ClocksAssumption DEF GoodHosts, HostRows, Stamps, Never
<1>3. CASE TakesHost(d, h)
  <2>1. new.stamp # Never /\ new.stamp.time >= old.stamp.time
    BY <1>2, <1>3, NewerStamp DEF TakesHost
  <2> DEFINE by == WrittenBy(d, old.stamp, new.stamp)
  <2>2. by \in Devices
    BY <1>2, <2>1, WrittenStamp
  <2>3. MergedHosts(d)[h] =
          [new EXCEPT !.tags = @ \cap KnownTags(d), !.stamp.device = by]
    BY <1>3 DEF MergedHosts
  <2>4. [new.stamp EXCEPT !.device = by] \in Stamps
    BY <1>2, <2>1, <2>2 DEF Stamps
  <2>5. MergedHosts(d)[h] \in HostRows
    BY <1>1, <2>3, <2>4 DEF GoodHosts, HostRows
  <2>6. /\ MergedHosts(d)[h].at = new.at
        /\ MergedHosts(d)[h].stamp.time = new.stamp.time
        /\ MergedHosts(d)[h].stamp.version = new.stamp.version
    BY <1>1, <1>2, <2>1, <2>3 DEF GoodHosts, HostRows, Stamps
  <2>7. new.at + Skew >= old.at
    BY <1>1, <1>2, <2>1 DEF GoodHosts
  <2> QED
    BY <1>1, <2>5, <2>6, <2>7 DEF GoodHosts
<1>4. CASE ~ TakesHost(d, h)
  <2>1. MergedHosts(d)[h] = old
    BY <1>4 DEF MergedHosts
  <2> QED
    BY <1>1, <1>2, <2>1
<1> QED
  BY <1>3, <1>4

LEMMA MergedTagGood ==
    ASSUME RecordsInv, NEW d \in Devices, NEW t \in Tags
    PROVE  MergedTags(d)[t] \in GoodTags(edits)
<1> DEFINE new == vault.tags[t]
           old == tag[d][t]
<1>1. new \in GoodTags(edits) /\ old \in GoodTags(edits)
  BY DEF RecordsInv
<1>2. new.stamp \in Stamps /\ old.stamp \in Stamps
  BY <1>1 DEF GoodTags, TagRows
<1>3. CASE TakesTag(d, t)
  <2>1. new.stamp # Never
    BY <1>2, <1>3, NewerStamp DEF TakesTag
  <2> DEFINE by == WrittenBy(d, old.stamp, new.stamp)
  <2>2. by \in Devices
    BY <1>2, <2>1, WrittenStamp
  <2>3. MergedTags(d)[t] = [new EXCEPT !.stamp.device = by]
    BY <1>3 DEF MergedTags
  <2>4. [new.stamp EXCEPT !.device = by] \in Stamps
    BY <1>2, <2>1, <2>2 DEF Stamps
  <2>5. MergedTags(d)[t] \in TagRows /\ MergedTags(d)[t].stamp.version = new.stamp.version
    BY <1>1, <1>2, <2>1, <2>3, <2>4 DEF GoodTags, TagRows, Stamps
  <2> QED
    BY <1>1, <2>5 DEF GoodTags
<1>4. CASE ~ TakesTag(d, t)
  BY <1>1, <1>4 DEF MergedTags
<1> QED
  BY <1>3, <1>4

LEMMA RecordsInit == Init => RecordsInv
<1> SUFFICES ASSUME Init PROVE RecordsInv
  OBVIOUS
<1>1. edits = 0 /\ now = 0 /\ 0 \in Nat
  BY DEF Init
<1>2. /\ NoHost \in GoodHosts(0, 0) /\ NoTag \in GoodTags(0) /\ Idle \in GoodSessions(0, 0)
  BY NoRowsGood
<1> QED
  BY <1>1, <1>2, BoundsAssumption DEF Init, RecordsInv, Saves

-------------------------------------------------------------------------------
(* Steps *)

\* A user's edit makes one row, or some, with the next number and leaves the others.
LEMMA EditedHostGood ==
    ASSUME RecordsInv, NEW d \in Devices, NEW h \in Hosts, Edits(d),
           NEW chosen \in SUBSET Tags, NEW tags \in SUBSET Tags
    PROVE  [edit |-> edits + 1, at |-> now, chosen |-> chosen, tags |-> tags,
            stamp |-> LocalStamp(d, host[d][h].stamp)] \in GoodHosts(edits + 1, now)
<1>1. host[d][h] \in GoodHosts(edits, now) /\ now \in 0 .. MaxTime /\ edits \in 0 .. MaxEdits
  BY DEF RecordsInv
<1>2. host[d][h].stamp \in Stamps /\ host[d][h].stamp.version <= edits /\ edits < MaxEdits
  BY <1>1 DEF GoodHosts, HostRows, Edits
<1>3. /\ LocalStamp(d, host[d][h].stamp) \in Stamps
      /\ LocalStamp(d, host[d][h].stamp).version <= edits + 1
      /\ now <= LocalStamp(d, host[d][h].stamp).time
      /\ LocalStamp(d, host[d][h].stamp).time <= now + Skew
  BY <1>2, LocalStampGood
<1>4. edits + 1 \in 0 .. MaxEdits /\ now <= now
  BY <1>1, <1>2, BoundsAssumption
<1> QED
  BY <1>1, <1>3, <1>4 DEF GoodHosts, HostRows

LEMMA EditedTagGood ==
    ASSUME RecordsInv, NEW d \in Devices, NEW t \in Tags, Edits(d),
           NEW name \in Names \cup {None}, NEW active \in BOOLEAN
    PROVE  [name |-> name, active |-> active, stamp |-> LocalStamp(d, tag[d][t].stamp)]
              \in GoodTags(edits + 1)
<1>1. tag[d][t] \in GoodTags(edits)
  BY DEF RecordsInv
<1>2. tag[d][t].stamp \in Stamps /\ tag[d][t].stamp.version <= edits /\ edits < MaxEdits
  BY <1>1 DEF GoodTags, TagRows, Edits
<1>3. /\ LocalStamp(d, tag[d][t].stamp) \in Stamps
      /\ LocalStamp(d, tag[d][t].stamp).version <= edits + 1
  BY <1>2, LocalStampGood
<1> QED
  BY <1>3 DEF GoodTags, TagRows

\* Rows that are good now are good after the step: edits and time only go on.
LEMMA RowsStay ==
    ASSUME RecordsInv, NEW e \in 0 .. MaxEdits, NEW n \in 0 .. MaxTime, edits <= e, now <= n
    PROVE  /\ host \in [Devices -> [Hosts -> GoodHosts(e, n)]]
           /\ tag \in [Devices -> [Tags -> GoodTags(e)]]
           /\ vault \in [hosts : [Hosts -> GoodHosts(e, n)], tags : [Tags -> GoodTags(e)]]
           /\ sess \in [Devices -> GoodSessions(e, n)]
<1>1. edits \in Nat /\ now \in Nat /\ e \in Nat /\ n \in Nat
  BY BoundsAssumption DEF RecordsInv
<1>2. /\ GoodHosts(edits, now) \subseteq GoodHosts(e, n)
      /\ GoodTags(edits) \subseteq GoodTags(e)
      /\ GoodSessions(edits, now) \subseteq GoodSessions(e, n)
  BY <1>1, GoodStays
<1>3. host \in [Devices -> [Hosts -> GoodHosts(e, n)]]
  BY <1>2 DEF RecordsInv
<1>4. tag \in [Devices -> [Tags -> GoodTags(e)]]
  BY <1>2 DEF RecordsInv
<1>5. vault \in [hosts : [Hosts -> GoodHosts(e, n)], tags : [Tags -> GoodTags(e)]]
  BY <1>2 DEF RecordsInv
<1>6. sess \in [Devices -> GoodSessions(e, n)]
  BY <1>2 DEF RecordsInv
<1> QED
  BY <1>3, <1>4, <1>5, <1>6

\* No row of a host is replaced by one of an edit that is earlier by more than the skew.
InOrder == \A d \in Devices, h \in Hosts : host'[d][h].at + Skew >= host[d][h].at

LEMMA SameInOrder == RecordsInv /\ UNCHANGED host => InOrder
<1> SUFFICES ASSUME RecordsInv, UNCHANGED host, NEW d \in Devices, NEW h \in Hosts
             PROVE  host'[d][h].at + Skew >= host[d][h].at
  BY DEF InOrder
<1>1. host[d][h] \in HostRows
  BY DEF RecordsInv, GoodHosts
<1>2. host[d][h].at \in Nat /\ Skew \in Nat
  BY <1>1, BoundsAssumption, ClocksAssumption DEF HostRows
<1> QED
  BY <1>2

LEMMA SaveHostStep ==
    ASSUME RecordsInv, NEW d \in Devices, NEW h \in Hosts, SaveHost(d, h)
    PROVE  RecordsInv' /\ InOrder
<1>1. Edits(d) /\ edits' = edits + 1 /\ now' = now
  BY DEF SaveHost, Edits
<1>2. PICK chosen \in SUBSET Active(tag[d]) :
         /\ host' = [host EXCEPT ![d][h] =
               [edit |-> edits + 1, at |-> now, chosen |-> chosen,
                tags |-> host[d][h].tags, stamp |-> LocalStamp(d, host[d][h].stamp)]]
         /\ saving' = [saving EXCEPT ![d] =
               [host |-> h, edit |-> edits + 1, tags |-> chosen]]
  BY DEF SaveHost
<1>3. chosen \in SUBSET Tags /\ host[d][h].tags \in SUBSET Tags
  BY DEF Active, RecordsInv, GoodHosts, HostRows
<1> DEFINE row == [edit |-> edits + 1, at |-> now, chosen |-> chosen,
                   tags |-> host[d][h].tags, stamp |-> LocalStamp(d, host[d][h].stamp)]
<1>4. row \in GoodHosts(edits + 1, now)
  BY <1>1, <1>3, EditedHostGood
<1>5. /\ edits \in Nat /\ now \in 0 .. MaxTime /\ edits + 1 \in 1 .. MaxEdits
      /\ edits + 1 \in 0 .. MaxEdits /\ edits <= edits + 1 /\ now <= now
  BY <1>1, BoundsAssumption DEF RecordsInv, Edits
<1>6. /\ host \in [Devices -> [Hosts -> GoodHosts(edits + 1, now)]]
      /\ tag \in [Devices -> [Tags -> GoodTags(edits + 1)]]
      /\ vault \in [hosts : [Hosts -> GoodHosts(edits + 1, now)],
                    tags : [Tags -> GoodTags(edits + 1)]]
      /\ sess \in [Devices -> GoodSessions(edits + 1, now)]
  BY <1>5, RowsStay
<1>7. host' = [host EXCEPT ![d] = [host[d] EXCEPT ![h] = row]]
  BY <1>2
<1> HIDE DEF row
<1>8. host' \in [Devices -> [Hosts -> GoodHosts(edits + 1, now)]]
  BY <1>4, <1>6, <1>7
<1>9. saving' \in [Devices -> Saves]
  BY <1>2, <1>3, <1>5 DEF RecordsInv, Saves
<1>10. RecordsInv'
  BY <1>1, <1>5, <1>6, <1>8, <1>9 DEF RecordsInv, SaveHost
<1>11. InOrder
  <2> SUFFICES ASSUME NEW e \in Devices, NEW g \in Hosts
               PROVE  host'[e][g].at + Skew >= host[e][g].at
    BY DEF InOrder
  <2>1. host[e][g] \in GoodHosts(edits, now) /\ now \in Nat /\ Skew \in Nat
    BY BoundsAssumption, ClocksAssumption DEF RecordsInv
  <2>2. host[e][g].at \in Nat /\ host[e][g].at <= now
    BY <2>1, BoundsAssumption DEF GoodHosts, HostRows
  <2>3. host[d] \in [Hosts -> GoodHosts(edits, now)]
    BY DEF RecordsInv
  <2>4. host'[e][g] \in {row, host[e][g]}
    BY <1>7, <2>3 DEF RecordsInv
  <2>5. row.at = now
    BY DEF row
  <2> QED
    BY <2>1, <2>2, <2>4, <2>5
<1> QED
  BY <1>10, <1>11

LEMMA SaveTagsStep ==
    ASSUME RecordsInv, NEW d \in Devices, SaveTags(d)
    PROVE  RecordsInv' /\ InOrder
<1> DEFINE h == saving[d].host
           row == [host[d][h] EXCEPT !.tags = saving[d].tags \cap Active(tag[d])]
<1>1. saving[d] \in Saves /\ saving[d] # NoSave
  BY DEF SaveTags, RecordsInv
<1>2. h \in Hosts /\ saving[d].tags \in SUBSET Tags
  BY <1>1 DEF Saves
<1>3. host[d][h] \in GoodHosts(edits, now)
  BY <1>2 DEF RecordsInv
<1>4. row \in GoodHosts(edits, now) /\ row.at = host[d][h].at
  BY <1>2, <1>3 DEF GoodHosts, HostRows
<1>5. host' = [host EXCEPT ![d] = [host[d] EXCEPT ![h] = row]]
  BY DEF SaveTags
<1>6. host[d][h].edit \in 0 .. MaxEdits
  BY <1>3 DEF GoodHosts, HostRows
<1> HIDE DEF h, row
<1>7. host' \in [Devices -> [Hosts -> GoodHosts(edits, now)]]
  BY <1>2, <1>4, <1>5 DEF RecordsInv
<1>8. saving' \in [Devices -> Saves]
  BY DEF SaveTags, RecordsInv, Saves
<1>9. flawed' \subseteq 0 .. MaxEdits
  BY <1>6 DEF SaveTags, RecordsInv, h
<1>10. RecordsInv'
  BY <1>7, <1>8, <1>9 DEF SaveTags, RecordsInv
<1>11. InOrder
  <2> SUFFICES ASSUME NEW e \in Devices, NEW g \in Hosts
               PROVE  host'[e][g].at + Skew >= host[e][g].at
    BY DEF InOrder
  <2>1. host'[e][g].at = host[e][g].at
    BY <1>2, <1>4, <1>5 DEF RecordsInv
  <2>2. host[e][g].at \in Nat /\ Skew \in Nat
    BY BoundsAssumption, ClocksAssumption DEF RecordsInv, GoodHosts, HostRows
  <2> QED
    BY <2>1, <2>2
<1> QED
  BY <1>10, <1>11

LEMMA SaveTagStep ==
    ASSUME RecordsInv, NEW d \in Devices, NEW t \in Tags, SaveTag(d, t)
    PROVE  RecordsInv' /\ InOrder
<1>1. Edits(d) /\ edits' = edits + 1
  BY DEF SaveTag, Edits
<1>2. PICK name \in Names :
         tag' = [tag EXCEPT ![d][t] =
            [name |-> name, active |-> TRUE, stamp |-> LocalStamp(d, tag[d][t].stamp)]]
  BY DEF SaveTag
<1> DEFINE row == [name |-> name, active |-> TRUE, stamp |-> LocalStamp(d, tag[d][t].stamp)]
<1>3. row \in GoodTags(edits + 1)
  BY <1>1, EditedTagGood
<1>4. /\ edits \in Nat /\ now \in 0 .. MaxTime
      /\ edits + 1 \in 0 .. MaxEdits /\ edits <= edits + 1 /\ now <= now
  BY <1>1, BoundsAssumption DEF RecordsInv, Edits
<1>5. /\ host \in [Devices -> [Hosts -> GoodHosts(edits + 1, now)]]
      /\ tag \in [Devices -> [Tags -> GoodTags(edits + 1)]]
      /\ vault \in [hosts : [Hosts -> GoodHosts(edits + 1, now)],
                    tags : [Tags -> GoodTags(edits + 1)]]
      /\ sess \in [Devices -> GoodSessions(edits + 1, now)]
  BY <1>4, RowsStay
<1>6. tag' = [tag EXCEPT ![d] = [tag[d] EXCEPT ![t] = row]]
  BY <1>2
<1> HIDE DEF row
<1>7. tag' \in [Devices -> [Tags -> GoodTags(edits + 1)]]
  BY <1>3, <1>5, <1>6
<1>8. RecordsInv'
  BY <1>1, <1>4, <1>5, <1>7 DEF RecordsInv, SaveTag
<1> QED
  BY <1>8, SameInOrder DEF SaveTag

LEMMA DeleteTagStep ==
    ASSUME RecordsInv, NEW d \in Devices, NEW t \in Tags, DeleteTag(d, t)
    PROVE  RecordsInv' /\ InOrder
<1>1. Edits(d) /\ edits' = edits + 1
  BY DEF DeleteTag, Edits
<1>2. /\ edits \in Nat /\ now \in 0 .. MaxTime
      /\ edits + 1 \in 0 .. MaxEdits /\ edits <= edits + 1 /\ now <= now
  BY <1>1, BoundsAssumption DEF RecordsInv, Edits
<1>3. /\ host \in [Devices -> [Hosts -> GoodHosts(edits + 1, now)]]
      /\ tag \in [Devices -> [Tags -> GoodTags(edits + 1)]]
      /\ vault \in [hosts : [Hosts -> GoodHosts(edits + 1, now)],
                    tags : [Tags -> GoodTags(edits + 1)]]
      /\ sess \in [Devices -> GoodSessions(edits + 1, now)]
  BY <1>2, RowsStay
<1> DEFINE row(h) ==
      IF t \notin host[d][h].tags THEN host[d][h]
      ELSE [edit |-> edits + 1, at |-> now,
            chosen |-> host[d][h].tags \ {t}, tags |-> host[d][h].tags \ {t},
            stamp |-> LocalStamp(d, host[d][h].stamp)]
<1>4. ASSUME NEW h \in Hosts
      PROVE  /\ row(h) \in GoodHosts(edits + 1, now)
             /\ row(h) = host[d][h] \/ row(h).at = now
  <2>1. host[d][h].tags \ {t} \in SUBSET Tags
    BY DEF RecordsInv, GoodHosts, HostRows
  <2>2. [edit |-> edits + 1, at |-> now,
         chosen |-> host[d][h].tags \ {t}, tags |-> host[d][h].tags \ {t},
         stamp |-> LocalStamp(d, host[d][h].stamp)] \in GoodHosts(edits + 1, now)
    BY <1>1, <2>1, EditedHostGood
  <2> QED
    BY <1>3, <2>2
<1>5. host' = [host EXCEPT ![d] = [h \in Hosts |-> row(h)]]
  BY DEF DeleteTag
<1> HIDE DEF row
<1>6. host' \in [Devices -> [Hosts -> GoodHosts(edits + 1, now)]]
  BY <1>3, <1>4, <1>5
<1> DEFINE deleted ==
      [name |-> tag[d][t].name, active |-> FALSE, stamp |-> LocalStamp(d, tag[d][t].stamp)]
<1>7. deleted \in GoodTags(edits + 1)
  <2>1. tag[d][t].name \in Names \cup {None}
    BY DEF RecordsInv, GoodTags, TagRows
  <2> QED
    BY <1>1, <2>1, EditedTagGood
<1>8. tag' = [tag EXCEPT ![d] = [tag[d] EXCEPT ![t] = deleted]]
  <2>1. tag \in [Devices -> [Tags -> GoodTags(edits)]]
    BY DEF RecordsInv
  <2> QED
    BY <2>1 DEF DeleteTag
<1> HIDE DEF deleted
<1>9. tag' \in [Devices -> [Tags -> GoodTags(edits + 1)]]
  BY <1>3, <1>7, <1>8
<1>10. RecordsInv'
  BY <1>1, <1>2, <1>3, <1>6, <1>9 DEF RecordsInv, DeleteTag
<1>11. InOrder
  <2> SUFFICES ASSUME NEW e \in Devices, NEW g \in Hosts
               PROVE  host'[e][g].at + Skew >= host[e][g].at
    BY DEF InOrder
  <2>1. host[e][g] \in GoodHosts(edits, now) /\ now \in Nat /\ Skew \in Nat
    BY BoundsAssumption, ClocksAssumption DEF RecordsInv
  <2>2. host[e][g].at \in Nat /\ host[e][g].at <= now
    BY <2>1, BoundsAssumption DEF GoodHosts, HostRows
  <2>3. host'[e][g] = host[e][g] \/ host'[e][g].at = now
    BY <1>4, <1>5 DEF RecordsInv
  <2> QED
    BY <2>1, <2>2, <2>3
<1> QED
  BY <1>10, <1>11

LEMMA ImportStep ==
    ASSUME RecordsInv, NEW d \in Devices, Import(d)
    PROVE  RecordsInv' /\ InOrder
<1>1. /\ host' = [host EXCEPT ![d] = MergedHosts(d)]
      /\ tag' = [tag EXCEPT ![d] = MergedTags(d)]
      /\ flawed' = flawed \cup {vault.hosts[h].edit : h \in Stripped(d)}
      /\ sess' = [sess EXCEPT ![d] = [Idle EXCEPT !.phase = "export", !.fresh = TRUE]]
      /\ UNCHANGED <<now, edits, saving, vault>>
  BY DEF Import
<1>2. MergedHosts(d) \in [Hosts -> GoodHosts(edits, now)]
  <2>1. \A h \in Hosts : MergedHosts(d)[h] \in GoodHosts(edits, now)
    BY MergedHostGood
  <2> QED
    BY <2>1 DEF MergedHosts
<1>3. MergedTags(d) \in [Tags -> GoodTags(edits)]
  <2>1. \A t \in Tags : MergedTags(d)[t] \in GoodTags(edits)
    BY MergedTagGood
  <2> QED
    BY <2>1 DEF MergedTags
<1>4. [Idle EXCEPT !.phase = "export", !.fresh = TRUE] \in GoodSessions(edits, now)
  <2>1. Idle \in GoodSessions(edits, now)
    BY NoRowsGood, BoundsAssumption DEF RecordsInv
  <2> QED
    BY <2>1 DEF GoodSessions
<1>5. {vault.hosts[h].edit : h \in Stripped(d)} \subseteq 0 .. MaxEdits
  BY DEF Stripped, RecordsInv, GoodHosts, HostRows
<1>6. RecordsInv'
  BY <1>1, <1>2, <1>3, <1>4, <1>5 DEF RecordsInv
<1>7. InOrder
  <2> SUFFICES ASSUME NEW e \in Devices, NEW g \in Hosts
               PROVE  host'[e][g].at + Skew >= host[e][g].at
    BY DEF InOrder
  <2>1. CASE e = d
    BY <1>1, <2>1, MergedHostGood DEF RecordsInv
  <2>2. CASE e # d
    <3>1. host'[e][g] = host[e][g]
      BY <1>1, <2>2 DEF RecordsInv
    <3>2. host[e][g].at \in Nat /\ Skew \in Nat
      BY BoundsAssumption, ClocksAssumption DEF RecordsInv, GoodHosts, HostRows
    <3> QED
      BY <3>1, <3>2
  <2> QED
    BY <2>1, <2>2
<1> QED
  BY <1>6, <1>7

\* The export, the push, a conflict and a crash leave the device's rows as they are.
LEMMA ExportStep ==
    ASSUME RecordsInv, NEW d \in Devices,
           ExportHosts(d) \/ Push(d) \/ Conflict(d) \/ Crash(d)
    PROVE  RecordsInv'
<1>1. Idle \in GoodSessions(edits, now)
  BY NoRowsGood, BoundsAssumption DEF RecordsInv
<1>2. saving[d] # NoSave => saving[d].edit \in 0 .. MaxEdits
  BY DEF RecordsInv, Saves
<1>3. CASE ExportHosts(d)
  <2>1. [sess[d] EXCEPT !.phase = "push", !.at = now, !.hosts = host[d]]
           \in GoodSessions(edits, now)
    BY DEF RecordsInv, GoodSessions
  <2>2. sess' = [sess EXCEPT ![d] =
                   [sess[d] EXCEPT !.phase = "push", !.at = now, !.hosts = host[d]]]
    BY <1>3 DEF ExportHosts
  <2>3. sess' \in [Devices -> GoodSessions(edits, now)]
    BY <2>1, <2>2 DEF RecordsInv
  <2> QED
    BY <1>2, <1>3, <2>3 DEF ExportHosts, RecordsInv
<1>4. CASE Push(d)
  <2>1. sess[d].hosts \in [Hosts -> GoodHosts(edits, now)]
    BY DEF RecordsInv, GoodSessions
  <2>2. vault' \in [hosts : [Hosts -> GoodHosts(edits, now)], tags : [Tags -> GoodTags(edits)]]
    BY <1>4, <2>1 DEF Push, RecordsInv
  <2>3. ASSUME NEW e \in Devices
        PROVE  [sess[e] EXCEPT !.fresh = FALSE] \in GoodSessions(edits, now)
    BY DEF RecordsInv, GoodSessions
  <2>4. sess' \in [Devices -> GoodSessions(edits, now)]
    BY <1>1, <1>4, <2>3 DEF Push
  <2> QED
    BY <1>4, <2>2, <2>4 DEF Push, RecordsInv
<1>5. CASE Conflict(d)
  BY <1>1, <1>5 DEF Conflict, RecordsInv
<1>6. CASE Crash(d)
  BY <1>1, <1>2, <1>6 DEF Crash, RecordsInv, Saves
<1> QED
  BY <1>3, <1>4, <1>5, <1>6

LEMMA TickStep == RecordsInv /\ Tick => RecordsInv'
<1> SUFFICES ASSUME RecordsInv, Tick PROVE RecordsInv'
  OBVIOUS
<1>1. /\ now + 1 \in 0 .. MaxTime /\ now <= now + 1 /\ edits \in 0 .. MaxEdits /\ edits <= edits
  BY BoundsAssumption DEF Tick, RecordsInv
<1>2. /\ host \in [Devices -> [Hosts -> GoodHosts(edits, now + 1)]]
      /\ tag \in [Devices -> [Tags -> GoodTags(edits)]]
      /\ vault \in [hosts : [Hosts -> GoodHosts(edits, now + 1)], tags : [Tags -> GoodTags(edits)]]
      /\ sess \in [Devices -> GoodSessions(edits, now + 1)]
  BY <1>1, RowsStay
<1> QED
  BY <1>1, <1>2 DEF Tick, RecordsInv

LEMMA RecordsStep == RecordsInv /\ [Next]_vars => RecordsInv' /\ InOrder
<1> SUFFICES ASSUME RecordsInv, [Next]_vars PROVE RecordsInv' /\ InOrder
  OBVIOUS
<1>1. CASE Tick
  BY <1>1, TickStep, SameInOrder DEF Tick
<1>2. ASSUME NEW d \in Devices, Sync(d) PROVE RecordsInv' /\ InOrder
  <2>1. CASE Import(d)
    BY <2>1, ImportStep
  <2>2. CASE ExportHosts(d) \/ Push(d) \/ Conflict(d)
    BY <2>2, ExportStep, SameInOrder DEF ExportHosts, Push, Conflict
  <2> QED
    BY <1>2, <2>1, <2>2 DEF Sync
<1>3. ASSUME NEW d \in Devices, SaveTags(d) PROVE RecordsInv' /\ InOrder
  BY <1>3, SaveTagsStep
<1>4. ASSUME NEW d \in Devices, Crash(d) PROVE RecordsInv' /\ InOrder
  BY <1>4, ExportStep, SameInOrder DEF Crash
<1>5. ASSUME NEW d \in Devices, NEW h \in Hosts, SaveHost(d, h) PROVE RecordsInv' /\ InOrder
  BY <1>5, SaveHostStep
<1>6. ASSUME NEW d \in Devices, NEW t \in Tags, SaveTag(d, t) \/ DeleteTag(d, t)
      PROVE  RecordsInv' /\ InOrder
  BY <1>6, SaveTagStep, DeleteTagStep
<1>7. CASE UNCHANGED vars
  <2>1. RecordsInv'
    BY <1>7 DEF vars, RecordsInv
  <2> QED
    BY <1>7, <2>1, SameInOrder DEF vars
<1> QED
  BY <1>1, <1>2, <1>3, <1>4, <1>5, <1>6, <1>7 DEF Next

-------------------------------------------------------------------------------
(* Stamps and tags *)

\* Clocks that show the same time.
ClocksInStep == \A d, e \in Devices : Offset[d] = Offset[e]

NotAfter(a, b) == a.time < b.time \/ (a.time = b.time /\ a.version <= b.version)

\* A stamp that carries a device's number is not after the row that this device has: a
\* device counts its versions up and takes only newer rows. So it never mints one twice.
StampInv ==
    \A h \in Hosts : \A row \in Copies(h) :
        /\ row.stamp = Never => row.edit = 0
        /\ \A d \in Devices : row.stamp.time <= now + Offset[d]
        /\ \A d \in Devices : row.stamp.device = d => NotAfter(row.stamp, host[d][h].stamp)
        /\ \A other \in Copies(h) : row.stamp = other.stamp => row.edit = other.edit

\* A copy of host h that a step leaves as it was, or one with a stamp that d mints.
LikeSome(h, row) ==
    row = NoHost \/ \E other \in Copies(h) : other.stamp = row.stamp /\ other.edit = row.edit
Minted(d, h, row) ==
    /\ row.stamp.device = d /\ ~ NotAfter(row.stamp, host[d][h].stamp)
    /\ \A e \in Devices : row.stamp.time <= now + Offset[e]

Settled(row, flaws) == row.tags = row.chosen \/ row.edit \in flaws
InSave(save, row) == save # NoSave /\ save.edit = row.edit
Exist(rows) == {t \in Tags : Exists(rows[t])}

\* Saves are of different edits, and a copy of an edit in a save is what is being saved.
SavesOK ==
    \A d \in Devices : saving[d] # NoSave =>
        /\ saving[d].edit <= edits
        /\ \A e \in Devices : saving[e] # NoSave /\ saving[e].edit = saving[d].edit => e = d
CopiesOK ==
    \A h \in Hosts : \A row \in Copies(h) :
        /\ row.edit <= edits
        /\ \A d \in Devices : InSave(saving[d], row) =>
              saving[d].host = h /\ saving[d].tags = row.chosen

\* Only the device of an unfinished save has its columns with tags of another edit.
SettledOK ==
    \A h \in Hosts :
        /\ Settled(vault.hosts[h], flawed)
        /\ \A d \in Devices : Settled(sess[d].hosts[h], flawed)
        /\ \A d \in Devices : Settled(host[d][h], flawed) \/ InSave(saving[d], host[d][h])

\* A host has no tag that its device, or the envelope, has never heard of.
TagsKnown ==
    /\ Active(vault.tags) \subseteq Exist(vault.tags)
    /\ \A d \in Devices : Active(tag[d]) \subseteq Exist(tag[d])
    /\ \A h \in Hosts :
        /\ vault.hosts[h].tags \subseteq Exist(vault.tags)
        /\ \A d \in Devices : host[d][h].tags \cup sess[d].hosts[h].tags \subseteq Exist(tag[d])

TagsInv == SavesOK /\ CopiesOK /\ SettledOK /\ TagsKnown

-------------------------------------------------------------------------------
(* Copies *)

LEMMA CopyTyped ==
    ASSUME RecordsInv, NEW h \in Hosts, NEW row \in Copies(h)
    PROVE  row \in HostRows /\ row.stamp \in Stamps
<1>1. row \in GoodHosts(edits, now)
  BY DEF RecordsInv, Copies, GoodSessions
<1> QED
  BY <1>1 DEF GoodHosts, HostRows

LEMMA HostCopied ==
    ASSUME NEW h \in Hosts
    PROVE  /\ vault.hosts[h] \in Copies(h)
           /\ \A d \in Devices : host[d][h] \in Copies(h) /\ sess[d].hosts[h] \in Copies(h)
  BY DEF Copies

\* Sessions and the envelope only hold what a device had.
LEMMA SessionsCopy ==
    ASSUME RecordsInv, [Next]_vars
    PROVE  \A h \in Hosts :
             /\ \A e \in Devices : sess'[e].hosts[h] \in {sess[e].hosts[h], host[e][h], NoHost}
             /\ \/ vault'.hosts[h] = vault.hosts[h]
                \/ \E e \in Devices : vault'.hosts[h] = sess[e].hosts[h]
<1>1. ASSUME NEW d \in Devices, sess' = [sess EXCEPT ![d] = Idle] \/ UNCHANGED sess,
             UNCHANGED vault
      PROVE  \A h \in Hosts :
               /\ \A e \in Devices : sess'[e].hosts[h] \in {sess[e].hosts[h], NoHost}
               /\ vault'.hosts[h] = vault.hosts[h]
  <2>1. \A e \in Devices : sess'[e].hosts = sess[e].hosts \/ sess'[e].hosts = Idle.hosts
    BY <1>1 DEF RecordsInv
  <2>2. Idle.hosts = [h \in Hosts |-> NoHost]
    BY DEF Idle
  <2> QED
    BY <1>1, <2>1, <2>2
<1>2. CASE UNCHANGED <<sess, vault>>
  BY <1>2
<1>3. ASSUME NEW d \in Devices, Import(d)
      PROVE  \A h \in Hosts :
               /\ \A e \in Devices : sess'[e].hosts[h] \in {sess[e].hosts[h], NoHost}
               /\ vault'.hosts[h] = vault.hosts[h]
  <2>1. /\ sess' = [sess EXCEPT ![d] = [Idle EXCEPT !.phase = "export", !.fresh = TRUE]]
        /\ UNCHANGED vault
    BY <1>3 DEF Import
  <2>2. [Idle EXCEPT !.phase = "export", !.fresh = TRUE].hosts = [h \in Hosts |-> NoHost]
    BY DEF Idle
  <2> QED
    BY <2>1, <2>2 DEF RecordsInv
<1>4. ASSUME NEW d \in Devices, ExportHosts(d)
      PROVE  \A h \in Hosts :
               /\ \A e \in Devices : sess'[e].hosts[h] \in {sess[e].hosts[h], host[e][h]}
               /\ vault'.hosts[h] = vault.hosts[h]
  <2>1. sess[d] \in GoodSessions(edits, now) /\ sess \in [Devices -> GoodSessions(edits, now)]
    BY DEF RecordsInv
  <2>2. sess' = [sess EXCEPT ![d] =
                   [sess[d] EXCEPT !.phase = "push", !.at = now, !.hosts = host[d]]]
    BY <1>4 DEF ExportHosts
  <2>3. [sess[d] EXCEPT !.phase = "push", !.at = now, !.hosts = host[d]].hosts = host[d]
    BY <2>1 DEF GoodSessions
  <2>4. \A e \in Devices : sess'[e].hosts = IF e = d THEN host[d] ELSE sess[e].hosts
    BY <2>1, <2>2, <2>3
  <2>5. UNCHANGED vault
    BY <1>4 DEF ExportHosts
  <2> QED
    BY <2>4, <2>5
<1>5. ASSUME NEW d \in Devices, Push(d)
      PROVE  \A h \in Hosts :
               /\ \A e \in Devices : sess'[e].hosts[h] \in {sess[e].hosts[h], NoHost}
               /\ vault'.hosts[h] = sess[d].hosts[h]
  <2>1. ASSUME NEW e \in Devices PROVE [sess[e] EXCEPT !.fresh = FALSE].hosts = sess[e].hosts
    BY DEF RecordsInv, GoodSessions
  <2>2. \A e \in Devices : sess'[e].hosts = IF e = d THEN Idle.hosts ELSE sess[e].hosts
    BY <1>5, <2>1 DEF Push
  <2>3. vault'.hosts = sess[d].hosts
    BY <1>5 DEF Push
  <2> QED
    BY <2>2, <2>3 DEF Idle
<1>6. ASSUME NEW d \in Devices, Conflict(d) \/ Crash(d)
      PROVE  \A h \in Hosts :
               /\ \A e \in Devices : sess'[e].hosts[h] \in {sess[e].hosts[h], NoHost}
               /\ vault'.hosts[h] = vault.hosts[h]
  BY <1>1, <1>6 DEF Conflict, Crash
<1>7. CASE Tick
  BY <1>2, <1>7 DEF Tick
<1>8. ASSUME NEW d \in Devices, SaveTags(d) PROVE UNCHANGED <<sess, vault>>
  BY <1>8 DEF SaveTags
<1>9. ASSUME NEW d \in Devices, NEW h \in Hosts, SaveHost(d, h) PROVE UNCHANGED <<sess, vault>>
  BY <1>9 DEF SaveHost
<1>10. ASSUME NEW d \in Devices, NEW t \in Tags, SaveTag(d, t) \/ DeleteTag(d, t)
       PROVE  UNCHANGED <<sess, vault>>
  BY <1>10 DEF SaveTag, DeleteTag
<1>11. CASE UNCHANGED vars
  BY <1>2, <1>11 DEF vars
<1> QED
  BY <1>2, <1>3, <1>4, <1>5, <1>6, <1>7, <1>8, <1>9, <1>10, <1>11 DEF Next, Sync

-------------------------------------------------------------------------------
(* Stamps *)

LEMMA NotAfterTransitive ==
    ASSUME NEW a \in Stamps, NEW b \in Stamps, NEW c \in Stamps, NotAfter(a, b), NotAfter(b, c)
    PROVE  NotAfter(a, c)
<1>1. /\ a.time \in Nat /\ a.version \in Nat /\ b.time \in Nat /\ b.version \in Nat
      /\ c.time \in Nat /\ c.version \in Nat
  BY StampNumbers
<1> QED
  BY <1>1 DEF NotAfter

LEMMA NotAfterItself ==
    ASSUME NEW a \in Stamps
    PROVE  NotAfter(a, a)
  BY StampNumbers DEF NotAfter

LEMMA StampsGoOn ==
    ASSUME RecordsInv, RecordsInv', StampInv, [Next]_vars, now <= now',
           NEW d \in Devices,
           \A e \in Devices, h \in Hosts :
              /\ NotAfter(host[e][h].stamp, host'[e][h].stamp)
              /\ \/ LikeSome(h, host'[e][h])
                 \/ e = d /\ Minted(d, h, host'[e][h])
    PROVE  StampInv'
<1> SUFFICES ASSUME NEW h \in Hosts, NEW row \in Copies(h)'
             PROVE  /\ row.stamp = Never => row.edit = 0
                    /\ \A e \in Devices : row.stamp.time <= now' + Offset[e]
                    /\ \A e \in Devices : row.stamp.device = e =>
                          NotAfter(row.stamp, host'[e][h].stamp)
                    /\ \A other \in Copies(h)' : row.stamp = other.stamp => row.edit = other.edit
  BY DEF StampInv
<1>1. \A x \in Copies(h)' : LikeSome(h, x) \/ (x = host'[d][h] /\ Minted(d, h, x))
  <2>1. \A e \in Devices : LikeSome(h, sess'[e].hosts[h])
    BY SessionsCopy, HostCopied DEF LikeSome
  <2>2. LikeSome(h, vault'.hosts[h])
    BY SessionsCopy, HostCopied DEF LikeSome
  <2> QED
    BY <2>1, <2>2 DEF Copies
<1>2. /\ \A x \in Copies(h)' : x.stamp \in Stamps
      /\ \A x \in Copies(h) : x.stamp \in Stamps
      /\ \A e \in Devices : host[e][h].stamp \in Stamps /\ host'[e][h].stamp \in Stamps
      /\ \A e \in Devices : Offset[e] \in Nat
      /\ now \in Nat /\ now' \in Nat
  <2>1. now \in Nat /\ now' \in Nat /\ \A e \in Devices : Offset[e] \in Nat
    BY BoundsAssumption, ClocksAssumption DEF RecordsInv
  <2>2. (\A x \in Copies(h) : x.stamp \in Stamps) /\ (\A x \in Copies(h)' : x.stamp \in Stamps)
    <3>1. \A x \in Copies(h)' : x \in GoodHosts(edits', now')
      BY DEF RecordsInv, Copies, GoodSessions
    <3> QED
      BY <3>1, CopyTyped DEF GoodHosts, HostRows
  <2>3. \A e \in Devices : host[e][h] \in Copies(h) /\ host'[e][h] \in Copies(h)'
    BY DEF Copies
  <2> QED
    BY <2>1, <2>2, <2>3
<1>3. /\ NoHost.edit = 0 /\ NoHost.stamp = Never /\ Never.time = 0
      /\ \A e \in Devices : Never.device # e
  BY NumbersAssumption DEF NoHost, Never
<1>4. \A x \in Copies(h)' : x.stamp = Never => x.edit = 0
  BY <1>1, <1>3 DEF LikeSome, Minted, StampInv
<1>5. \A e \in Devices : row.stamp.time <= now' + Offset[e]
  <2> SUFFICES ASSUME NEW e \in Devices PROVE row.stamp.time <= now' + Offset[e]
    OBVIOUS
  <2>1. row.stamp.time \in Nat
    BY <1>2, StampNumbers
  <2>2. row.stamp.time <= now + Offset[e]
    BY <1>1, <1>2, <1>3 DEF LikeSome, Minted, StampInv
  <2> QED
    BY <1>2, <2>1, <2>2
<1>6. ASSUME NEW e \in Devices, row.stamp.device = e
      PROVE  NotAfter(row.stamp, host'[e][h].stamp)
  <2>1. CASE LikeSome(h, row)
    <3>1. NotAfter(row.stamp, host[e][h].stamp)
      BY <1>3, <1>6, <2>1 DEF LikeSome, StampInv
    <3>2. NotAfter(host[e][h].stamp, host'[e][h].stamp)
      OBVIOUS
    <3> QED
      BY <1>2, <3>1, <3>2, NotAfterTransitive
  <2>2. CASE row = host'[d][h] /\ Minted(d, h, row)
    BY <1>2, <1>6, <2>2, StampNumbers DEF Minted, NotAfter
  <2> QED
    BY <1>1, <2>1, <2>2
<1>7. ASSUME NEW other \in Copies(h)', row.stamp = other.stamp
      PROVE  row.edit = other.edit
  <2>1. ASSUME NEW x \in Copies(h)', NEW y \in Copies(h)', LikeSome(h, x), Minted(d, h, y)
        PROVE  x.stamp # y.stamp
    BY <1>3, <2>1 DEF LikeSome, Minted, StampInv
  <2>2. CASE LikeSome(h, row) /\ LikeSome(h, other)
    <3>1. CASE row.stamp = Never
      BY <1>4, <1>7, <3>1
    <3>2. CASE row.stamp # Never
      BY <1>3, <1>7, <2>2, <3>2 DEF LikeSome, StampInv
    <3> QED
      BY <3>1, <3>2
  <2> QED
    BY <1>1, <1>7, <2>1, <2>2
<1> QED
  BY <1>4, <1>5, <1>6, <1>7

\* With clocks in step, the stamp of an edit is after that of the row which it replaces.
LEMMA EditMints ==
    ASSUME RecordsInv, ClocksInStep, StampInv, NEW d \in Devices, NEW h \in Hosts,
           NEW row, row.stamp = LocalStamp(d, host[d][h].stamp)
    PROVE  Minted(d, h, row) /\ NotAfter(host[d][h].stamp, row.stamp)
<1> DEFINE old == host[d][h].stamp
           new == row.stamp
<1>1. old \in Stamps /\ old.time \in Nat /\ old.version \in Nat
  BY HostCopied, CopyTyped, StampNumbers
<1>2. now \in Nat /\ \A e \in Devices : Offset[e] \in Nat /\ Offset[e] = Offset[d]
  BY BoundsAssumption, ClocksAssumption DEF RecordsInv, ClocksInStep
<1>3. old.time <= now + Offset[d]
  BY HostCopied DEF StampInv
<1>4. new.time = now + Offset[d] /\ new.version = old.version + 1 /\ new.device = d
  BY DEF LocalStamp
<1> HIDE DEF old, new
<1>5. ~ NotAfter(new, old) /\ NotAfter(old, new) /\ \A e \in Devices : new.time <= now + Offset[e]
  BY <1>1, <1>2, <1>3, <1>4 DEF NotAfter
<1> QED
  BY <1>4, <1>5 DEF Minted, old, new

\* A merge never goes back, and the trigger mints a stamp only for a row that is newer.
LEMMA MergeMints ==
    ASSUME RecordsInv, StampInv, NEW d \in Devices, NEW h \in Hosts
    PROVE  LET row == MergedHosts(d)[h] IN
           /\ NotAfter(host[d][h].stamp, row.stamp)
           /\ LikeSome(h, row) \/ Minted(d, h, row)
<1> DEFINE row == MergedHosts(d)[h]
           new == vault.hosts[h]
           old == host[d][h]
<1>1. new \in HostRows /\ new.stamp \in Stamps /\ old \in HostRows /\ old.stamp \in Stamps
  BY HostCopied, CopyTyped
<1>2. /\ new.stamp.time \in Nat /\ new.stamp.version \in Nat /\ new.stamp.device \in Nat
      /\ old.stamp.time \in Nat /\ old.stamp.version \in Nat /\ old.stamp.device \in Nat
  BY <1>1, StampNumbers
<1>3. CASE TakesHost(d, h)
  <2> DEFINE by == WrittenBy(d, old.stamp, new.stamp)
             stamp == [new.stamp EXCEPT !.device = by]
  <2>1. new.stamp # Never /\ NewerThan(new.stamp, old.stamp)
    BY <1>1, <1>3, NewerStamp DEF TakesHost
  <2>2. row = [new EXCEPT !.tags = @ \cap KnownTags(d), !.stamp = stamp]
    BY <1>1, <1>3 DEF MergedHosts, HostRows
  <2>3. row.stamp = stamp /\ row.edit = new.edit
    BY <1>1, <2>2 DEF HostRows
  <2>4. new.stamp \in [time : 0 .. MaxTime + Skew, version : 1 .. MaxEdits, device : Devices]
    BY <1>1, <2>1 DEF Stamps
  <2>5. /\ stamp.time = new.stamp.time /\ stamp.version = new.stamp.version /\ stamp.device = by
        /\ by = new.stamp.device => stamp = new.stamp
    BY <2>4
  <2>6. NotAfter(old.stamp, stamp)
    BY <1>2, <2>1, <2>5 DEF NewerThan, NotAfter
  <2>7. CASE by = new.stamp.device
    BY <2>3, <2>5, <2>6, <2>7, HostCopied DEF LikeSome
  <2>8. CASE by # new.stamp.device
    <3>1. by = d /\ old.stamp.device = new.stamp.device
      BY <2>8 DEF WrittenBy
    <3>2. ~ NotAfter(stamp, old.stamp)
      BY <1>2, <2>1, <2>5, <3>1 DEF NewerThan, NotAfter
    <3>3. \A e \in Devices : new.stamp.time <= now + Offset[e]
      BY HostCopied DEF StampInv
    <3> QED
      BY <2>3, <2>5, <2>6, <3>1, <3>2, <3>3 DEF Minted
  <2> QED
    BY <2>7, <2>8
<1>4. CASE ~ TakesHost(d, h)
  <2>1. row = old
    BY <1>4 DEF MergedHosts
  <2> QED
    BY <1>1, <2>1, HostCopied, NotAfterItself DEF LikeSome
<1> QED
  BY <1>3, <1>4

LEMMA StampStep ==
    ASSUME ClocksInStep, RecordsInv, RecordsInv', StampInv, [Next]_vars
    PROVE  StampInv'
<1> DEFINE Kept(e, h) ==
      /\ host[e][h].stamp = host'[e][h].stamp /\ host[e][h].edit = host'[e][h].edit
<1>1. ASSUME NEW e \in Devices, NEW h \in Hosts, Kept(e, h)
      PROVE  NotAfter(host[e][h].stamp, host'[e][h].stamp) /\ LikeSome(h, host'[e][h])
  <2>1. host[e][h] \in Copies(h) /\ host[e][h].stamp \in Stamps
    BY HostCopied, CopyTyped
  <2> QED
    BY <1>1, <2>1, NotAfterItself DEF LikeSome
<1>2. now <= now'
  <2>1. now' = now \/ now' = now + 1
    BY DEF Next, Tick, Sync, Import, ExportHosts, Push, Conflict,
       SaveTags, Crash, SaveHost, SaveTag, DeleteTag, Edits, vars
  <2>2. now \in Nat
    BY BoundsAssumption DEF RecordsInv
  <2> QED
    BY <2>1, <2>2
<1>3. ASSUME \A e \in Devices, h \in Hosts : Kept(e, h) PROVE StampInv'
  <2>1. CASE Devices = {}
    <3>1. \A h \in Hosts : Copies(h)' = {vault'.hosts[h]} /\ vault'.hosts[h] = vault.hosts[h]
      BY <2>1, SessionsCopy DEF Copies
    <3>2. \A h \in Hosts : vault.hosts[h] \in Copies(h)
      BY HostCopied
    <3> QED
      BY <2>1, <3>1, <3>2 DEF StampInv
  <2>2. ASSUME NEW d \in Devices PROVE StampInv'
    BY <1>1, <1>2, <1>3, StampsGoOn
  <2> QED
    BY <2>1, <2>2
<1>4. CASE UNCHANGED host
  BY <1>3, <1>4
<1>5. ASSUME NEW d \in Devices, SaveTags(d) PROVE StampInv'
  <2> DEFINE g == saving[d].host
             tags == saving[d].tags \cap Active(tag[d])
  <2>1. g \in Hosts
    BY <1>5 DEF SaveTags, RecordsInv, Saves
  <2>2. host[d][g] \in HostRows
    BY <2>1, HostCopied, CopyTyped
  <2>3. host' = [host EXCEPT ![d] = [host[d] EXCEPT ![g] = [host[d][g] EXCEPT !.tags = tags]]]
    BY <1>5 DEF SaveTags
  <2> HIDE DEF g, tags
  <2>4. /\ [host[d][g] EXCEPT !.tags = tags].stamp = host[d][g].stamp
        /\ [host[d][g] EXCEPT !.tags = tags].edit = host[d][g].edit
    BY <2>2 DEF HostRows
  <2>5. \A e \in Devices, h \in Hosts : Kept(e, h)
    BY <2>1, <2>3, <2>4 DEF RecordsInv
  <2> QED
    BY <1>3, <2>5
<1>6. ASSUME NEW d \in Devices,
             \A e \in Devices, h \in Hosts :
                \/ Kept(e, h)
                \/ e = d /\ host'[e][h].stamp = LocalStamp(d, host[d][h].stamp)
      PROVE  StampInv'
  <2>1. ASSUME NEW e \in Devices, NEW h \in Hosts
        PROVE  /\ NotAfter(host[e][h].stamp, host'[e][h].stamp)
               /\ LikeSome(h, host'[e][h]) \/ (e = d /\ Minted(d, h, host'[e][h]))
    BY <1>1, <1>6, EditMints
  <2> QED
    BY <1>2, <2>1, StampsGoOn
<1>7. ASSUME NEW d \in Devices, NEW g \in Hosts, SaveHost(d, g) PROVE StampInv'
  <2>1. PICK chosen \in SUBSET Active(tag[d]) :
           host' = [host EXCEPT ![d][g] =
               [edit |-> edits + 1, at |-> now, chosen |-> chosen,
                tags |-> host[d][g].tags, stamp |-> LocalStamp(d, host[d][g].stamp)]]
    BY <1>7 DEF SaveHost
  <2> DEFINE row == [edit |-> edits + 1, at |-> now, chosen |-> chosen,
                     tags |-> host[d][g].tags, stamp |-> LocalStamp(d, host[d][g].stamp)]
  <2>2. row.stamp = LocalStamp(d, host[d][g].stamp)
    OBVIOUS
  <2>3. host' = [host EXCEPT ![d] = [host[d] EXCEPT ![g] = row]]
    BY <2>1
  <2> HIDE DEF row
  <2>4. \A e \in Devices, h \in Hosts :
           host'[e][h] = IF e = d /\ h = g THEN row ELSE host[e][h]
    BY <2>3 DEF RecordsInv
  <2> QED
    BY <1>6, <2>2, <2>4
<1>8. ASSUME NEW d \in Devices, NEW t \in Tags, DeleteTag(d, t) PROVE StampInv'
  <2> DEFINE row(h) ==
        [edit |-> edits + 1, at |-> now,
         chosen |-> host[d][h].tags \ {t}, tags |-> host[d][h].tags \ {t},
         stamp |-> LocalStamp(d, host[d][h].stamp)]
  <2>1. \A e \in Devices, h \in Hosts : host'[e][h] \in {host[e][h], row(h)}
                                     /\ (e # d => host'[e][h] = host[e][h])
    BY <1>8 DEF DeleteTag, RecordsInv
  <2>2. \A h \in Hosts : row(h).stamp = LocalStamp(d, host[d][h].stamp)
    OBVIOUS
  <2> HIDE DEF row
  <2>3. \A e \in Devices, h \in Hosts :
          \/ Kept(e, h)
          \/ e = d /\ host'[e][h].stamp = LocalStamp(d, host[d][h].stamp)
    BY <2>1, <2>2
  <2> HIDE DEF Kept
  <2> QED
    BY <1>6, <2>3
<1>9. ASSUME NEW d \in Devices, Import(d) PROVE StampInv'
  <2>1. \A e \in Devices, h \in Hosts :
           host'[e][h] = IF e = d THEN MergedHosts(d)[h] ELSE host[e][h]
    BY <1>9 DEF Import, RecordsInv
  <2>2. ASSUME NEW e \in Devices, NEW h \in Hosts
        PROVE  /\ NotAfter(host[e][h].stamp, host'[e][h].stamp)
               /\ LikeSome(h, host'[e][h]) \/ (e = d /\ Minted(d, h, host'[e][h]))
    BY <1>1, <2>1, MergeMints
  <2> QED
    BY <1>2, <2>2, StampsGoOn
<1> QED
  BY <1>4, <1>5, <1>7, <1>8, <1>9 DEF Next, Sync, Tick, ExportHosts, Push, Conflict, Crash,
     SaveTag, vars

-------------------------------------------------------------------------------
(* Tags *)

LEMMA EditsTyped ==
    ASSUME RecordsInv
    PROVE  /\ edits \in Nat
           /\ \A d \in Devices : saving[d] # NoSave =>
                 saving[d].host \in Hosts /\ saving[d].edit \in Nat /\ saving[d].edit # 0
           /\ \A h \in Hosts : \A row \in Copies(h) : row.edit \in Nat /\ row.tags \subseteq Tags
<1>1. edits \in Nat
  BY BoundsAssumption DEF RecordsInv
<1>2. ASSUME NEW d \in Devices, saving[d] # NoSave
      PROVE  saving[d].host \in Hosts /\ saving[d].edit \in Nat /\ saving[d].edit # 0
  <2>1. saving[d] \in Saves
    BY DEF RecordsInv
  <2> QED
    BY <1>2, <2>1, BoundsAssumption DEF Saves
<1>3. ASSUME NEW h \in Hosts, NEW row \in Copies(h)
      PROVE  row.edit \in Nat /\ row.tags \subseteq Tags
  BY CopyTyped, BoundsAssumption DEF HostRows
<1> QED
  BY <1>1, <1>2, <1>3

\* A row of host h as it was, or as the next edit leaves it.
SameEdit(h, row) ==
    \E old \in Copies(h) \cup {NoHost} : row.edit = old.edit /\ row.chosen = old.chosen
NextEdit(h, row) ==
    /\ row.edit = edits + 1 /\ edits' = edits + 1
    /\ \A e \in Devices : InSave(saving'[e], row) =>
          saving'[e].host = h /\ saving'[e].tags = row.chosen

LEMMA CopiesGoOn ==
    ASSUME RecordsInv, [Next]_vars, SavesOK, CopiesOK, edits' \in {edits, edits + 1}, NEW d,
           \A e \in Devices :
              \/ saving'[e] \in {saving[e], NoSave}
              \/ e = d /\ saving'[e].edit = edits + 1 /\ edits' = edits + 1,
           \A e \in Devices, h \in Hosts :
              SameEdit(h, host'[e][h]) \/ NextEdit(h, host'[e][h])
    PROVE  SavesOK' /\ CopiesOK'
<1>1. edits \in Nat /\ edits <= edits'
  BY EditsTyped
<1>2. ASSUME NEW e \in Devices, saving'[e] # NoSave, saving'[e] = saving[e]
      PROVE  saving[e].edit <= edits /\ saving[e].edit \in Nat /\ saving[e].edit # 0
  BY <1>2, EditsTyped DEF SavesOK
<1>3. SavesOK'
  <2>1. ASSUME NEW e \in Devices, saving'[e] # NoSave PROVE saving'[e].edit <= edits'
    BY <1>1, <1>2, <2>1
  <2>2. ASSUME NEW e \in Devices, NEW f \in Devices, saving'[e] # NoSave, saving'[f] # NoSave,
               saving'[f].edit = saving'[e].edit
        PROVE  f = e
    <3>1. CASE saving'[e] = saving[e] /\ saving'[f] = saving[f]
      BY <2>2, <3>1 DEF SavesOK
    <3>2. CASE saving'[e] = saving[e] /\ saving'[f] # saving[f]
      BY <1>1, <1>2, <2>2, <3>2
    <3>3. CASE saving'[e] # saving[e] /\ saving'[f] = saving[f]
      BY <1>1, <1>2, <2>2, <3>3
    <3>4. CASE saving'[e] # saving[e] /\ saving'[f] # saving[f]
      BY <2>2, <3>4
    <3> QED
      BY <3>1, <3>2, <3>3, <3>4
  <2> QED
    BY <2>1, <2>2 DEF SavesOK
<1>4. ASSUME NEW h \in Hosts, NEW row \in Copies(h)'
      PROVE  SameEdit(h, row) \/ NextEdit(h, row)
  <2>1. ASSUME NEW x \in Copies(h) \cup {NoHost} PROVE SameEdit(h, x)
    BY DEF SameEdit
  <2> QED
    BY <1>4, <2>1, SessionsCopy, HostCopied DEF Copies
<1>5. ASSUME NEW h \in Hosts, NEW row \in Copies(h)'
      PROVE  /\ row.edit <= edits'
             /\ \A e \in Devices : InSave(saving'[e], row) =>
                   saving'[e].host = h /\ saving'[e].tags = row.chosen
  <2>1. CASE NextEdit(h, row)
    BY <1>1, <2>1 DEF NextEdit
  <2>2. CASE SameEdit(h, row)
    <3>1. PICK old \in Copies(h) \cup {NoHost} : row.edit = old.edit /\ row.chosen = old.chosen
      BY <2>2 DEF SameEdit
    <3>2. old.edit \in Nat /\ old.edit <= edits
      BY <1>1, EditsTyped DEF CopiesOK, NoHost
    <3>3. ASSUME NEW e \in Devices, InSave(saving'[e], row)
          PROVE  saving'[e].host = h /\ saving'[e].tags = row.chosen
      <4>1. saving'[e] = saving[e] /\ saving[e] # NoSave /\ saving[e].edit = old.edit
        BY <1>1, <3>1, <3>2, <3>3 DEF InSave
      <4>2. old # NoHost
        BY <4>1, EditsTyped DEF NoHost
      <4> QED
        BY <3>1, <4>1, <4>2 DEF CopiesOK, InSave
    <3> QED
      BY <1>1, <3>1, <3>2, <3>3
  <2> QED
    BY <1>4, <1>5, <2>1, <2>2
<1> QED
  BY <1>3, <1>5 DEF CopiesOK

LEMMA SettledGoesOn ==
    ASSUME RecordsInv, [Next]_vars, SettledOK, flawed \subseteq flawed',
           \A e \in Devices, h \in Hosts :
              /\ Settled(host'[e][h], flawed') \/ InSave(saving'[e], host'[e][h])
              /\ \/ sess'[e].hosts[h] \in {sess[e].hosts[h], NoHost}
                 \/ Settled(sess'[e].hosts[h], flawed')
    PROVE  SettledOK'
<1>1. \A row : Settled(row, flawed) => Settled(row, flawed')
  BY DEF Settled
<1>2. Settled(NoHost, flawed')
  BY DEF Settled, NoHost
<1>3. ASSUME NEW h \in Hosts
      PROVE  /\ Settled(vault'.hosts[h], flawed')
             /\ \A e \in Devices : Settled(sess'[e].hosts[h], flawed')
  BY <1>1, <1>2, SessionsCopy DEF SettledOK
<1> QED
  BY <1>3 DEF SettledOK

LEMMA TagsStayKnown ==
    ASSUME RecordsInv, [Next]_vars, TagsKnown,
           \A e \in Devices :
              /\ Exist(tag[e]) \subseteq Exist(tag'[e])
              /\ Active(tag'[e]) \subseteq Exist(tag'[e])
              /\ \A h \in Hosts : host'[e][h].tags \subseteq Exist(tag'[e]),
           \/ UNCHANGED vault
           \/ \E e \in Devices : vault' = [hosts |-> sess[e].hosts, tags |-> tag[e]]
    PROVE  TagsKnown'
<1>1. ASSUME NEW e \in Devices, NEW h \in Hosts
      PROVE  sess'[e].hosts[h].tags \subseteq Exist(tag'[e])
  <2>1. NoHost.tags = {}
    BY DEF NoHost
  <2> QED
    BY <2>1, SessionsCopy DEF TagsKnown
<1>2. /\ Active(vault'.tags) \subseteq Exist(vault'.tags)
      /\ \A h \in Hosts : vault'.hosts[h].tags \subseteq Exist(vault'.tags)
  <2>1. CASE UNCHANGED vault
    BY <2>1 DEF TagsKnown
  <2>2. ASSUME NEW e \in Devices, vault' = [hosts |-> sess[e].hosts, tags |-> tag[e]]
        PROVE  /\ Active(vault'.tags) \subseteq Exist(vault'.tags)
               /\ \A h \in Hosts : vault'.hosts[h].tags \subseteq Exist(vault'.tags)
    <3>1. vault'.hosts = sess[e].hosts /\ vault'.tags = tag[e]
      BY <2>2
    <3> QED
      BY <3>1 DEF TagsKnown
  <2> QED
    BY <2>1, <2>2
<1>3. \A e \in Devices, h \in Hosts :
        host'[e][h].tags \cup sess'[e].hosts[h].tags \subseteq Exist(tag'[e])
  BY <1>1
<1> QED
  BY <1>2, <1>3 DEF TagsKnown, Active, Exist

\* What a step leaves alone.
LEMMA Unchanging ==
    ASSUME RecordsInv, TagsInv, NEW e \in Devices
    PROVE  /\ UNCHANGED host => \A h \in Hosts :
                /\ SameEdit(h, host'[e][h])
                /\ host'[e][h].tags \subseteq Exist(tag[e])
           /\ UNCHANGED tag => /\ Exist(tag[e]) \subseteq Exist(tag'[e])
                               /\ Active(tag'[e]) \subseteq Exist(tag'[e])
           /\ UNCHANGED sess => \A h \in Hosts : sess'[e].hosts[h] \in {sess[e].hosts[h], NoHost}
           /\ \A h \in Hosts : Settled(host[e][h], flawed) \/ InSave(saving[e], host[e][h])
<1>1. UNCHANGED host => \A h \in Hosts :
        SameEdit(h, host'[e][h]) /\ host'[e][h].tags \subseteq Exist(tag[e])
  BY HostCopied DEF SameEdit, TagsInv, TagsKnown
<1>2. UNCHANGED tag => /\ Exist(tag[e]) \subseteq Exist(tag'[e])
                       /\ Active(tag'[e]) \subseteq Exist(tag'[e])
  BY DEF TagsInv, TagsKnown
<1> QED
  BY <1>1, <1>2 DEF TagsInv, SettledOK

\* Steps that leave the rows and what is saved.
LEMMA QuietKeepsTags ==
    ASSUME RecordsInv, TagsInv, [Next]_vars, UNCHANGED <<edits, host, tag, saving, flawed>>,
           \A e \in Devices, h \in Hosts : sess'[e].hosts[h] \in {sess[e].hosts[h], NoHost},
           \/ UNCHANGED vault
           \/ \E e \in Devices : vault' = [hosts |-> sess[e].hosts, tags |-> tag[e]]
    PROVE  TagsInv'
<1>1. SavesOK' /\ CopiesOK'
  <2>1. \A e \in Devices : saving'[e] \in {saving[e], NoSave}
    OBVIOUS
  <2> QED
    BY <2>1, Unchanging, CopiesGoOn DEF TagsInv
<1>2. SettledOK'
  BY Unchanging, SettledGoesOn DEF TagsInv
<1>3. TagsKnown'
  BY Unchanging, TagsStayKnown DEF TagsInv
<1> QED
  BY <1>1, <1>2, <1>3 DEF TagsInv

LEMMA SaveHostKeepsTags ==
    ASSUME RecordsInv, TagsInv, NEW d \in Devices, NEW g \in Hosts, SaveHost(d, g)
    PROVE  TagsInv'
<1>1. /\ edits' = edits + 1 /\ saving[d] = NoSave
      /\ UNCHANGED <<now, tag, vault, sess, flawed>> /\ [Next]_vars
  BY DEF SaveHost, Edits, Next
<1>2. PICK chosen \in SUBSET Active(tag[d]) :
         /\ host' = [host EXCEPT ![d][g] =
               [edit |-> edits + 1, at |-> now, chosen |-> chosen,
                tags |-> host[d][g].tags, stamp |-> LocalStamp(d, host[d][g].stamp)]]
         /\ saving' = [saving EXCEPT ![d] = [host |-> g, edit |-> edits + 1, tags |-> chosen]]
  BY DEF SaveHost
<1> DEFINE row == [edit |-> edits + 1, at |-> now, chosen |-> chosen,
                   tags |-> host[d][g].tags, stamp |-> LocalStamp(d, host[d][g].stamp)]
           save == [host |-> g, edit |-> edits + 1, tags |-> chosen]
<1>3. host' = [host EXCEPT ![d] = [host[d] EXCEPT ![g] = row]]
  BY <1>2
<1>4. /\ row.edit = edits + 1 /\ row.chosen = chosen /\ row.tags = host[d][g].tags
      /\ save.host = g /\ save.edit = edits + 1 /\ save.tags = chosen
  OBVIOUS
<1>5. save # NoSave
  <2>1. edits + 1 # 0
    BY EditsTyped
  <2> QED
    BY <1>4, <2>1 DEF NoSave
<1> HIDE DEF row
<1>6. saving' = [saving EXCEPT ![d] = save]
  BY <1>2
<1> HIDE DEF save
<1>7. /\ \A e \in Devices : saving'[e] = IF e = d THEN save ELSE saving[e]
      /\ \A e \in Devices, h \in Hosts :
            host'[e][h] = IF e = d /\ h = g THEN row ELSE host[e][h]
  BY <1>3, <1>6 DEF RecordsInv
<1>8. NextEdit(g, row)
  <2>1. ASSUME NEW e \in Devices, InSave(saving'[e], row)
        PROVE  saving'[e].host = g /\ saving'[e].tags = row.chosen
    <3>1. CASE e = d
      BY <1>4, <1>7, <3>1
    <3>2. CASE e # d
      <4>1. saving[e] # NoSave /\ saving[e].edit = edits + 1
        BY <1>4, <1>7, <2>1, <3>2 DEF InSave
      <4>2. saving[e].edit <= edits
        BY <4>1 DEF TagsInv, SavesOK
      <4> QED
        BY <4>1, <4>2, EditsTyped
    <3> QED
      BY <3>1, <3>2
  <2> QED
    BY <1>1, <1>4, <2>1 DEF NextEdit
<1>9. SavesOK' /\ CopiesOK'
  <2>1. \A e \in Devices, h \in Hosts : SameEdit(h, host'[e][h]) \/ NextEdit(h, host'[e][h])
    BY <1>7, <1>8, HostCopied DEF SameEdit
  <2>2. \A e \in Devices :
          \/ saving'[e] \in {saving[e], NoSave}
          \/ e = d /\ saving'[e].edit = edits + 1 /\ edits' = edits + 1
    BY <1>1, <1>4, <1>7
  <2> QED
    BY <1>1, <2>1, <2>2, CopiesGoOn DEF TagsInv
<1>10. SettledOK'
  <2>1. ASSUME NEW e \in Devices, NEW h \in Hosts
        PROVE  Settled(host'[e][h], flawed') \/ InSave(saving'[e], host'[e][h])
    <3>1. CASE e = d /\ h = g
      BY <1>4, <1>5, <1>7, <3>1 DEF InSave
    <3>2. CASE e = d /\ h # g
      BY <1>1, <1>7, <3>2, Unchanging DEF InSave
    <3>3. CASE e # d
      BY <1>1, <1>7, <3>3, Unchanging
    <3> QED
      BY <3>1, <3>2, <3>3
  <2> QED
    BY <1>1, <2>1, Unchanging, SettledGoesOn DEF TagsInv
<1>11. TagsKnown'
  <2>1. \A e \in Devices, h \in Hosts : host'[e][h].tags \subseteq Exist(tag[e])
    BY <1>4, <1>7 DEF TagsInv, TagsKnown
  <2> QED
    BY <1>1, <2>1, Unchanging, TagsStayKnown DEF TagsInv
<1> QED
  BY <1>9, <1>10, <1>11 DEF TagsInv

LEMMA SaveTagsKeepsTags ==
    ASSUME RecordsInv, TagsInv, NEW d \in Devices, SaveTags(d)
    PROVE  TagsInv'
<1> DEFINE g == saving[d].host
           tags == saving[d].tags \cap Active(tag[d])
           old == host[d][g]
           row == [old EXCEPT !.tags = tags]
<1>1. /\ saving[d] # NoSave /\ g \in Hosts /\ saving' = [saving EXCEPT ![d] = NoSave]
      /\ UNCHANGED <<now, edits, tag, vault, sess>> /\ [Next]_vars
      /\ host' = [host EXCEPT ![d] = [host[d] EXCEPT ![g] = row]]
      /\ flawed' = IF \/ old.edit # saving[d].edit
                      \/ ~ saving[d].tags \subseteq Active(tag[d])
                   THEN flawed \cup {old.edit} ELSE flawed
  BY EditsTyped DEF SaveTags, Next
<1>2. old \in Copies(g) /\ old \in HostRows
  BY <1>1, HostCopied, CopyTyped
<1> HIDE DEF old, g
<1>3. row.edit = old.edit /\ row.chosen = old.chosen /\ row.tags = tags
  BY <1>2 DEF HostRows
<1> HIDE DEF row
<1>4. /\ \A e \in Devices : saving'[e] = IF e = d THEN NoSave ELSE saving[e]
      /\ \A e \in Devices, h \in Hosts :
            host'[e][h] = IF e = d /\ h = g THEN row ELSE host[e][h]
  BY <1>1 DEF RecordsInv
<1>5. Settled(row, flawed')
  <2>1. CASE old.edit = saving[d].edit /\ saving[d].tags \subseteq Active(tag[d])
    <3>1. old.chosen = saving[d].tags
      BY <1>1, <1>2, <2>1 DEF TagsInv, CopiesOK, InSave
    <3> QED
      BY <1>3, <2>1, <3>1 DEF Settled
  <2>2. CASE ~ (old.edit = saving[d].edit /\ saving[d].tags \subseteq Active(tag[d]))
    BY <1>1, <1>3, <2>2 DEF Settled
  <2> QED
    BY <2>1, <2>2
<1>6. SavesOK' /\ CopiesOK'
  <2>1. \A e \in Devices, h \in Hosts : SameEdit(h, host'[e][h])
    BY <1>2, <1>3, <1>4, HostCopied DEF SameEdit
  <2>2. \A e \in Devices : saving'[e] \in {saving[e], NoSave}
    BY <1>4
  <2> QED
    BY <1>1, <2>1, <2>2, CopiesGoOn DEF TagsInv
<1>7. SettledOK'
  <2>1. flawed \subseteq flawed' /\ \A x : Settled(x, flawed) => Settled(x, flawed')
    BY <1>1 DEF Settled
  <2>2. ASSUME NEW e \in Devices, NEW h \in Hosts
        PROVE  Settled(host'[e][h], flawed') \/ InSave(saving'[e], host'[e][h])
    <3>1. CASE e = d /\ h = g
      BY <1>4, <1>5, <3>1
    <3>2. CASE e = d /\ h # g
      <4>1. ~ InSave(saving[d], host[d][h])
        BY <3>2, HostCopied DEF TagsInv, CopiesOK, g
      <4> QED
        BY <1>4, <2>1, <3>2, <4>1, Unchanging
    <3>3. CASE e # d
      BY <1>4, <2>1, <3>3, Unchanging
    <3> QED
      BY <3>1, <3>2, <3>3
  <2> QED
    BY <1>1, <2>1, <2>2, Unchanging, SettledGoesOn DEF TagsInv
<1>8. TagsKnown'
  <2>1. \A e \in Devices, h \in Hosts : host'[e][h].tags \subseteq Exist(tag[e])
    BY <1>3, <1>4 DEF TagsInv, TagsKnown
  <2> QED
    BY <1>1, <2>1, Unchanging, TagsStayKnown DEF TagsInv
<1> QED
  BY <1>6, <1>7, <1>8 DEF TagsInv

\* An edit of a tag's row: a tag that exists goes on existing, active or not.
LEMMA TagEdited ==
    ASSUME RecordsInv, TagsInv, NEW d \in Devices, NEW t \in Tags, NEW row,
           Exists(row), tag' = [tag EXCEPT ![d][t] = row], NEW e \in Devices
    PROVE  /\ Exist(tag[e]) \subseteq Exist(tag'[e])
           /\ Active(tag'[e]) \subseteq Exist(tag'[e])
<1>1. tag' = [tag EXCEPT ![d] = [tag[d] EXCEPT ![t] = row]]
  OBVIOUS
<1>2. \A x \in Tags : tag'[e][x] = IF e = d /\ x = t THEN row ELSE tag[e][x]
  BY <1>1 DEF RecordsInv
<1>3. Active(tag[e]) \subseteq Exist(tag[e])
  BY DEF TagsInv, TagsKnown
<1> QED
  BY <1>2, <1>3 DEF Active, Exist

LEMMA StampExists ==
    ASSUME RecordsInv, NEW d \in Devices, NEW t \in Tags
    PROVE  LocalStamp(d, tag[d][t].stamp) # Never
<1>1. tag[d][t].stamp \in Stamps
  BY DEF RecordsInv, GoodTags, TagRows
<1>2. tag[d][t].stamp.version \in Nat
  BY <1>1, StampNumbers
<1>3. /\ LocalStamp(d, tag[d][t].stamp).version = tag[d][t].stamp.version + 1
      /\ Never.version = 0
  BY DEF LocalStamp, Never
<1>4. tag[d][t].stamp.version + 1 # 0
  BY <1>2
<1> QED
  BY <1>3, <1>4

LEMMA SaveTagKeepsTags ==
    ASSUME RecordsInv, TagsInv, NEW d \in Devices, NEW t \in Tags, SaveTag(d, t)
    PROVE  TagsInv'
<1>1. /\ edits' = edits + 1 /\ UNCHANGED <<now, host, saving, vault, sess, flawed>> /\ [Next]_vars
  BY DEF SaveTag, Edits, Next
<1>2. PICK name \in Names :
         tag' = [tag EXCEPT ![d][t] =
            [name |-> name, active |-> TRUE, stamp |-> LocalStamp(d, tag[d][t].stamp)]]
  BY DEF SaveTag
<1>3. Exists([name |-> name, active |-> TRUE, stamp |-> LocalStamp(d, tag[d][t].stamp)])
  BY StampExists DEF Exists
<1>4. \A e \in Devices : /\ Exist(tag[e]) \subseteq Exist(tag'[e])
                         /\ Active(tag'[e]) \subseteq Exist(tag'[e])
  BY <1>2, <1>3, TagEdited
<1>5. SavesOK' /\ CopiesOK'
  <2>1. \A e \in Devices : saving'[e] \in {saving[e], NoSave}
    BY <1>1
  <2> QED
    BY <1>1, <2>1, Unchanging, CopiesGoOn DEF TagsInv
<1>6. SettledOK'
  BY <1>1, Unchanging, SettledGoesOn DEF TagsInv
<1>7. TagsKnown'
  BY <1>1, <1>4, Unchanging, TagsStayKnown DEF TagsInv
<1> QED
  BY <1>5, <1>6, <1>7 DEF TagsInv

LEMMA DeleteTagKeepsTags ==
    ASSUME RecordsInv, TagsInv, NEW d \in Devices, NEW t \in Tags, DeleteTag(d, t)
    PROVE  TagsInv'
<1>1. /\ edits' = edits + 1 /\ saving[d] = NoSave
      /\ UNCHANGED <<now, saving, vault, sess, flawed>> /\ [Next]_vars
  BY DEF DeleteTag, Edits, Next
<1> DEFINE row(h) ==
      [edit |-> edits + 1, at |-> now,
       chosen |-> host[d][h].tags \ {t}, tags |-> host[d][h].tags \ {t},
       stamp |-> LocalStamp(d, host[d][h].stamp)]
<1>2. \A e \in Devices, h \in Hosts : /\ host'[e][h] \in {host[e][h], row(h)}
                                      /\ e # d => host'[e][h] = host[e][h]
  BY DEF DeleteTag, RecordsInv
<1>3. \A h \in Hosts : /\ row(h).edit = edits + 1 /\ row(h).chosen = row(h).tags
                       /\ row(h).tags = host[d][h].tags \ {t}
  OBVIOUS
<1> HIDE DEF row
<1>4. \A e \in Devices : /\ Exist(tag[e]) \subseteq Exist(tag'[e])
                         /\ Active(tag'[e]) \subseteq Exist(tag'[e])
  <2> DEFINE deleted ==
        [name |-> tag[d][t].name, active |-> FALSE, stamp |-> LocalStamp(d, tag[d][t].stamp)]
  <2>1. tag' = [tag EXCEPT ![d][t] = deleted]
    BY DEF DeleteTag
  <2>2. Exists(deleted)
    BY StampExists DEF Exists
  <2> QED
    BY <2>1, <2>2, TagEdited
<1>5. SavesOK' /\ CopiesOK'
  <2>1. \A e \in Devices : saving'[e] = saving[e] /\ saving'[e] \in {saving[e], NoSave}
    BY <1>1
  <2>2. ASSUME NEW h \in Hosts, NEW e \in Devices, InSave(saving'[e], row(h)) PROVE FALSE
    <3>1. saving[e] # NoSave /\ saving[e].edit = edits + 1
      BY <1>3, <2>1, <2>2 DEF InSave
    <3>2. saving[e].edit <= edits
      BY <3>1 DEF TagsInv, SavesOK
    <3> QED
      BY <3>1, <3>2, EditsTyped
  <2>3. \A e \in Devices, h \in Hosts : SameEdit(h, host'[e][h]) \/ NextEdit(h, host'[e][h])
    BY <1>1, <1>2, <1>3, <2>2, HostCopied DEF SameEdit, NextEdit
  <2>4. edits' \in {edits, edits + 1}
    BY <1>1
  <2> QED
    BY <1>1, <2>1, <2>3, <2>4, CopiesGoOn DEF TagsInv
<1>6. SettledOK'
  <2>1. ASSUME NEW e \in Devices, NEW h \in Hosts
        PROVE  Settled(host'[e][h], flawed') \/ InSave(saving'[e], host'[e][h])
    <3>1. CASE host'[e][h] = host[e][h]
      BY <1>1, <3>1, Unchanging
    <3>2. CASE host'[e][h] = row(h)
      BY <1>3, <3>2 DEF Settled
    <3> QED
      BY <1>2, <3>1, <3>2
  <2> QED
    BY <1>1, <2>1, Unchanging, SettledGoesOn DEF TagsInv
<1>7. TagsKnown'
  <2>1. \A e \in Devices, h \in Hosts : host'[e][h].tags \subseteq Exist(tag[e])
    BY <1>2, <1>3 DEF TagsInv, TagsKnown
  <2> QED
    BY <1>1, <1>4, <2>1, TagsStayKnown DEF TagsInv
<1> QED
  BY <1>5, <1>6, <1>7 DEF TagsInv

\* A merged tag exists if the device or the envelope knows it; a merged host has the tags
\* that its device now knows, and has lost none but those that are deleted here.
LEMMA ImportKeepsTags ==
    ASSUME RecordsInv, TagsInv, NEW d \in Devices, Import(d)
    PROVE  TagsInv'
<1>1. /\ UNCHANGED <<now, edits, saving, vault>> /\ [Next]_vars
      /\ host' = [host EXCEPT ![d] = MergedHosts(d)] /\ tag' = [tag EXCEPT ![d] = MergedTags(d)]
      /\ flawed' = flawed \cup {vault.hosts[h].edit : h \in Stripped(d)}
  BY DEF Import, Next, Sync
<1>2. /\ \A e \in Devices, h \in Hosts :
            host'[e][h] = IF e = d THEN MergedHosts(d)[h] ELSE host[e][h]
      /\ \A e \in Devices : tag'[e] = IF e = d THEN MergedTags(d) ELSE tag[e]
  BY <1>1 DEF RecordsInv
<1>3. \A e \in Devices, h \in Hosts : sess'[e].hosts[h] \in {sess[e].hosts[h], NoHost}
  <2>1. sess' = [sess EXCEPT ![d] = [Idle EXCEPT !.phase = "export", !.fresh = TRUE]]
    BY DEF Import
  <2>2. [Idle EXCEPT !.phase = "export", !.fresh = TRUE].hosts = [h \in Hosts |-> NoHost]
    BY DEF Idle
  <2> QED
    BY <2>1, <2>2 DEF RecordsInv
<1>4. ASSUME NEW t \in Tags
      PROVE  /\ Exists(tag[d][t]) \/ Exists(vault.tags[t]) => Exists(MergedTags(d)[t])
             /\ MergedTags(d)[t].active => Exists(MergedTags(d)[t])
  <2> DEFINE new == vault.tags[t]
             old == tag[d][t]
  <2>1. new \in TagRows /\ old \in TagRows /\ new.stamp \in Stamps /\ old.stamp \in Stamps
    BY DEF RecordsInv, GoodTags, TagRows
  <2>2. CASE TakesTag(d, t)
    <3>1. new.stamp # Never
      BY <2>1, <2>2, NewerStamp DEF TakesTag
    <3> DEFINE stamp == [new.stamp EXCEPT !.device = WrittenBy(d, old.stamp, new.stamp)]
    <3>2. MergedTags(d)[t] = [new EXCEPT !.stamp = stamp]
      BY <2>1, <2>2 DEF MergedTags, TagRows
    <3>3. MergedTags(d)[t].stamp = stamp
      BY <2>1, <3>2 DEF TagRows
    <3>4. new.stamp \in [time : 0 .. MaxTime + Skew, version : 1 .. MaxEdits, device : Devices]
      BY <2>1, <3>1 DEF Stamps
    <3>5. stamp.version = new.stamp.version /\ new.stamp.version # 0
      BY <3>4, BoundsAssumption
    <3>6. stamp # Never
      BY <3>5 DEF Never
    <3> QED
      BY <3>3, <3>6 DEF Exists
  <2>3. CASE ~ TakesTag(d, t)
    <3>1. MergedTags(d)[t] = old
      BY <2>3 DEF MergedTags
    <3>2. old.active => Exists(old)
      BY DEF TagsInv, TagsKnown, Active, Exist
    <3>3. Exists(new) => Exists(old)
      <4> SUFFICES ASSUME new.stamp # Never, old.stamp = Never PROVE FALSE
        BY DEF Exists
      <4>1. new.stamp.version # 0 /\ new.stamp.version \in Nat /\ new.stamp.time \in Nat
        BY <2>1, BoundsAssumption, StampNumbers DEF Stamps
      <4>2. old.stamp.version = 0 /\ old.stamp.time = 0
        BY DEF Never
      <4>3. NewerThan(new.stamp, old.stamp)
        BY <4>1, <4>2 DEF NewerThan
      <4> QED
        BY <2>3, <4>3 DEF TakesTag
    <3> QED
      BY <3>1, <3>2, <3>3
  <2> QED
    BY <2>2, <2>3
<1>5. \A e \in Devices : /\ Exist(tag[e]) \subseteq Exist(tag'[e])
                         /\ Active(tag'[e]) \subseteq Exist(tag'[e])
  BY <1>2, <1>4 DEF TagsInv, TagsKnown, Exist, Active
<1>6. ASSUME NEW h \in Hosts
      PROVE  /\ SameEdit(h, MergedHosts(d)[h])
             /\ MergedHosts(d)[h].tags \subseteq Exist(tag'[d])
             /\ \/ Settled(MergedHosts(d)[h], flawed')
                \/ InSave(saving'[d], MergedHosts(d)[h])
  <2> DEFINE new == vault.hosts[h]
             old == host[d][h]
             row == MergedHosts(d)[h]
  <2>1. /\ new \in HostRows /\ old \in HostRows /\ new \in Copies(h) /\ old \in Copies(h)
    BY HostCopied, CopyTyped
  <2>2. CASE TakesHost(d, h)
    <3> DEFINE stamp == [new.stamp EXCEPT !.device = WrittenBy(d, old.stamp, new.stamp)]
    <3>1. row = [new EXCEPT !.tags = new.tags \cap KnownTags(d), !.stamp = stamp]
      BY <2>1, <2>2 DEF MergedHosts, HostRows
    <3>2. row.edit = new.edit /\ row.chosen = new.chosen /\ row.tags = new.tags \cap KnownTags(d)
      BY <2>1, <3>1 DEF HostRows
    <3> HIDE DEF row
    <3>3. KnownTags(d) \subseteq Exist(tag'[d])
      BY <1>2, <1>5 DEF KnownTags
    <3>4. Settled(new, flawed)
      BY DEF TagsInv, SettledOK
    <3>5. Settled(row, flawed')
      <4>1. CASE h \in Stripped(d)
        BY <1>1, <3>2, <4>1 DEF Settled
      <4>2. CASE h \notin Stripped(d)
        <5>1. ASSUME NEW t \in new.tags PROVE t \in KnownTags(d)
          <6>1. t \in Tags /\ Exists(vault.tags[t])
            BY <2>1 DEF TagsInv, TagsKnown, Exist, HostRows
          <6>2. Exists(MergedTags(d)[t])
            BY <1>4, <6>1
          <6> QED
            BY <2>2, <4>2, <6>1, <6>2 DEF Stripped, KnownTags, Active
        <5>2. row.tags = new.tags
          BY <3>2, <5>1
        <5> QED
          BY <1>1, <3>2, <3>4, <5>2 DEF Settled
      <4> QED
        BY <4>1, <4>2
    <3> QED
      BY <2>1, <3>2, <3>3, <3>5 DEF SameEdit, row
  <2>3. CASE ~ TakesHost(d, h)
    <3>1. row = old
      BY <2>3 DEF MergedHosts
    <3>2. old.tags \subseteq Exist(tag'[d])
      BY <1>5 DEF TagsInv, TagsKnown
    <3>3. Settled(old, flawed') \/ InSave(saving'[d], old)
      BY <1>1, Unchanging DEF Settled
    <3> QED
      BY <2>1, <3>1, <3>2, <3>3 DEF SameEdit
  <2> QED
    BY <2>2, <2>3
<1>7. SavesOK' /\ CopiesOK'
  <2>1. \A e \in Devices : saving'[e] \in {saving[e], NoSave}
    BY <1>1
  <2>2. \A e \in Devices, h \in Hosts : SameEdit(h, host'[e][h])
    BY <1>2, <1>6, HostCopied DEF SameEdit
  <2> QED
    BY <1>1, <2>1, <2>2, CopiesGoOn DEF TagsInv
<1>8. SettledOK'
  <2>1. \A x : Settled(x, flawed) => Settled(x, flawed')
    BY <1>1 DEF Settled
  <2>2. \A e \in Devices, h \in Hosts :
          Settled(host'[e][h], flawed') \/ InSave(saving'[e], host'[e][h])
    <3> SUFFICES ASSUME NEW e \in Devices, NEW h \in Hosts
                 PROVE  Settled(host'[e][h], flawed') \/ InSave(saving'[e], host'[e][h])
      OBVIOUS
    <3>1. CASE e = d
      <4>1. host'[e][h] = MergedHosts(d)[h]
        BY <1>2, <3>1
      <4>2. Settled(MergedHosts(d)[h], flawed') \/ InSave(saving'[d], MergedHosts(d)[h])
        BY <1>6
      <4> QED
        BY <3>1, <4>1, <4>2
    <3>2. CASE e # d
      <4>1. host'[e] = host[e] /\ saving'[e] = saving[e]
        BY <1>1, <1>2, <3>2
      <4>2. Settled(host[e][h], flawed) \/ InSave(saving[e], host[e][h])
        BY DEF TagsInv, SettledOK
      <4> QED
        BY <2>1, <4>1, <4>2
    <3> QED
      BY <3>1, <3>2
  <2> QED
    BY <1>1, <1>3, <2>2, SettledGoesOn DEF TagsInv
<1>9. TagsKnown'
  <2>1. \A e \in Devices, h \in Hosts : host'[e][h].tags \subseteq Exist(tag'[e])
    BY <1>2, <1>6 DEF TagsInv, TagsKnown
  <2> QED
    BY <1>1, <1>5, <2>1, TagsStayKnown DEF TagsInv
<1> QED
  BY <1>7, <1>8, <1>9 DEF TagsInv

LEMMA ExportKeepsTags ==
    ASSUME RecordsInv, TagsInv, NEW d \in Devices, ExportHosts(d) \/ Crash(d)
    PROVE  TagsInv'
<1>1. /\ UNCHANGED <<now, edits, host, tag, vault>> /\ [Next]_vars
      /\ flawed' = IF saving[d] # NoSave THEN flawed \cup {saving[d].edit} ELSE flawed
      /\ \A e \in Devices : saving'[e] = saving[e] \/ (e = d /\ saving'[e] = NoSave)
  BY DEF ExportHosts, Crash, RecordsInv, Next, Sync
<1>2. \A x : Settled(x, flawed) => Settled(x, flawed')
  BY <1>1 DEF Settled
<1>3. \A h \in Hosts : Settled(host[d][h], flawed')
  <2> SUFFICES ASSUME NEW h \in Hosts PROVE Settled(host[d][h], flawed')
    OBVIOUS
  <2>1. InSave(saving[d], host[d][h]) => host[d][h].edit \in flawed'
    BY <1>1 DEF InSave
  <2> QED
    BY <1>2, <2>1, Unchanging DEF Settled
<1>4. \A e \in Devices, h \in Hosts :
        \/ sess'[e].hosts[h] \in {sess[e].hosts[h], NoHost}
        \/ Settled(sess'[e].hosts[h], flawed')
  <2>1. CASE ExportHosts(d)
    <3>1. sess[d] \in GoodSessions(edits, now) /\ sess \in [Devices -> GoodSessions(edits, now)]
      BY DEF RecordsInv
    <3>2. sess' = [sess EXCEPT ![d] =
                     [sess[d] EXCEPT !.phase = "push", !.at = now, !.hosts = host[d]]]
      BY <2>1 DEF ExportHosts
    <3>3. [sess[d] EXCEPT !.phase = "push", !.at = now, !.hosts = host[d]].hosts = host[d]
      BY <3>1 DEF GoodSessions
    <3>4. \A e \in Devices : sess'[e].hosts = IF e = d THEN host[d] ELSE sess[e].hosts
      BY <3>1, <3>2, <3>3
    <3> QED
      BY <1>3, <3>4
  <2>2. CASE Crash(d)
    <3>1. sess' = [sess EXCEPT ![d] = Idle] /\ Idle.hosts = [h \in Hosts |-> NoHost]
      BY <2>2 DEF Crash, Idle
    <3> QED
      BY <3>1 DEF RecordsInv
  <2> QED
    BY <2>1, <2>2
<1>5. SavesOK' /\ CopiesOK'
  <2>1. \A e \in Devices : saving'[e] \in {saving[e], NoSave}
    BY <1>1
  <2> QED
    BY <1>1, <2>1, Unchanging, CopiesGoOn DEF TagsInv
<1>6. SettledOK'
  <2>1. \A e \in Devices, h \in Hosts :
          Settled(host'[e][h], flawed') \/ InSave(saving'[e], host'[e][h])
    BY <1>1, <1>2, <1>3, Unchanging
  <2> QED
    BY <1>1, <1>4, <2>1, SettledGoesOn DEF TagsInv
<1>7. TagsKnown'
  BY <1>1, Unchanging, TagsStayKnown DEF TagsInv
<1> QED
  BY <1>5, <1>6, <1>7 DEF TagsInv

LEMMA TagsStep == RecordsInv /\ TagsInv /\ [Next]_vars => TagsInv'
<1> SUFFICES ASSUME RecordsInv, TagsInv, [Next]_vars PROVE TagsInv'
  OBVIOUS
<1>1. ASSUME NEW d \in Devices, Push(d) PROVE TagsInv'
  <2>1. UNCHANGED <<edits, host, tag, saving, flawed>>
        /\ vault' = [hosts |-> sess[d].hosts, tags |-> tag[d]]
    BY <1>1 DEF Push
  <2>2. ASSUME NEW e \in Devices PROVE [sess[e] EXCEPT !.fresh = FALSE].hosts = sess[e].hosts
    BY DEF RecordsInv, GoodSessions
  <2>3. \A e \in Devices : sess'[e].hosts = IF e = d THEN Idle.hosts ELSE sess[e].hosts
    BY <1>1, <2>2 DEF Push
  <2>4. \A e \in Devices, h \in Hosts : sess'[e].hosts[h] \in {sess[e].hosts[h], NoHost}
    BY <2>3 DEF Idle
  <2> QED
    BY <2>1, <2>4, QuietKeepsTags
<1>2. ASSUME NEW d \in Devices, Conflict(d) PROVE TagsInv'
  <2>1. UNCHANGED <<edits, host, tag, saving, flawed, vault>> /\ sess' = [sess EXCEPT ![d] = Idle]
    BY <1>2 DEF Conflict
  <2>2. \A e \in Devices : sess'[e].hosts = sess[e].hosts \/ sess'[e].hosts = Idle.hosts
    BY <2>1 DEF RecordsInv
  <2>3. \A e \in Devices, h \in Hosts : sess'[e].hosts[h] \in {sess[e].hosts[h], NoHost}
    BY <2>2 DEF Idle
  <2> QED
    BY <2>1, <2>3, QuietKeepsTags
<1>3. CASE Tick \/ UNCHANGED vars
  <2>1. UNCHANGED <<edits, host, tag, saving, flawed, vault, sess>>
    BY <1>3 DEF Tick, vars
  <2> QED
    BY <2>1, QuietKeepsTags
<1>4. ASSUME NEW d \in Devices, Sync(d) PROVE TagsInv'
  BY <1>1, <1>2, <1>4, ImportKeepsTags, ExportKeepsTags DEF Sync
<1>5. ASSUME NEW d \in Devices, SaveTags(d) \/ Crash(d) PROVE TagsInv'
  BY <1>5, SaveTagsKeepsTags, ExportKeepsTags
<1>6. ASSUME NEW d \in Devices, NEW h \in Hosts, SaveHost(d, h) PROVE TagsInv'
  BY <1>6, SaveHostKeepsTags
<1>7. ASSUME NEW d \in Devices, NEW t \in Tags, SaveTag(d, t) \/ DeleteTag(d, t) PROVE TagsInv'
  BY <1>7, SaveTagKeepsTags, DeleteTagKeepsTags
<1> QED
  BY <1>3, <1>4, <1>5, <1>6, <1>7 DEF Next

-------------------------------------------------------------------------------
(* Theorems *)

\* Rows, stamps and sessions keep their types: a merge never leaves a stamp without a
\* device, nor one outside the clocks.
THEOREM TypeCorrect == Spec => []TypeOK
<1>1. RecordsInv => TypeOK
  BY DEF RecordsInv, TypeOK, GoodHosts, GoodTags, GoodSessions, Sessions
<1> QED
  BY <1>1, RecordsInit, RecordsStep, PTL DEF Spec

\* On no device is a host replaced by an edit made earlier than its own by more than the
\* clocks are apart, for any number of devices and edits.
THEOREM LaterEditsWin == Spec => LaterEditWins
<1>1. RecordsInv /\ [Next]_vars => [InOrder]_vars
  BY RecordsStep
<1>2. Spec => [][InOrder]_vars
  BY <1>1, RecordsInit, RecordsStep, PTL DEF Spec
<1> QED
  BY <1>2 DEF LaterEditWins, InOrder

\* Copies of a host with one stamp are of one edit, for any number of devices and edits,
\* if the clocks show the same time.  (Clocks that are apart can bring a third device's
\* edit of a lower version in between, after which a device may mint a stamp again.)
THEOREM StampsNameEdits == ClocksInStep => (Spec => []StampNamesEdit)
<1> SUFFICES ASSUME ClocksInStep PROVE Spec => []StampNamesEdit
  OBVIOUS
<1>1. Init => StampInv
  <2> SUFFICES ASSUME Init PROVE StampInv
    OBVIOUS
  <2>1. \A h \in Hosts : \A row \in Copies(h) : row = NoHost
    BY DEF Init, Copies, Idle
  <2>2. \A d \in Devices, h \in Hosts : host[d][h] = NoHost
    BY DEF Init
  <2>3. NoHost.edit = 0 /\ NoHost.stamp = Never /\ Never.time = 0 /\ Never.version = 0
    BY DEF NoHost, Never
  <2>4. ASSUME NEW d \in Devices PROVE 0 <= now + Offset[d]
    <3>1. Offset[d] \in 0 .. Skew /\ now = 0
      BY ClocksAssumption DEF Init
    <3> QED
      BY <3>1
  <2> QED
    BY <2>1, <2>2, <2>3, <2>4 DEF StampInv, NotAfter
<1>2. RecordsInv /\ StampInv /\ [Next]_vars => StampInv'
  BY RecordsStep, StampStep
<1>3. StampInv => StampNamesEdit
  BY DEF StampInv, StampNamesEdit
<1> QED
  BY <1>1, <1>2, <1>3, RecordsInit, RecordsStep, PTL DEF Spec

\* A host has the tags that its user chose with its columns, on every device, in every
\* session and in the envelope, for any number of devices, hosts, tags and edits, unless a
\* save is under way, some step took the two apart, or one of the tags was deleted.
THEOREM TagsStayAsSaved == Spec => []TagsAsSaved
<1>1. Init => TagsInv
  <2> SUFFICES ASSUME Init PROVE TagsInv
    OBVIOUS
  <2>1. /\ \A h \in Hosts : \A row \in Copies(h) : row = NoHost
        /\ \A d \in Devices, h \in Hosts : host[d][h] = NoHost /\ sess[d].hosts[h] = NoHost
        /\ \A h \in Hosts : vault.hosts[h] = NoHost
    BY DEF Init, Copies, Idle
  <2>2. NoHost.edit = 0 /\ NoHost.tags = {} /\ NoHost.chosen = {}
    BY DEF NoHost
  <2>3. edits = 0 /\ \A d \in Devices : saving[d] = NoSave
    BY DEF Init
  <2>4. Active(vault.tags) = {} /\ \A d \in Devices : Active(tag[d]) = {}
    BY DEF Init, Active, NoTag
  <2>5. SavesOK
    BY <2>3 DEF SavesOK
  <2>6. Settled(NoHost, flawed)
    BY <2>2 DEF Settled
  <2>7. SettledOK
    BY <2>1, <2>6 DEF SettledOK
  <2>8. CopiesOK
    <3>1. 0 <= edits
      BY <2>3
    <3>2. \A d \in Devices : \A row : ~ InSave(saving[d], row)
      BY <2>3 DEF InSave
    <3> QED
      BY <2>1, <2>2, <3>1, <3>2 DEF CopiesOK
  <2>9. TagsKnown
    BY <2>1, <2>2, <2>4 DEF TagsKnown
  <2> QED
    BY <2>5, <2>7, <2>8, <2>9 DEF TagsInv
<1>2. TagsInv => TagsAsSaved
  <2> SUFFICES ASSUME TagsInv, NEW h \in Hosts, NEW row \in Copies(h)
               PROVE  \/ row.tags = row.chosen
                      \/ row.edit \in flawed
                      \/ \E d \in Devices : saving[d].host = h /\ saving[d].edit = row.edit
    BY DEF TagsAsSaved
  <2>1. Settled(row, flawed) \/ \E d \in Devices : InSave(saving[d], row)
    BY DEF TagsInv, SettledOK, Copies
  <2>2. \A d \in Devices : InSave(saving[d], row) => saving[d].host = h /\ saving[d].edit = row.edit
    BY DEF TagsInv, CopiesOK, InSave
  <2> QED
    BY <2>1, <2>2 DEF Settled
<1> QED
  BY <1>1, <1>2, TagsStep, RecordsInit, RecordsStep, PTL DEF Spec
===============================================================================
