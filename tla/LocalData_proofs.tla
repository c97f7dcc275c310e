---------------------------- MODULE LocalData_proofs ----------------------------
(***************************************************************************)
(* Proofs about what the program keeps locally.                            *)
(*   TerminalCapture, for any output, any size kept and any number of      *)
(* crashes and failed writes: a sink that accepts output has all of it, in *)
(* its order, and what a save reported as saved is in the capture after    *)
(* any startup.                                                            *)
(*   LocalCatalog, for any rows, tables and windows: what a deletion takes *)
(* is let go of by every live row, whatever editors are open, a row that   *)
(* changes is stamped, and the favorites are those that are shown.         *)
(*   TerminalOutput, for any streams, marker and bounds: the pieces in     *)
(* which output arrives do not matter.                                     *)
(***************************************************************************)
EXTENDS LocalData, SequenceLemmas, FiniteSetTheorems, SequenceTheorems, TLAPS

-----------------------------------------------------------------------------
(* The invariant of the captures.                                            *)

\* n chunks of output that follow the b-th.
Run(b, n) == [i \in 1 .. n |-> b + i]

\* A file that starts with a header and n chunks of such output, and what may follow them.
Holds(f, b, n) ==
  /\ f \in Seq(Records) /\ Len(f) >= n + 1 /\ f[1] = Header
  /\ \A i \in 2 .. n + 1 : f[i] = Chunk(i - 2, b + i - 1)
Open(f, b, n) == Holds(f, b, n) /\ Len(f) = n + 1
TornAt(f, b, n) == Holds(f, b, n) /\ Len(f) = n + 2 /\ f[n + 2] = Torn
Complete(f, b, n) == Holds(f, b, n) /\ Len(f) = n + 2 /\ f[n + 2] = Footer(n, Run(b, n))
Shaped(f, b, n) == Open(f, b, n) \/ TornAt(f, b, n) \/ Complete(f, b, n)

\* The file of the session, by either name, when there is one.
Exchanged == disk.backup # NoFile
File == IF Exchanged THEN disk.backup ELSE disk.capture
Lost == recording.saved = -1

\* A checkpoint covers no more than what is on the disk, nor does a save report more.
Checkpointed(n) ==
  disk.state = NoFile \/ \E k \in 0 .. n : disk.state = Run(0, k) /\ k + 1 <= disk.durable
SavedWithin(b, n) ==
  recording.saved > 0 /\ MaxKept > 0 =>
    disk.row # "none" /\ recording.saved <= b + n /\ recording.saved + 1 <= b + disk.durable
FileKept(b, n) ==
  /\ Shaped(File, b, n) /\ disk.durable <= Len(File) /\ b + n <= recording.output
  /\ Checkpointed(n) /\ SavedWithin(b, n)
  /\ disk.row = "complete" => Complete(File, b, n) /\ disk.durable = Len(File)
  /\ b > 0 => /\ Complete(File, b, n) /\ disk.durable = Len(File) /\ disk.state = NoFile
              /\ MaxKept > 0 => n > 0
NothingWritten == disk.state = NoFile /\ disk.row # "complete"
NothingSaved == MaxKept > 0 => recording.saved = 0
Headless(f) == f = <<>> \/ f = <<Torn>>

Kept ==
  \/ File = NoFile /\ NothingWritten /\ NothingSaved
  \/ Headless(File) /\ app # "up" /\ disk.state = NoFile /\ disk.durable = Len(File)
     /\ disk.row # "complete" /\ NothingSaved
  \/ \E b, n \in Nat : FileKept(b, n)

\* What a crash left of an exchange that it cut.
CutExchange ==
  /\ disk.capture = NoFile
  /\ app \in {"down", "clean", "retain", "back"}
  /\ app \in {"retain", "back"} => disk.compact = NoFile /\ disk.backup = NoFile

\* A compacted capture ends like the one it replaces, and only a retention exchanges them.
Compacting ==
  /\ disk.compact # NoFile =>
       \/ app \in {"down", "footer", "sync", "unstate", "row", "clean"}
       \/ /\ Retaining
          /\ \E b, n \in Nat :
               /\ FileKept(b, n) /\ Complete(File, b, n) /\ n > MaxKept
               /\ Complete(disk.compact, b + n - MaxKept, MaxKept)
  /\ Exchanged => Retaining /\ disk.compact # NoFile /\ disk.capture = NoFile

\* The sink: what is written and what waits are the output, in its order.
Operations == IF sink.closing THEN <<"close">> ELSE <<"checkpoint">>
Stepping(n) ==
  CASE sink.step = "wait" -> /\ Open(disk.capture, 0, n)
                             /\ sink.queue = <<>> => sink.pending = <<>>
    [] sink.step = "drain" -> Open(disk.capture, 0, n)
    [] sink.step = "flush" -> Open(disk.capture, 0, n) /\ sink.queue = Operations
    [] sink.step = "sidecar" -> /\ Open(disk.capture, 0, n) /\ sink.queue = <<"checkpoint">>
                                /\ disk.durable = n + 1
    [] sink.step = "after" -> Open(disk.capture, 0, n) /\ sink.queue = <<"checkpoint">>
    [] sink.step = "sync" -> Complete(disk.capture, 0, n) /\ sink.queue = <<"close">>
    [] sink.step = "remove" -> /\ Complete(disk.capture, 0, n) /\ sink.queue = <<"close">>
                               /\ disk.durable = n + 2
    [] OTHER -> FALSE
Pending(n) ==
  \E m \in Nat : /\ sink.pending = Run(n, m) /\ n + m <= recording.output
                 /\ ~ sink.closing => n + m = recording.output
Sinking ==
  /\ sink.slot = "none" => File = NoFile /\ recording.output = 0
  /\ sink.slot = "opening" => File = NoFile /\ sink.step = "wait" /\ Pending(0)
  /\ sink.slot = "ready" => \E n \in Nat : FileKept(0, n) /\ Stepping(n) /\ Pending(n)
  /\ sink.slot = "closed" =>
       /\ ~ recording.active /\ disk.state = NoFile
       /\ \E b, n \in Nat : FileKept(b, n) /\ Complete(File, b, n) /\ disk.durable = n + 2
  /\ sink.closing => ~ recording.active
  /\ sink.queue \in {<<>>, <<"checkpoint">>, <<"close">>}
  /\ sink.queue = <<"checkpoint">> => ~ sink.closing
  /\ sink.queue = <<"close">> => sink.closing
  /\ sink.closing /\ sink.slot \in {"opening", "ready"} => sink.queue = <<"close">>
  /\ sink.queue # <<>> => sink.slot \in {"opening", "ready"} /\ save.pc = "maintain"
Quiet == sink.slot \in {"none", "closed", "failed"}
Saving ==
  /\ save.pc # "idle" /\ save.finished => ~ recording.active /\ (Quiet \/ sink.closing)
  /\ save.pc = "retain" => save.finished /\ Quiet

\* Startup: what it goes on to finish is an unfinished capture it accepted.
Starting ==
  /\ sink = NoSink /\ save = NoSave /\ ~ recording.active
  /\ app \in {"down", "unstate", "row"} /\ File # NoFile /\ ~ Lost => disk.durable = Len(File)
  /\ app \in {"footer", "sync", "unstate", "row"} => disk.row = "incomplete"
  /\ app = "footer" => \E b, n \in Nat : FileKept(b, n) /\ (Open(File, b, n) \/ TornAt(File, b, n))
  /\ app \in {"sync", "unstate", "row"} => \E b, n \in Nat : FileKept(b, n) /\ Complete(File, b, n)
  /\ app = "row" => disk.state = NoFile

Files == Seq(Records) \cup {NoFile}
Disks == [capture : Files, durable : Nat, state : Seq(Nat) \cup {NoFile}, compact : Files,
          backup : Files, row : {"none", "incomplete", "complete"}]
Sinks == [slot : {"none", "opening", "ready", "closed", "failed"}, closing : BOOLEAN,
          pending : Seq(Nat), queue : Seq({"checkpoint", "close"}),
          step : {"wait", "drain", "flush", "sidecar", "after", "sync", "remove"}]
Typed ==
  /\ disk \in Disks /\ sink \in Sinks
  /\ recording \in [active : BOOLEAN, output : 0 .. MaxOutput, saved : -1 .. MaxOutput]
  /\ recording.saved <= recording.output
  /\ save \in [pc : {"idle", "maintain", "retain"}, finished : BOOLEAN]
  /\ app \in {"up", "down", "footer", "sync", "unstate", "row", "clean", "retain", "back"}
  /\ capFaults \in 0 .. MaxFaults

CaptureInv ==
  /\ Typed
  /\ IF app = "up" THEN Sinking /\ Saving ELSE Starting
  /\ IF Lost THEN CutExchange ELSE Kept /\ Compacting

-----------------------------------------------------------------------------
(* What is read from a file, and what a write or a cut makes of it.          *)

LEMMA RunIs ==
  ASSUME NEW b \in Nat, NEW n \in Nat
  PROVE  /\ Run(b, n) \in Seq(Nat) /\ Len(Run(b, n)) = n
         /\ \A i \in 1 .. n : Run(b, n)[i] = b + i
  BY DEF Run

LEMMA RunsJoin ==
  ASSUME NEW b \in Nat, NEW n \in Nat, NEW m \in Nat
  PROVE  Run(b, n) \o Run(b + n, m) = Run(b, n + m)
<1> DEFINE s == Run(b, n)
           t == Run(b + n, m)
           u == Run(b, n + m)
<1>1. b + n \in Nat /\ n + m \in Nat
  OBVIOUS
<1>2. /\ s \in Seq(Nat) /\ Len(s) = n /\ \A i \in 1 .. n : s[i] = b + i
      /\ t \in Seq(Nat) /\ Len(t) = m /\ \A i \in 1 .. m : t[i] = b + n + i
      /\ u \in Seq(Nat) /\ Len(u) = n + m /\ \A i \in 1 .. n + m : u[i] = b + i
  BY <1>1, RunIs
<1> HIDE DEF s, t, u
<1>3. /\ s \o t \in Seq(Nat) /\ Len(s \o t) = n + m
      /\ \A i \in 1 .. n + m : (s \o t)[i] = IF i <= n THEN s[i] ELSE t[i - n]
  <2>1. /\ s \o t \in Seq(Nat) /\ Len(s \o t) = Len(s) + Len(t)
        /\ \A i \in 1 .. Len(s) + Len(t) : (s \o t)[i] = IF i <= Len(s) THEN s[i] ELSE t[i - Len(s)]
    BY <1>2, ConcatProperties
  <2>2. Len(s) = n /\ Len(t) = m
    BY <1>2
  <2> QED
    BY <2>1, <2>2, Zenon
<1>4. ASSUME NEW i \in 1 .. n + m PROVE (s \o t)[i] = u[i]
  <2>1. CASE i <= n
    BY <1>2, <1>3, <2>1
  <2>2. CASE i > n
    <3>1. i - n \in 1 .. m /\ b + n + (i - n) = b + i
      BY <2>2
    <3>2. t[i - n] = b + n + (i - n)
      BY <1>2, <3>1
    <3>3. ~ (i <= n)
      BY <2>2
    <3>4. (s \o t)[i] = IF i <= n THEN s[i] ELSE t[i - n]
      BY <1>3
    <3>5. u[i] = b + i
      BY <1>2
    <3> QED
      BY <3>1, <3>2, <3>3, <3>4, <3>5
  <2>3. i <= n \/ i > n
    OBVIOUS
  <2> QED
    BY <2>1, <2>2, <2>3 DEF s, t, u
<1>5. s \o t = u
  BY <1>2, <1>3, <1>4, SeqEqual
<1> QED
  BY <1>5 DEF s, t, u

LEMMA RecordsAre ==
  /\ Header \in Records /\ Torn \in Records
  /\ \A i \in Nat, d \in Nat : Chunk(i, d) \in Records
  /\ \A i \in Nat, s \in Seq(Nat) : Footer(i, s) \in Records
<1>1. <<>> \in Seq(Nat)
  OBVIOUS
<1>2. ASSUME NEW d \in Nat PROVE <<d>> \in Seq(Nat)
  OBVIOUS
<1> QED
  BY <1>1, <1>2 DEF Records, Header, Torn, Chunk, Footer

LEMMA Places ==
  ASSUME NEW f, NEW b \in Nat, NEW n \in Nat, Shaped(f, b, n)
  PROVE  /\ f \in Seq(Records) /\ Len(f) \in {n + 1, n + 2} /\ f[1] = Header
         /\ \A i \in 2 .. n + 1 : f[i] = Chunk(i - 2, b + i - 1)
         /\ \A i \in 1 .. Len(f) : f[i].kind = "chunk" <=> i \in 2 .. n + 1
         /\ Open(f, b, n) \/ TornAt(f, b, n) \/ Complete(f, b, n)
<1>1. /\ f \in Seq(Records) /\ Len(f) \in {n + 1, n + 2} /\ f[1] = Header
      /\ \A i \in 2 .. n + 1 : f[i] = Chunk(i - 2, b + i - 1)
  BY DEF Shaped, Open, TornAt, Complete, Holds
<1>2. Len(f) = n + 2 => f[n + 2].kind # "chunk"
  BY DEF Shaped, Open, TornAt, Complete, Footer, Torn
<1>3. ASSUME NEW i \in 2 .. n + 1 PROVE f[i].kind = "chunk"
  <2>1. f[i] = Chunk(i - 2, b + i - 1)
    BY <1>1
  <2> QED
    BY <2>1 DEF Chunk
<1>4. f[1].kind # "chunk"
  BY <1>1 DEF Header
<1>5. ASSUME NEW i \in 1 .. Len(f) PROVE f[i].kind = "chunk" <=> i \in 2 .. n + 1
  <2>1. i = 1 \/ i \in 2 .. n + 1 \/ (i = n + 2 /\ Len(f) = n + 2)
    BY <1>1
  <2> QED
    BY <1>2, <1>3, <1>4, <2>1
<1> QED
  BY <1>1, <1>5 DEF Shaped

\* A file reads back as the chunks it holds, and counts as complete when it ends in their
\* footer.
LEMMA ReadsBack ==
  ASSUME NEW f, NEW b \in Nat, NEW n \in Nat, Shaped(f, b, n)
  PROVE  /\ HasHeader(f) /\ Whole(f) = n /\ DataOf(f, n) = Run(b, n) /\ Written(f) = Run(b, n)
         /\ Closes(f, n) <=> Complete(f, b, n)
<1>0. /\ f \in Seq(Records) /\ Len(f) \in {n + 1, n + 2} /\ f[1] = Header
      /\ \A i \in 2 .. n + 1 : f[i] = Chunk(i - 2, b + i - 1)
      /\ \A i \in 1 .. Len(f) : f[i].kind = "chunk" <=> i \in 2 .. n + 1
  BY Places
<1>1. HasHeader(f)
  BY <1>0, CaptureAssumption DEF HasHeader, Header
<1> DEFINE Good == {m \in 0 .. Len(f) - 1 :
                     \A i \in 1 .. m : f[i + 1].kind = "chunk" /\ f[i + 1].index = i - 1}
<1>2. n \in Good
  <2>1. n \in 0 .. Len(f) - 1
    BY <1>0
  <2>2. ASSUME NEW i \in 1 .. n PROVE f[i + 1].kind = "chunk" /\ f[i + 1].index = i - 1
    <3>1. f[i + 1] = Chunk((i + 1) - 2, b + (i + 1) - 1)
      <4>1. i + 1 \in 2 .. n + 1
        OBVIOUS
      <4> QED
        BY <1>0, <4>1, Zenon
    <3> QED
      BY <3>1 DEF Chunk
  <2> QED
    BY <2>1, <2>2
<1>3. ASSUME NEW m \in Good PROVE m <= n
  <2> SUFFICES ASSUME m > n PROVE FALSE
    OBVIOUS
  <2>1. n + 1 \in 1 .. m /\ n + 2 \in 1 .. Len(f)
    BY <1>0
  <2>2. f[n + 1 + 1].kind = "chunk"
    BY <2>1
  <2> QED
    BY <1>0, <2>1, <2>2
<1>4. Whole(f) = n
  <2>1. Whole(f) = Max(Good)
    BY DEF Whole
  <2>2. Good \subseteq Int
    OBVIOUS
  <2> HIDE DEF Good
  <2>3. \A y \in Good : n >= y
    BY <1>3, <2>2
  <2>4. ASSUME NEW x \in Good, \A y \in Good : x >= y PROVE x = n
    BY <1>2, <2>2, <2>3, <2>4
  <2> QED
    BY <1>2, <2>1, <2>3, <2>4 DEF Max
<1>5. DataOf(f, n) = Run(b, n)
  <2>1. ASSUME NEW i \in 1 .. n PROVE f[i + 1].body[1] = b + i
    <3>1. f[i + 1] = Chunk((i + 1) - 2, b + (i + 1) - 1)
      <4>1. i + 1 \in 2 .. n + 1
        OBVIOUS
      <4> QED
        BY <1>0, <4>1, Zenon
    <3>2. b + (i + 1) - 1 = b + i
      OBVIOUS
    <3> QED
      BY <3>1, <3>2 DEF Chunk
  <2> QED
    BY <2>1 DEF DataOf, Run
<1>6. Written(f) = Run(b, n)
  <2>1. {i \in 1 .. Len(f) : f[i].kind = "chunk"} = 2 .. n + 1
    <3>1. 2 .. n + 1 \subseteq 1 .. Len(f)
      BY <1>0
    <3>2. \A i \in 1 .. Len(f) : f[i].kind = "chunk" <=> i \in 2 .. n + 1
      BY <1>0
    <3> QED
      BY <3>1, <3>2, Zenon
  <2>2. Cardinality(2 .. n + 1) = n
    BY FS_Interval
  <2> QED
    BY <1>5, <2>1, <2>2 DEF Written
<1>7. Closes(f, n) <=> Complete(f, b, n)
  BY <1>0, <1>5 DEF Closes, Complete, Holds
<1> QED
  BY <1>1, <1>4, <1>5, <1>6, <1>7

LEMMA VerifiesIff ==
  ASSUME NEW f, NEW b \in Nat, NEW n \in Nat, Shaped(f, b, n)
  PROVE  VerifyComplete(f) <=> Complete(f, b, n)
  BY ReadsBack DEF VerifyComplete

\* A write of more chunks leaves a file that holds them as well.
LEMMA WritesOn ==
  ASSUME NEW f, NEW b \in Nat, NEW n \in Nat, NEW m \in Nat, Open(f, b, n)
  PROVE  Open(f \o NewRecords(f, Run(b + n, m)), b, n + m)
<1> DEFINE new == NewRecords(f, Run(b + n, m))
           g == f \o new
<1>1. /\ f \in Seq(Records) /\ Len(f) = n + 1 /\ f[1] = Header
      /\ \A i \in 2 .. n + 1 : f[i] = Chunk(i - 2, b + i - 1)
  BY DEF Open, Holds
<1>2. Len(Written(f)) = n
  <2>1. Written(f) = Run(b, n)
    BY ReadsBack DEF Shaped
  <2> QED
    BY <2>1, RunIs
<1>3. Len(Run(b + n, m)) = m /\ \A i \in 1 .. m : Run(b + n, m)[i] = b + n + i
  <2>1. b + n \in Nat
    OBVIOUS
  <2> QED
    BY <2>1, RunIs
<1>4. new = [i \in 1 .. m |-> Chunk(n + i - 1, b + n + i)]
  BY <1>2, <1>3 DEF NewRecords
<1>5. new \in Seq(Records) /\ Len(new) = m /\ \A i \in 1 .. m : new[i] = Chunk(n + i - 1, b + n + i)
  <2>1. \A i \in 1 .. m : Chunk(n + i - 1, b + n + i) \in Records
    <3> TAKE i \in 1 .. m
    <3>1. n + i - 1 \in Nat /\ b + n + i \in Nat
      OBVIOUS
    <3> QED
      BY <3>1, RecordsAre
  <2> HIDE DEF new
  <2> QED
    BY <1>4, <2>1
<1> HIDE DEF new
<1>6. /\ g \in Seq(Records) /\ Len(g) = n + 1 + m
      /\ \A i \in 1 .. n + 1 + m : g[i] = IF i <= n + 1 THEN f[i] ELSE new[i - (n + 1)]
  <2>1. /\ g \in Seq(Records) /\ Len(g) = Len(f) + Len(new)
        /\ \A i \in 1 .. Len(f) + Len(new) :
              g[i] = IF i <= Len(f) THEN f[i] ELSE new[i - Len(f)]
    BY <1>1, <1>5, ConcatProperties
  <2> HIDE DEF g
  <2> QED
    BY <1>1, <1>5, <2>1
<1> HIDE DEF g
<1>7. g[1] = Header
  BY <1>1, <1>6
<1>8. ASSUME NEW i \in 2 .. n + m + 1 PROVE g[i] = Chunk(i - 2, b + i - 1)
  <2>1. CASE i <= n + 1
    BY <1>1, <1>6, <2>1
  <2>2. CASE ~ (i <= n + 1)
    <3> DEFINE j == i - (n + 1)
    <3>1. j \in 1 .. m /\ n + j - 1 = i - 2 /\ b + n + j = b + i - 1
      BY <2>2
    <3>2. g[i] = new[j]
      BY <1>6, <2>2
    <3>3. new[j] = Chunk(n + j - 1, b + n + j)
      BY <1>5, <3>1
    <3> QED
      BY <3>1, <3>2, <3>3
  <2> QED
    BY <2>1, <2>2
<1>9. Open(g, b, n + m)
  BY <1>1, <1>6, <1>7, <1>8 DEF Open, Holds
<1> QED
  BY <1>9 DEF g, new

\* What is put at the end of an open file: a torn record, or the footer.
LEMMA Ends ==
  ASSUME NEW f, NEW b \in Nat, NEW n \in Nat, Open(f, b, n)
  PROVE  /\ TornAt(Append(f, Torn), b, n)
         /\ Complete(Append(f, Footer(n, Run(b, n))), b, n)
<1>1. /\ f \in Seq(Records) /\ Len(f) = n + 1 /\ f[1] = Header
      /\ \A i \in 2 .. n + 1 : f[i] = Chunk(i - 2, b + i - 1)
  BY DEF Open, Holds
<1>2. Footer(n, Run(b, n)) \in Records /\ Torn \in Records
  BY RunIs, RecordsAre
<1>3. ASSUME NEW r \in Records
      PROVE  /\ Append(f, r) \in Seq(Records) /\ Len(Append(f, r)) = n + 2
             /\ \A i \in 1 .. n + 1 : Append(f, r)[i] = f[i]
             /\ Append(f, r)[n + 2] = r
  BY <1>1, AppendProperties
<1>4. ASSUME NEW r \in Records PROVE Holds(Append(f, r), b, n)
  BY <1>1, <1>3 DEF Holds
<1> QED
  BY <1>2, <1>3, <1>4 DEF TornAt, Complete

\* A cut leaves the chunks before it.
LEMMA CutFile ==
  ASSUME NEW f, NEW b \in Nat, NEW n \in Nat, Shaped(f, b, n), NEW k \in 1 .. n + 1
  PROVE  Open(SubSeq(f, 1, k), b, k - 1)
<1>1. /\ f \in Seq(Records) /\ Len(f) \in {n + 1, n + 2} /\ f[1] = Header
      /\ \A i \in 2 .. n + 1 : f[i] = Chunk(i - 2, b + i - 1)
  BY Places
<1> DEFINE g == SubSeq(f, 1, k)
<1>2. g \in Seq(Records) /\ Len(g) = k /\ \A i \in 1 .. k : g[i] = f[i]
  BY <1>1, SubSeqProperties
<1> HIDE DEF g
<1>3. Len(g) = (k - 1) + 1 /\ g[1] = Header
  <2>1. (k - 1) + 1 = k /\ 1 \in 1 .. k
    OBVIOUS
  <2> QED
    BY <1>1, <1>2, <2>1, Zenon
<1>4. ASSUME NEW i \in 2 .. (k - 1) + 1 PROVE g[i] = Chunk(i - 2, b + i - 1)
  <2>1. i \in 1 .. k /\ i \in 2 .. n + 1
    OBVIOUS
  <2> QED
    BY <1>1, <1>2, <2>1
<1>5. Open(g, b, k - 1)
  BY <1>2, <1>3, <1>4 DEF Open, Holds
<1> QED
  BY <1>5 DEF g

LEMMA WholeFile ==
  ASSUME NEW f \in Seq(Records)
  PROVE  SubSeq(f, 1, Len(f)) = f
  BY SubSeqFull

\* A write that fails leaves some of the chunks, and perhaps a part of the next.
LEMMA CutsShort ==
  ASSUME NEW n \in Nat, NEW m \in Nat, Open(disk.capture, 0, n), NEW f \in CutShort(Run(n, m))
  PROVE  \E k \in Nat : n + k <= n + m /\ (Open(f, 0, n + k) \/ TornAt(f, 0, n + k))
<1> DEFINE c == disk.capture
<1>1. Len(Run(n, m)) = m
  BY RunIs
<1>2. PICK k \in 0 .. m - 1 :
        LET g == c \o SubSeq(NewRecords(c, Run(n, m)), 1, k)
        IN  f = g \/ f = Append(g, Torn)
  BY <1>1 DEF CutShort
<1> HIDE DEF c
<1>9. k \in Nat /\ n + k \in Nat /\ n + k <= n + m /\ 0 + n = n /\ Open(c, 0, n)
  BY DEF c
<1>3. SubSeq(NewRecords(c, Run(n, m)), 1, k) = NewRecords(c, Run(n, k))
  <2>1. /\ Len(Run(n, k)) = k /\ \A i \in 1 .. k : Run(n, k)[i] = n + i
        /\ \A i \in 1 .. m : Run(n, m)[i] = n + i
    BY <1>9, RunIs
  <2>2. NewRecords(c, Run(n, k)) = [i \in 1 .. k |-> Chunk(Len(Written(c)) + i - 1, n + i)]
    BY <2>1 DEF NewRecords
  <2>3. NewRecords(c, Run(n, m)) = [i \in 1 .. m |-> Chunk(Len(Written(c)) + i - 1, n + i)]
    BY <1>1, <2>1 DEF NewRecords
  <2>4. SubSeq([i \in 1 .. m |-> Chunk(Len(Written(c)) + i - 1, n + i)], 1, k)
          = [i \in 1 .. k |-> Chunk(Len(Written(c)) + i - 1, n + i)]
    OBVIOUS
  <2> QED
    BY <2>2, <2>3, <2>4
<1>4. Open(c \o NewRecords(c, Run(n, k)), 0, n + k)
  <2>1. Open(c \o NewRecords(c, Run(0 + n, k)), 0, n + k)
    BY <1>9, WritesOn
  <2> QED
    BY <1>9, <2>1
<1> DEFINE g == c \o NewRecords(c, Run(n, k))
<1> HIDE DEF g
<1>5. g \in Seq(Records) /\ Open(g, 0, n + k) /\ (f = g \/ f = Append(g, Torn))
  BY <1>2, <1>3, <1>4 DEF g, Open, Holds
<1>6. TornAt(Append(g, Torn), 0, n + k)
  BY <1>5, <1>9, Ends
<1> QED
  BY <1>5, <1>6, <1>9

\* The file of a compaction.
Compacted(f) ==
  LET n == Whole(f)
      kept == SubSeq(DataOf(f, n), n - MaxKept + 1, n)
  IN  <<Header>> \o [i \in 1 .. MaxKept |-> Chunk(i - 1, kept[i])] \o <<Footer(MaxKept, kept)>>

LEMMA CompactedIs ==
  ASSUME NEW f, NEW b \in Nat, NEW n \in Nat, Complete(f, b, n), n > MaxKept
  PROVE  Complete(Compacted(f), b + n - MaxKept, MaxKept)
<1> DEFINE c == b + n - MaxKept
           kept == Run(c, MaxKept)
           new == [i \in 1 .. MaxKept |-> Chunk(i - 1, kept[i])]
           h == <<Header>>
<1>1. MaxKept \in Nat /\ c \in Nat
  BY CaptureAssumption
<1>2. SubSeq(Run(b, n), n - MaxKept + 1, n) = kept
  <2>1. SubSeq([i \in 1 .. n |-> b + i], n - MaxKept + 1, n)
          = [i \in 1 .. MaxKept |-> b + (n - MaxKept + 1 + i - 1)]
    BY <1>1
  <2>2. \A i \in 1 .. MaxKept : b + (n - MaxKept + 1 + i - 1) = c + i
    BY <1>1
  <2> QED
    BY <2>1, <2>2 DEF Run
<1>3. Open(h, c, 0)
  BY RecordsAre DEF Open, Holds
<1>4. NewRecords(h, Run(c + 0, MaxKept)) = new
  <2>0. Written(h) = Run(c, 0)
    BY <1>1, <1>3, ReadsBack DEF Shaped
  <2>1. Len(Written(h)) = 0
    BY <1>1, <2>0, RunIs
  <2>2. Len(kept) = MaxKept /\ c + 0 = c
    BY <1>1, RunIs
  <2> QED
    BY <1>1, <2>1, <2>2 DEF NewRecords
<1>5. Open(h \o new, c, MaxKept)
  <2>1. 0 + MaxKept = MaxKept
    BY <1>1
  <2>2. Open(h \o NewRecords(h, Run(c + 0, MaxKept)), c, 0 + MaxKept)
    BY <1>1, <1>3, WritesOn
  <2> HIDE DEF c, h, new
  <2> QED
    BY <1>4, <2>1, <2>2
<1> DEFINE g == h \o new
<1> HIDE DEF new, g
<1>6. g \in Seq(Records) /\ Open(g, c, MaxKept)
  BY <1>5 DEF g, Open, Holds
<1>7. g \o <<Footer(MaxKept, kept)>> = Append(g, Footer(MaxKept, kept))
  BY <1>1, <1>6, RecordsAre, RunIs, AppendIsConcat
<1>8. Compacted(f) = g \o <<Footer(MaxKept, kept)>>
  <2>1. Whole(f) = n /\ DataOf(f, n) = Run(b, n)
    BY ReadsBack DEF Shaped
  <2> QED
    BY <1>2, <2>1 DEF Compacted, g, new
<1>9. Complete(Append(g, Footer(MaxKept, kept)), c, MaxKept)
  BY <1>1, <1>6, Ends
<1> QED
  BY <1>7, <1>8, <1>9

-----------------------------------------------------------------------------
(* Steps of the sink.                                                        *)

LEMMA SameShape ==
  ASSUME NEW f, NEW b \in Nat, NEW n \in Nat, NEW c \in Nat, NEW m \in Nat,
         Shaped(f, b, n), Shaped(f, c, m)
  PROVE  /\ n = m /\ f # NoFile /\ f # <<>> /\ f # <<Torn>>
         /\ Complete(f, b, n) <=> Complete(f, c, m)
         /\ Complete(f, b, n) => ~ Open(f, c, m) /\ ~ TornAt(f, c, m)
<1>1. n = m
  BY ReadsBack
<1>2. Complete(f, b, n) <=> Complete(f, c, m)
  BY VerifiesIff
<1>3. f # NoFile /\ f # <<>> /\ f # <<Torn>>
  <2>1. f \in Seq(Records) /\ Len(f) \in {n + 1, n + 2} /\ f[1] = Header
    BY Places
  <2>2. f = <<Torn>> => f[1] = Torn
    OBVIOUS
  <2>3. Header # Torn
    BY DEF Header, Torn
  <2>4. f = <<>> => Len(f) = 0
    OBVIOUS
  <2> QED
    BY <2>1, <2>2, <2>3, <2>4, CaptureAssumption
<1>4. ASSUME Complete(f, b, n) PROVE ~ Open(f, c, m) /\ ~ TornAt(f, c, m)
  BY <1>1, <1>4 DEF Complete, Open, TornAt, Footer, Torn
<1> QED
  BY <1>1, <1>2, <1>3, <1>4

LEMMA UpIsKept ==
  ASSUME CaptureInv, app = "up"
  PROVE  /\ Typed /\ Sinking /\ Saving /\ ~ Lost /\ Kept /\ Compacting
         /\ recording.saved \in Nat
  BY DEF CaptureInv, CutExchange, Typed, Lost

\* Until a retention, only the capture has its name.
LEMMA NotExchanged ==
  ASSUME CaptureInv, app = "up", save.pc # "retain"
  PROVE  disk.compact = NoFile /\ disk.backup = NoFile /\ ~ Exchanged /\ File = disk.capture
  BY UpIsKept DEF Compacting, Retaining, Exchanged, File

LEMMA BusySink ==
  ASSUME CaptureInv, app = "up", sink.slot \in {"opening", "ready"}
  PROVE  /\ save.pc # "retain"
         /\ disk.compact = NoFile /\ disk.backup = NoFile /\ ~ Exchanged /\ File = disk.capture
<1>1. save.pc # "retain"
  BY UpIsKept DEF Saving, Quiet
<1> QED
  BY <1>1, NotExchanged

\* What stays when the file gets longer.
LEMMA FileGrows ==
  ASSUME NEW n \in Nat, NEW m \in Nat, FileKept(0, n), m >= n, ~ Exchanged, disk'.backup = NoFile,
         Open(disk.capture, 0, n), Shaped(disk'.capture, 0, m),
         m <= recording'.output, recording'.saved = recording.saved,
         disk'.durable = disk.durable, disk'.state = disk.state, disk'.row = disk.row,
         Typed, recording.saved \in Nat
  PROVE  FileKept(0, m)'
<1>1. File = disk.capture /\ File' = disk'.capture
  BY DEF File, Exchanged
<1>2. disk.row # "complete"
  <2>1. Open(File, 0, n) /\ Shaped(File, 0, n)
    BY <1>1 DEF Shaped
  <2>2. ~ Complete(File, 0, n)
    BY <2>1, SameShape
  <2> QED
    BY <2>2 DEF FileKept
<1>3. Shaped(File, 0, m)'
  BY <1>1 DEF Shaped, Open, TornAt, Complete, Holds
<1>4. (disk.durable <= Len(File))'
  <2>1. Len(disk.capture) = n + 1 /\ Len(disk'.capture) >= m + 1 /\ Len(disk'.capture) \in Nat
    BY DEF Shaped, Open, TornAt, Complete, Holds
  <2>2. disk.durable <= Len(File) /\ disk.durable \in Nat
    BY DEF FileKept, Typed, Disks
  <2> QED
    BY <1>1, <2>1, <2>2
<1>5. Checkpointed(m)'
  BY DEF FileKept, Checkpointed
<1>6. SavedWithin(0, m)'
  <2>1. recording.saved <= 0 + n => recording.saved <= 0 + m
    BY DEF Typed
  <2> QED
    BY <2>1 DEF FileKept, SavedWithin
<1> QED
  BY <1>2, <1>3, <1>4, <1>5, <1>6 DEF FileKept

LEMMA SinkFails ==
  ASSUME CaptureInv, app = "up", sink.slot \in {"opening", "ready"}, sink' = FailedSink,
         recording'.active = recording.active, recording'.saved = recording.saved,
         UNCHANGED <<save, app>>, disk'.compact = disk.compact, disk'.backup = disk.backup,
         Typed', Kept'
  PROVE  CaptureInv'
<1>1. sink'.slot = "failed" /\ sink'.closing = sink.closing /\ sink'.queue = <<>>
  BY UpIsKept DEF Typed, Sinks, FailedSink
<1>2. Sinking'
  BY <1>1, UpIsKept DEF Sinking
<1>3. Saving'
  BY <1>1, UpIsKept DEF Saving, Quiet
<1>4. Compacting' /\ ~ Lost'
  BY UpIsKept, BusySink DEF Compacting, Exchanged, Lost
<1> QED
  BY <1>2, <1>3, <1>4 DEF CaptureInv

LEMMA SinkGoesOn ==
  ASSUME CaptureInv, app = "up", sink.slot \in {"opening", "ready"}, sink'.slot = "ready",
         recording'.active = recording.active, recording'.saved = recording.saved,
         UNCHANGED <<save, app>>, disk'.compact = disk.compact, disk'.backup = disk.backup, Typed',
         sink'.closing = sink.closing,
         sink'.queue = sink.queue \/ (sink'.queue = <<>> /\ ~ sink.closing),
         NEW n \in Nat, FileKept(0, n)', Stepping(n)', Pending(n)'
  PROVE  CaptureInv'
<1>1. Sinking'
  BY UpIsKept DEF Sinking
<1>2. Saving'
  BY UpIsKept DEF Saving, Quiet
<1>3. Compacting' /\ ~ Lost' /\ Kept'
  BY UpIsKept, BusySink DEF Compacting, Exchanged, Lost, Kept
<1> QED
  BY <1>1, <1>2, <1>3 DEF CaptureInv

LEMMA FailedIsTyped ==
  ASSUME sink \in Sinks
  PROVE  /\ FailedSink \in Sinks /\ FailedSink.slot = "failed" /\ FailedSink.queue = <<>>
         /\ FailedSink.closing = sink.closing
<1>1. <<>> \in Seq(Nat) /\ <<>> \in Seq({"checkpoint", "close"})
  OBVIOUS
<1> QED
  BY <1>1 DEF Sinks, FailedSink

LEMMA ShapedIsFile ==
  ASSUME NEW f, NEW b, NEW n, Open(f, b, n) \/ TornAt(f, b, n) \/ Complete(f, b, n)
  PROVE  f \in Files /\ f \in Seq(Records) /\ Shaped(f, b, n)
  BY DEF Open, TornAt, Complete, Holds, Shaped, Files

LEMMA CaptureTyped ==
  ASSUME disk \in Disks, NEW f \in Files, disk' = [disk EXCEPT !.capture = f]
  PROVE  /\ disk' \in Disks /\ disk'.capture = f /\ disk'.durable = disk.durable
         /\ disk'.state = disk.state /\ disk'.row = disk.row
         /\ disk'.compact = disk.compact /\ disk'.backup = disk.backup
  BY DEF Disks

\* Draining what follows the chunks of the file appends it, or the sink fails with a file
\* that has a part of it.
LEMMA DrainKeeps ==
  ASSUME CaptureInv, app = "up", sink.slot = "ready", NEW next, NEW n \in Nat, NEW m \in Nat,
         FileKept(0, n), Open(disk.capture, 0, n), Drain(Run(n, m), next),
         recording'.output \in Nat, n + m <= recording'.output, recording'.saved = recording.saved
  PROVE  /\ disk' \in Disks /\ capFaults' \in 0 .. MaxFaults
         /\ disk'.compact = disk.compact /\ disk'.backup = disk.backup
         /\ disk'.durable = disk.durable
         /\ \/ sink' = next /\ Open(disk'.capture, 0, n + m) /\ FileKept(0, n + m)'
            \/ sink' = FailedSink /\ Kept'
<1>1. /\ Typed /\ disk \in Disks /\ recording.saved \in Nat /\ ~ Exchanged
      /\ disk.backup = NoFile /\ n + m \in Nat /\ n + m >= n /\ 0 + n = n
  BY UpIsKept, BusySink DEF Typed
<1>2. ASSUME NEW k \in Nat, n + k <= n + m, NEW f, Open(f, 0, n + k) \/ TornAt(f, 0, n + k),
             disk' = [disk EXCEPT !.capture = f]
      PROVE  /\ disk' \in Disks /\ disk'.compact = disk.compact /\ disk'.backup = disk.backup
             /\ disk'.durable = disk.durable /\ disk'.capture = f /\ FileKept(0, n + k)'
  <2>1. f \in Files
    BY <1>2, ShapedIsFile
  <2>2. /\ disk' \in Disks /\ disk'.capture = f /\ disk'.durable = disk.durable
        /\ disk'.state = disk.state /\ disk'.row = disk.row
        /\ disk'.compact = disk.compact /\ disk'.backup = disk.backup
    BY <1>1, <1>2, <2>1, CaptureTyped
  <2>3. n + k \in Nat /\ n + k >= n /\ n + k <= recording'.output
    BY <1>2
  <2>4. Shaped(disk'.capture, 0, n + k)
    BY <1>2, <2>2 DEF Shaped
  <2> QED
    BY <1>1, <1>2, <2>2, <2>3, <2>4, FileGrows
<1>3. CASE disk' = [disk EXCEPT !.capture = Appended(Run(n, m))] /\ sink' = next
           /\ UNCHANGED capFaults
  <2>1. Open(Appended(Run(n, m)), 0, n + m)
    <3>1. Open(disk.capture \o NewRecords(disk.capture, Run(0 + n, m)), 0, n + m)
      BY WritesOn
    <3> QED
      BY <1>1, <3>1 DEF Appended
  <2> QED
    BY <1>1, <1>2, <1>3, <2>1 DEF Typed
<1>4. CASE /\ MayFail /\ capFaults' = capFaults + 1 /\ sink' = FailedSink
           /\ \E f \in CutShort(Run(n, m)) : disk' = [disk EXCEPT !.capture = f]
  <2>1. PICK f \in CutShort(Run(n, m)) : disk' = [disk EXCEPT !.capture = f]
    BY <1>4
  <2>2. PICK k \in Nat : n + k <= n + m /\ (Open(f, 0, n + k) \/ TornAt(f, 0, n + k))
    BY CutsShort
  <2>3. n + k \in Nat /\ capFaults' \in 0 .. MaxFaults
    BY <1>1, <1>4, CaptureAssumption, SMTT(30) DEF Typed, MayFail
  <2>4. /\ disk' \in Disks /\ disk'.compact = disk.compact /\ disk'.backup = disk.backup
        /\ disk'.durable = disk.durable /\ FileKept(0, n + k)'
    BY <1>2, <2>1, <2>2
  <2> QED
    BY <1>4, <2>3, <2>4 DEF Kept
<1> QED
  BY <1>3, <1>4 DEF Drain

\* What stays when more output is counted, or more of the file is on the disk.
LEMMA KeptWithMore ==
  ASSUME NEW b \in Nat, NEW n \in Nat, FileKept(b, n), Typed, Typed', File' = File,
         disk'.row = disk.row, recording'.saved = recording.saved,
         disk'.state = disk.state, disk'.durable >= disk.durable, disk'.durable <= Len(File),
         recording'.output >= recording.output
  PROVE  FileKept(b, n)'
<1>1. /\ disk.durable \in Nat /\ disk'.durable \in Nat
      /\ recording.output \in Nat /\ recording'.output \in Nat /\ recording.saved \in Int
  BY CaptureAssumption DEF Typed, Disks
<1>2. Shaped(File, b, n)' /\ (disk.durable <= Len(File))' /\ (b + n <= recording.output)'
  BY <1>1 DEF FileKept, Shaped, Open, TornAt, Complete, Holds
<1>3. Checkpointed(n)'
  BY <1>1, SMTT(30) DEF FileKept, Checkpointed
<1>4. SavedWithin(b, n)'
  BY <1>1 DEF FileKept, SavedWithin
<1>5. Len(File) \in Nat
  BY Places DEF FileKept
<1>6. disk.durable = Len(File) => disk'.durable = Len(File')
  BY <1>1, <1>5
<1> QED
  BY <1>2, <1>3, <1>4, <1>6 DEF FileKept, Complete, Holds

LEMMA OpeningFile ==
  ASSUME CaptureInv, app = "up", File = NoFile
  PROVE  disk.state = NoFile /\ disk.row # "complete" /\ NothingSaved
<1>1. \A b, n \in Nat : ~ FileKept(b, n)
  BY SameShape DEF FileKept
<1> QED
  BY <1>1, UpIsKept DEF Kept, NothingWritten

LEMMA SinkOpens ==
  ASSUME CaptureInv, app = "up", sink'.slot = "opening", sink'.step = "wait", Typed',
         File' = NoFile, disk'.compact = NoFile, disk'.backup = NoFile, save.pc # "retain",
         File = NoFile, disk'.state = disk.state, disk'.row # "complete",
         UNCHANGED <<save, app>>, recording'.active = recording.active,
         recording'.saved = recording.saved,
         \/ sink.slot = "opening" /\ sink'.closing = sink.closing /\ sink'.queue = sink.queue
         \/ recording.active /\ ~ sink'.closing /\ sink'.queue = <<>>,
         Pending(0)'
  PROVE  CaptureInv'
<1>1. Kept' /\ Compacting' /\ ~ Lost'
  BY UpIsKept, OpeningFile DEF Kept, NothingWritten, NothingSaved, Compacting, Exchanged, Lost
<1>2. Sinking'
  BY UpIsKept DEF Sinking
<1>3. Saving'
  BY UpIsKept DEF Saving, Quiet
<1> QED
  BY <1>1, <1>2, <1>3 DEF CaptureInv

LEMMA RunTail ==
  ASSUME NEW n \in Nat, NEW m \in Nat
  PROVE  /\ Append(Run(n, m), n + m + 1) = Run(n, m + 1)
         /\ Run(n, 0) = <<>>
         /\ Run(n, m) = <<>> => m = 0
         /\ <<n + 1>> = Run(n, 1)
<1>1. Run(n, m) \in Seq(Nat) /\ Len(Run(n, m)) = m /\ \A i \in 1 .. m : Run(n, m)[i] = n + i
  BY RunIs
<1>2. /\ Run(n, m + 1) \in Seq(Nat) /\ Len(Run(n, m + 1)) = m + 1
      /\ \A i \in 1 .. m + 1 : Run(n, m + 1)[i] = n + i
  BY RunIs
<1>3. n + m + 1 \in Nat
  OBVIOUS
<1> DEFINE s == Append(Run(n, m), n + m + 1)
<1>4. s \in Seq(Nat) /\ Len(s) = m + 1 /\ (\A i \in 1 .. m : s[i] = n + i) /\ s[m + 1] = n + m + 1
  BY <1>1, <1>3, AppendProperties
<1>5. ASSUME NEW i \in 1 .. m + 1 PROVE s[i] = Run(n, m + 1)[i]
  <2>1. Run(n, m + 1)[i] = n + i
    BY <1>2
  <2> HIDE DEF s
  <2>2. CASE i = m + 1
    BY <1>4, <2>1, <2>2
  <2>3. CASE i # m + 1
    BY <1>4, <2>1, <2>3
  <2> QED
    BY <2>2, <2>3
<1>6. s = Run(n, m + 1)
  <2> HIDE DEF s
  <2> QED
    BY <1>2, <1>4, <1>5, SeqEqual
<1>7. Run(n, 0) = <<>> /\ (Run(n, m) = <<>> => m = 0)
  <2>1. Run(n, 0) \in Seq(Nat) /\ Len(Run(n, 0)) = 0
    BY RunIs
  <2>2. Len(<<>>) = 0
    OBVIOUS
  <2> QED
    BY <1>1, <2>1, <2>2, EmptySeq
<1>8. <<n + 1>> = Run(n, 1)
  <2>1. /\ Run(n, 1) \in Seq(Nat) /\ Len(Run(n, 1)) = 1
        /\ \A i \in 1 .. 1 : Run(n, 1)[i] = n + i
    BY RunIs
  <2>2. <<n + 1>> \in Seq(Nat) /\ Len(<<n + 1>>) = 1 /\ <<n + 1>>[1] = n + 1
    OBVIOUS
  <2>3. \A i \in 1 .. 1 : <<n + 1>>[i] = Run(n, 1)[i]
    BY <2>1, <2>2
  <2> QED
    BY <2>1, <2>2, <2>3, SeqEqual
<1> QED
  BY <1>6, <1>7, <1>8

LEMMA AddKeeps ==
  ASSUME CaptureInv, Add
  PROVE  CaptureInv'
<1> DEFINE o == recording.output
<1>1. /\ app = "up" /\ recording.active /\ o + 1 <= MaxOutput /\ UNCHANGED <<save, app>>
      /\ recording' = [recording EXCEPT !.output = o + 1]
  BY DEF Add
<1>2. Typed /\ Sinking /\ Saving /\ ~ Lost /\ Kept /\ Compacting /\ recording.saved \in Nat
  BY <1>1, UpIsKept
<1>3. /\ recording'.output = o + 1 /\ recording'.active = recording.active
      /\ recording'.saved = recording.saved /\ o \in Nat
      /\ recording' \in [active : BOOLEAN, output : 0 .. MaxOutput, saved : -1 .. MaxOutput]
      /\ recording'.saved <= recording'.output
  <2>1. /\ recording \in [active : BOOLEAN, output : 0 .. MaxOutput, saved : -1 .. MaxOutput]
        /\ recording.saved <= recording.output
    BY <1>2 DEF Typed
  <2>2. o \in Nat /\ o + 1 \in 0 .. MaxOutput
    BY <1>1, <2>1, CaptureAssumption
  <2>3. /\ recording'.output = o + 1 /\ recording'.active = recording.active
        /\ recording'.saved = recording.saved
        /\ recording' \in [active : BOOLEAN, output : 0 .. MaxOutput, saved : -1 .. MaxOutput]
    <3>1. recording' = [recording EXCEPT !.output = o + 1]
      BY <1>1
    <3> HIDE DEF o
    <3> QED
      BY <2>1, <2>2, <3>1
  <2> QED
    BY <1>2, <2>1, <2>2, <2>3
<1>4. save.pc # "retain" /\ ~ sink.closing
  BY <1>1, <1>2 DEF Saving, Sinking
<1>5. disk.compact = NoFile /\ disk.backup = NoFile /\ ~ Exchanged /\ File = disk.capture
  BY <1>1, <1>4, NotExchanged
<1>6. ASSUME sink.slot = "none", disk' = Referenced, UNCHANGED capFaults,
             sink' = [NoSink EXCEPT !.slot = "opening", !.pending = <<o + 1>>]
      PROVE  CaptureInv'
  <2>1. File = NoFile /\ o = 0
    BY <1>2, <1>6 DEF Sinking
  <2>2. /\ disk'.capture = disk.capture /\ disk'.backup = disk.backup
        /\ disk'.compact = disk.compact /\ disk'.state = disk.state /\ disk' \in Disks
        /\ disk'.row # "complete"
    BY <1>1, <1>2, <1>6, <2>1, OpeningFile DEF Referenced, Typed, Disks
  <2>3. /\ sink'.slot = "opening" /\ sink'.step = "wait" /\ ~ sink'.closing /\ sink'.queue = <<>>
        /\ sink'.pending = <<o + 1>> /\ sink' \in Sinks
    <3>1. <<o + 1>> \in Seq(Nat) /\ <<>> \in Seq({"checkpoint", "close"})
      BY <1>3
    <3> QED
      BY <1>6, <3>1 DEF NoSink, Sinks
  <2>4. Typed'
    BY <1>1, <1>2, <1>3, <1>6, <2>2, <2>3 DEF Typed
  <2>5. Pending(0)'
    <3>1. <<0 + 1>> = Run(0, 1)
      BY RunTail
    <3> QED
      BY <1>3, <2>1, <2>3, <3>1 DEF Pending
  <2>6. File' = NoFile
    BY <1>5, <2>1, <2>2 DEF File, Exchanged
  <2> QED
    BY <1>1, <1>3, <1>4, <1>5, <2>1, <2>2, <2>3, <2>4, <2>5, <2>6, SinkOpens
<1>7. ASSUME sink.slot = "failed", UNCHANGED <<disk, sink, capFaults>>
      PROVE  CaptureInv'
  <2>1. Typed'
    BY <1>1, <1>2, <1>3, <1>7 DEF Typed
  <2>2. ASSUME NEW b \in Nat, NEW n \in Nat, FileKept(b, n) PROVE FileKept(b, n)'
    <3>1. disk.durable <= Len(File) /\ disk.durable >= disk.durable /\ o + 1 >= o /\ File' = File
      BY <1>2, <1>3, <1>7, <2>2 DEF FileKept, Typed, Disks, File, Exchanged
    <3> QED
      BY <1>2, <1>3, <1>7, <2>1, <2>2, <3>1, KeptWithMore
  <2>3. File' = File
    BY <1>7 DEF File, Exchanged
  <2>4. Kept' /\ Compacting' /\ ~ Lost'
    BY <1>1, <1>2, <1>3, <1>5, <1>7, <2>2, <2>3
    DEF Kept, NothingWritten, NothingSaved, Headless, Compacting, Exchanged, Lost
  <2>5. Sinking' /\ Saving'
    BY <1>1, <1>2, <1>3, <1>7 DEF Sinking, Saving, Quiet
  <2> QED
    BY <1>1, <2>1, <2>4, <2>5 DEF CaptureInv
<1>8. ASSUME sink.slot = "ready", WritesThrough, Drain(<<o + 1>>, sink)
      PROVE  CaptureInv'
  <2>1. PICK n \in Nat : FileKept(0, n) /\ Stepping(n) /\ Pending(n)
    BY <1>2, <1>8 DEF Sinking
  <2>2. Open(disk.capture, 0, n) /\ sink.step = "wait" /\ sink.queue = <<>> /\ sink.pending = <<>>
    BY <1>8, <2>1 DEF WritesThrough, NothingPending, Stepping
  <2>3. n = o
    <3>1. PICK m \in Nat : sink.pending = Run(n, m) /\ n + m = o
      BY <1>4, <2>1 DEF Pending
    <3>2. Run(n, m) = <<>>
      BY <2>2, <3>1, Zenon
    <3>3. m = 0
      BY <3>2, RunTail, Zenon
    <3> QED
      BY <3>1, <3>3
  <2>4. <<o + 1>> = Run(n, 1)
    BY <2>3, RunTail
  <2>5. /\ disk' \in Disks /\ capFaults' \in 0 .. MaxFaults
        /\ disk'.compact = disk.compact /\ disk'.backup = disk.backup
        /\ \/ sink' = sink /\ Open(disk'.capture, 0, n + 1) /\ FileKept(0, n + 1)'
           \/ sink' = FailedSink /\ Kept'
    <3>1. Drain(Run(n, 1), sink) /\ n + 1 <= recording'.output /\ recording'.output \in Nat
      BY <1>3, <1>8, <2>3, <2>4
    <3> QED
      BY <1>1, <1>3, <1>8, <2>1, <2>2, <3>1, DrainKeeps
  <2>6. sink' \in Sinks /\ Typed'
    BY <1>1, <1>2, <1>3, <2>5, FailedIsTyped DEF Typed
  <2>7. CASE sink' = sink /\ Open(disk'.capture, 0, n + 1) /\ FileKept(0, n + 1)'
    <3>1. Stepping(n + 1)'
      BY <2>2, <2>7 DEF Stepping
    <3>2. Pending(n + 1)'
      <4>1. n + 1 \in Nat /\ n + 1 + 0 = o + 1
        BY <2>3
      <4>2. Run(n + 1, 0) = <<>>
        BY <4>1, RunTail
      <4> QED
        BY <1>3, <2>2, <2>7, <4>1, <4>2 DEF Pending
    <3> QED
      BY <1>1, <1>3, <1>8, <2>5, <2>6, <2>7, <3>1, <3>2, SinkGoesOn
  <2>8. CASE sink' = FailedSink /\ Kept'
    BY <1>1, <1>3, <1>8, <2>5, <2>6, <2>8, SinkFails
  <2> QED
    BY <2>5, <2>7, <2>8
<1>9. ASSUME sink.slot \in {"opening", "ready"}, sink.slot = "opening" \/ ~ WritesThrough,
             sink' = [sink EXCEPT !.pending = Append(@, o + 1)], UNCHANGED <<disk, capFaults>>
      PROVE  CaptureInv'
  <2>1. sink \in Sinks /\ o + 1 \in Nat
    BY <1>2, <1>3 DEF Typed
  <2>2. /\ sink' \in Sinks /\ sink'.slot = sink.slot /\ sink'.closing = sink.closing
        /\ sink'.queue = sink.queue /\ sink'.step = sink.step
        /\ sink'.pending = Append(sink.pending, o + 1)
    <3>1. Append(sink.pending, o + 1) \in Seq(Nat)
      BY <2>1, AppendProperties DEF Sinks
    <3> DEFINE p == Append(sink.pending, o + 1)
    <3>2. sink' = [sink EXCEPT !.pending = p] /\ p \in Seq(Nat)
      BY <1>9, <3>1
    <3> HIDE DEF p
    <3>3. /\ sink' \in Sinks /\ sink'.slot = sink.slot /\ sink'.closing = sink.closing
          /\ sink'.queue = sink.queue /\ sink'.step = sink.step /\ sink'.pending = p
      BY <2>1, <3>2 DEF Sinks
    <3> QED
      BY <3>3 DEF p
  <2>3. Typed'
    BY <1>1, <1>2, <1>3, <1>9, <2>2 DEF Typed
  <2>4. ASSUME NEW n \in Nat, Pending(n) PROVE Pending(n)'
    <3>1. PICK m \in Nat : sink.pending = Run(n, m) /\ n + m = o
      BY <1>4, <2>4 DEF Pending
    <3>2. Append(Run(n, m), n + m + 1) = Run(n, m + 1)
      BY RunTail
    <3>3. sink'.pending = Append(Run(n, m), n + m + 1)
      BY <2>2, <3>1
    <3>4. n + (m + 1) = recording'.output /\ m + 1 \in Nat
      BY <1>3, <3>1
    <3>5. sink'.pending = Run(n, m + 1)
      BY <3>2, <3>3
    <3> QED
      BY <1>3, <3>4, <3>5 DEF Pending
  <2>5. CASE sink.slot = "opening"
    <3>1. File = NoFile /\ File' = NoFile /\ sink.step = "wait" /\ Pending(0) /\ 0 \in Nat
      BY <1>2, <1>9, <2>5 DEF Sinking, File, Exchanged
    <3> QED
      BY <1>1, <1>3, <1>4, <1>5, <1>9, <2>2, <2>3, <2>4, <2>5, <3>1, OpeningFile, SinkOpens
  <2>6. CASE sink.slot = "ready"
    <3>1. PICK n \in Nat : FileKept(0, n) /\ Stepping(n) /\ Pending(n)
      BY <1>2, <2>6 DEF Sinking
    <3>2. FileKept(0, n)'
      <4>1. /\ disk.durable <= Len(File) /\ disk.durable >= disk.durable /\ o + 1 >= o
            /\ File' = File
        BY <1>2, <1>3, <1>9, <3>1 DEF FileKept, Typed, Disks, File, Exchanged
      <4> QED
        BY <1>2, <1>3, <1>9, <2>3, <3>1, <4>1, KeptWithMore
    <3>3. Stepping(n)'
      BY <1>9, <2>2, <2>6, <3>1
      DEF Stepping, WritesThrough, NothingPending, Operations, Open, Complete, Holds
    <3> QED
      BY <1>1, <1>3, <1>9, <2>2, <2>3, <2>4, <2>6, <3>1, <3>2, <3>3, SinkGoesOn
  <2> QED
    BY <1>9, <2>5, <2>6
<1> QED
  BY <1>4, <1>6, <1>7, <1>8, <1>9 DEF Add

LEMMA OpenWriterKeeps ==
  ASSUME CaptureInv, OpenWriter
  PROVE  CaptureInv'
<1>1. app = "up" /\ sink.slot = "opening" /\ UNCHANGED <<recording, save, app>>
  BY DEF OpenWriter
<1>2. Typed /\ Sinking /\ Saving /\ ~ Lost /\ disk \in Disks /\ sink \in Sinks
  BY <1>1, UpIsKept DEF Typed
<1>3. /\ File = NoFile /\ Pending(0) /\ disk.backup = NoFile /\ disk.compact = NoFile
      /\ disk.row # "complete" /\ NothingSaved /\ 0 \in Nat
  BY <1>1, <1>2, BusySink, OpeningFile DEF Sinking
<1>4. <<Header>> \in Files /\ NoFile \in Files /\ Open(<<Header>>, 0, 0)
  BY RecordsAre DEF Files, Open, Holds
<1>5. CASE /\ disk' = [disk EXCEPT !.capture = <<Header>>, !.durable = 0, !.state = NoFile]
           /\ sink' = [sink EXCEPT !.slot = "ready", !.step = "drain"] /\ UNCHANGED capFaults
  <2> DEFINE f == <<Header>>
  <2> HIDE DEF f
  <2>1. /\ disk' \in Disks /\ disk'.capture = f /\ disk'.durable = 0 /\ disk'.state = NoFile
        /\ disk'.backup = NoFile /\ disk'.compact = NoFile /\ disk'.row = disk.row
    <3>1. disk' = [disk EXCEPT !.capture = f, !.durable = 0, !.state = NoFile] /\ f \in Files
      BY <1>4, <1>5 DEF f
    <3> QED
      BY <1>2, <1>3, <3>1 DEF Disks
  <2>2. /\ sink' \in Sinks /\ sink'.slot = "ready" /\ sink'.step = "drain"
        /\ sink'.closing = sink.closing /\ sink'.queue = sink.queue
        /\ sink'.pending = sink.pending
    BY <1>2, <1>5 DEF Sinks
  <2>3. Typed'
    BY <1>1, <1>2, <1>5, <2>1, <2>2 DEF Typed
  <2>4. Open(disk'.capture, 0, 0)
    BY <1>4, <2>1 DEF f
  <2>5. FileKept(0, 0)'
    <3>1. File' = disk'.capture
      BY <2>1 DEF File, Exchanged
    <3>2. Shaped(File, 0, 0)' /\ Len(File') = 1
      BY <2>4, <3>1 DEF Shaped, Open, TornAt, Complete, Holds
    <3>3. Checkpointed(0)'
      BY <2>1 DEF Checkpointed
    <3>4. SavedWithin(0, 0)' /\ (0 + 0 <= recording.output)'
      BY <1>1, <1>2, <1>3 DEF SavedWithin, NothingSaved, Typed
    <3> QED
      BY <1>3, <2>1, <3>2, <3>3, <3>4 DEF FileKept
  <2>6. Stepping(0)' /\ Pending(0)'
    BY <1>1, <1>3, <2>2, <2>4 DEF Stepping, Pending, Open, Holds
  <2> QED
    BY <1>1, <1>3, <2>1, <2>2, <2>3, <2>5, <2>6, SinkGoesOn
<1>6. CASE /\ MayFail /\ capFaults' = capFaults + 1 /\ sink' = FailedSink
           /\ disk' = [disk EXCEPT !.capture = NoFile, !.durable = 0, !.state = NoFile]
  <2>1. /\ disk' \in Disks /\ disk'.capture = NoFile /\ disk'.state = NoFile
        /\ disk'.backup = NoFile /\ disk'.compact = NoFile /\ disk'.row = disk.row
    BY <1>2, <1>3, <1>4, <1>6 DEF Disks
  <2>2. Typed'
    BY <1>1, <1>2, <1>6, <2>1, FailedIsTyped, CaptureAssumption DEF Typed, MayFail
  <2>3. Kept'
    BY <1>1, <1>3, <2>1 DEF Kept, NothingWritten, NothingSaved, File, Exchanged
  <2> QED
    BY <1>1, <1>3, <1>6, <2>1, <2>2, <2>3, SinkFails
<1> QED
  BY <1>5, <1>6 DEF OpenWriter

\* What a step of an open file starts from.
LEMMA ReadySink ==
  ASSUME CaptureInv, app = "up", sink.slot = "ready"
  PROVE  /\ Typed /\ disk \in Disks /\ sink \in Sinks /\ recording.saved \in Nat
         /\ recording.output \in Nat /\ Kept
         /\ \E n \in Nat : FileKept(0, n) /\ Stepping(n) /\ Pending(n)
         /\ disk.compact = NoFile /\ disk.backup = NoFile /\ ~ Exchanged /\ File = disk.capture
         /\ sink.queue \in {<<>>, <<"checkpoint">>, <<"close">>}
         /\ sink.queue = <<"checkpoint">> => ~ sink.closing
         /\ sink.queue = <<"close">> => sink.closing
  BY UpIsKept, BusySink DEF Typed, Sinking

LEMMA OnePending ==
  ASSUME NEW n \in Nat, NEW m \in Nat, n + m <= recording'.output,
         sink'.pending = <<>>, ~ sink'.closing => n + m = recording'.output
  PROVE  Pending(n + m)'
<1>1. Run(n + m, 0) = <<>> /\ n + m + 0 = n + m /\ n + m \in Nat
  <2>1. n + m \in Nat
    OBVIOUS
  <2> QED
    BY <2>1, RunTail
<1> QED
  BY <1>1 DEF Pending

\* A drain of what is pending.
LEMMA DrainAllKeeps ==
  ASSUME CaptureInv, app = "up", sink.slot = "ready", UNCHANGED <<recording, save, app>>,
         NEW n \in Nat, FileKept(0, n), Open(disk.capture, 0, n), Pending(n),
         NEW next, next \in Sinks, next.slot = "ready", next.closing = sink.closing,
         next.pending = <<>>,
         next.queue = sink.queue \/ (next.queue = <<>> /\ ~ sink.closing),
         \/ next.step = "wait" /\ next.queue = <<>>
         \/ next.step = "flush" /\ next.queue \in {<<"checkpoint">>, <<"close">>},
         Drain(sink.pending, next)
  PROVE  CaptureInv'
<1>1. /\ Typed /\ disk \in Disks /\ sink \in Sinks /\ recording.saved \in Nat
      /\ recording.output \in Nat
      /\ sink.queue = <<"checkpoint">> => ~ sink.closing
      /\ sink.queue = <<"close">> => sink.closing
  BY ReadySink
<1>2. PICK m \in Nat : /\ sink.pending = Run(n, m) /\ n + m <= recording.output
                       /\ ~ sink.closing => n + m = recording.output
  BY DEF Pending
<1>3. /\ disk' \in Disks /\ capFaults' \in 0 .. MaxFaults
      /\ disk'.compact = disk.compact /\ disk'.backup = disk.backup
      /\ \/ sink' = next /\ Open(disk'.capture, 0, n + m) /\ FileKept(0, n + m)'
         \/ sink' = FailedSink /\ Kept'
  <2>1. Drain(Run(n, m), next)
    BY <1>2
  <2> QED
    BY <1>1, <1>2, <2>1, DrainKeeps
<1>4. Typed'
  BY <1>1, <1>3, FailedIsTyped DEF Typed
<1>5. CASE sink' = next /\ Open(disk'.capture, 0, n + m) /\ FileKept(0, n + m)'
  <2>1. Pending(n + m)'
    BY <1>2, <1>5, OnePending
  <2>2. next.step = "flush" => next.queue = sink.queue /\ next.queue = Operations
    BY <1>1 DEF Operations
  <2>3. Stepping(n + m)'
    BY <1>5, <2>2 DEF Stepping, Operations
  <2>4. n + m \in Nat
    OBVIOUS
  <2> QED
    BY <1>3, <1>4, <1>5, <2>1, <2>3, <2>4, SinkGoesOn
<1>6. CASE sink' = FailedSink /\ Kept'
  BY <1>3, <1>4, <1>6, SinkFails
<1> QED
  BY <1>3, <1>5, <1>6

LEMMA DrainPendingKeeps ==
  ASSUME CaptureInv, DrainPending
  PROVE  CaptureInv'
<1> DEFINE next == [sink EXCEPT !.pending = <<>>,
                                !.step = IF sink.queue = <<>> THEN "wait" ELSE "flush"]
<1>1. /\ app = "up" /\ sink.slot = "ready" /\ sink.step \in {"wait", "drain"}
      /\ Drain(sink.pending, next) /\ UNCHANGED <<recording, save, app>>
  BY DEF DrainPending
<1>2. PICK n \in Nat : FileKept(0, n) /\ Stepping(n) /\ Pending(n)
  BY <1>1, ReadySink
<1>3. Open(disk.capture, 0, n)
  BY <1>1, <1>2 DEF Stepping
<1>4. /\ next \in Sinks /\ next.slot = sink.slot /\ next.closing = sink.closing
      /\ next.queue = sink.queue /\ next.pending = <<>>
      /\ next.step = IF sink.queue = <<>> THEN "wait" ELSE "flush"
  <2>1. <<>> \in Seq(Nat) /\ sink \in Sinks
    BY <1>1, ReadySink
  <2> QED
    BY <2>1 DEF Sinks
<1> HIDE DEF next
<1>5. sink.queue \in {<<>>, <<"checkpoint">>, <<"close">>}
  BY <1>1, ReadySink
<1> QED
  BY <1>1, <1>2, <1>3, <1>4, <1>5, DrainAllKeeps

LEMMA DrainAfterKeeps ==
  ASSUME CaptureInv, DrainAfter
  PROVE  CaptureInv'
<1> DEFINE next == [sink EXCEPT !.pending = <<>>, !.queue = Tail(@), !.step = "wait"]
<1>1. /\ app = "up" /\ sink.slot = "ready" /\ sink.step = "after"
      /\ Drain(sink.pending, next) /\ UNCHANGED <<recording, save, app>>
  BY DEF DrainAfter, Maintain
<1>2. PICK n \in Nat : FileKept(0, n) /\ Stepping(n) /\ Pending(n)
  BY <1>1, ReadySink
<1>3. Open(disk.capture, 0, n) /\ sink.queue = <<"checkpoint">> /\ ~ sink.closing
  BY <1>1, <1>2, ReadySink DEF Stepping
<1>4. /\ next \in Sinks /\ next.slot = sink.slot /\ next.closing = sink.closing
      /\ next.queue = <<>> /\ next.pending = <<>> /\ next.step = "wait"
  <2>1. /\ <<>> \in Seq(Nat) /\ <<>> \in Seq({"checkpoint", "close"}) /\ sink \in Sinks
        /\ Tail(sink.queue) = <<>>
    BY <1>1, <1>3, ReadySink
  <2> QED
    BY <2>1 DEF Sinks
<1> HIDE DEF next
<1> QED
  BY <1>1, <1>2, <1>3, <1>4, DrainAllKeeps

\* A step of the maintenance that fails with the file as it was.
LEMMA OperationFailsKeeps ==
  ASSUME CaptureInv, app = "up", sink.slot = "ready", OperationFails, UNCHANGED <<recording, save, app>>,
         disk' \in Disks, disk'.compact = disk.compact, disk'.backup = disk.backup, Kept'
  PROVE  CaptureInv'
<1>1. Typed'
  BY ReadySink, FailedIsTyped, CaptureAssumption DEF Typed, OperationFails, MayFail
<1> QED
  BY <1>1, SinkFails DEF OperationFails

LEMMA UnchangedIsKept ==
  ASSUME CaptureInv, app = "up", UNCHANGED <<disk, recording, app>>
  PROVE  Kept' /\ disk' \in Disks
<1>1. Kept /\ disk \in Disks
  BY UpIsKept DEF Typed
<1>2. File' = File
  BY DEF File, Exchanged
<1>3. \A b, n \in Nat : FileKept(b, n) => FileKept(b, n)'
  BY <1>2 DEF FileKept, Shaped, Open, TornAt, Complete, Holds, Checkpointed, SavedWithin
<1> QED
  BY <1>1, <1>2, <1>3 DEF Kept, NothingWritten, NothingSaved, Headless

LEMMA BecomesIs ==
  ASSUME sink \in Sinks, NEW s \in {"wait", "drain", "flush", "sidecar", "after", "sync", "remove"},
         Becomes(s)
  PROVE  /\ sink' \in Sinks /\ sink'.slot = sink.slot /\ sink'.closing = sink.closing
         /\ sink'.queue = sink.queue /\ sink'.pending = sink.pending /\ sink'.step = s
  BY DEF Sinks, Becomes

LEMMA PendingStays ==
  ASSUME NEW n \in Nat, Pending(n), UNCHANGED recording, sink'.pending = sink.pending,
         sink'.closing = sink.closing
  PROVE  Pending(n)'
  BY DEF Pending

LEMMA SyncDataKeeps ==
  ASSUME CaptureInv, SyncData
  PROVE  CaptureInv'
<1>1. /\ app = "up" /\ sink.slot = "ready" /\ sink.step = "flush" /\ Head(sink.queue) = "checkpoint"
      /\ UNCHANGED <<recording, save, app>>
  BY DEF SyncData, Maintain
<1>2. PICK n \in Nat : FileKept(0, n) /\ Stepping(n) /\ Pending(n)
  BY <1>1, ReadySink
<1>3. /\ Typed /\ disk \in Disks /\ sink \in Sinks /\ recording.saved \in Nat
      /\ disk.compact = NoFile /\ disk.backup = NoFile /\ ~ Exchanged /\ File = disk.capture
      /\ recording.output \in Nat
  BY <1>1, ReadySink
<1>4. /\ Open(disk.capture, 0, n) /\ sink.queue = <<"checkpoint">>
      /\ Len(disk.capture) = n + 1 /\ disk.durable <= n + 1 /\ disk.durable \in Nat
  <2>1. Open(disk.capture, 0, n) /\ sink.queue = Operations
    BY <1>1, <1>2 DEF Stepping
  <2>2. sink.queue = <<"checkpoint">>
    <3>1. Head(<<"close">>) = "close"
      OBVIOUS
    <3> QED
      BY <1>1, <2>1, <3>1 DEF Operations
  <2> QED
    BY <1>2, <1>3, <2>1, <2>2 DEF Open, FileKept, Disks
<1>5. CASE disk' = [disk EXCEPT !.durable = Len(disk.capture)] /\ Becomes("sidecar")
           /\ UNCHANGED capFaults
  <2>1. /\ disk' \in Disks /\ disk'.durable = n + 1 /\ disk'.capture = disk.capture
        /\ disk'.backup = NoFile /\ disk'.compact = NoFile /\ disk'.row = disk.row
        /\ disk'.state = disk.state
    <3> DEFINE len == Len(disk.capture)
    <3>1. len = n + 1 /\ len \in Nat /\ disk' = [disk EXCEPT !.durable = len]
      BY <1>4, <1>5
    <3> HIDE DEF len
    <3> QED
      BY <1>3, <3>1 DEF Disks
  <2>2. /\ sink' \in Sinks /\ sink'.slot = "ready" /\ sink'.closing = sink.closing
        /\ sink'.queue = sink.queue /\ sink'.pending = sink.pending /\ sink'.step = "sidecar"
    BY <1>1, <1>3, <1>5, BecomesIs
  <2>3. Typed'
    BY <1>1, <1>3, <1>5, <2>1, <2>2 DEF Typed
  <2>4. File' = File
    BY <1>3, <2>1 DEF File, Exchanged
  <2>5. FileKept(0, n)'
    <3>1. disk'.durable >= disk.durable /\ disk'.durable <= Len(File)
      BY <1>3, <1>4, <2>1
    <3>2. recording'.output >= recording.output /\ recording'.saved = recording.saved
      BY <1>1, <1>3
    <3> QED
      BY <1>2, <1>3, <2>1, <2>3, <2>4, <3>1, <3>2, KeptWithMore
  <2>6. Stepping(n)' /\ Pending(n)'
    BY <1>1, <1>2, <1>4, <2>1, <2>2, PendingStays DEF Stepping, Open, Holds
  <2> QED
    BY <1>1, <1>3, <2>1, <2>2, <2>3, <2>5, <2>6, SinkGoesOn
<1>6. CASE OperationFails /\ UNCHANGED disk
  BY <1>1, <1>6, UnchangedIsKept, OperationFailsKeeps
<1> QED
  BY <1>5, <1>6 DEF SyncData

LEMMA WriteCheckpointSidecarKeeps ==
  ASSUME CaptureInv, WriteCheckpointSidecar
  PROVE  CaptureInv'
<1>1. /\ app = "up" /\ sink.slot = "ready" /\ sink.step = "sidecar"
      /\ UNCHANGED <<recording, save, app>>
  BY DEF WriteCheckpointSidecar, Maintain
<1>2. PICK n \in Nat : FileKept(0, n) /\ Stepping(n) /\ Pending(n)
  BY <1>1, ReadySink
<1>3. /\ Typed /\ disk \in Disks /\ sink \in Sinks /\ recording.saved \in Nat
      /\ disk.compact = NoFile /\ disk.backup = NoFile /\ ~ Exchanged /\ File = disk.capture
  BY <1>1, ReadySink
<1>4. /\ Open(disk.capture, 0, n) /\ sink.queue = <<"checkpoint">> /\ disk.durable = n + 1
  BY <1>1, <1>2 DEF Stepping
<1>5. CASE disk' = [disk EXCEPT !.state = Written(disk.capture)] /\ Becomes("after")
           /\ UNCHANGED capFaults
  <2>1. Written(disk.capture) = Run(0, n) /\ Run(0, n) \in Seq(Nat)
    <3>1. Written(disk.capture) = Run(0, n)
      BY <1>4, ReadsBack DEF Shaped
    <3> QED
      BY <3>1, RunIs
  <2>2. /\ disk' \in Disks /\ disk'.durable = disk.durable /\ disk'.capture = disk.capture
        /\ disk'.backup = NoFile /\ disk'.compact = NoFile /\ disk'.row = disk.row
        /\ disk'.state = Run(0, n)
    BY <1>3, <1>5, <2>1 DEF Disks
  <2>3. /\ sink' \in Sinks /\ sink'.slot = "ready" /\ sink'.closing = sink.closing
        /\ sink'.queue = sink.queue /\ sink'.pending = sink.pending /\ sink'.step = "after"
    BY <1>1, <1>3, <1>5, BecomesIs
  <2>4. Typed'
    BY <1>1, <1>3, <1>5, <2>2, <2>3 DEF Typed
  <2>5. File' = File
    BY <1>3, <2>2 DEF File, Exchanged
  <2>6. Checkpointed(n)'
    BY <1>4, <2>2 DEF Checkpointed
  <2>7. FileKept(0, n)'
    <3>1. Shaped(File, 0, n)' /\ SavedWithin(0, n)'
      BY <1>1, <1>2, <2>2, <2>5
      DEF FileKept, SavedWithin, Shaped, Open, TornAt, Complete, Holds
    <3> QED
      BY <1>1, <1>2, <2>2, <2>5, <2>6, <3>1 DEF FileKept, Complete, Holds
  <2>8. Stepping(n)' /\ Pending(n)'
    BY <1>1, <1>2, <1>4, <2>2, <2>3, PendingStays DEF Stepping, Open, Holds
  <2> QED
    BY <1>1, <1>3, <2>2, <2>3, <2>4, <2>7, <2>8, SinkGoesOn
<1>6. CASE OperationFails /\ UNCHANGED disk
  BY <1>1, <1>6, UnchangedIsKept, OperationFailsKeeps
<1> QED
  BY <1>5, <1>6 DEF WriteCheckpointSidecar

LEMMA WriteFooterKeeps ==
  ASSUME CaptureInv, WriteFooter
  PROVE  CaptureInv'
<1>1. /\ app = "up" /\ sink.slot = "ready" /\ sink.step = "flush" /\ Head(sink.queue) = "close"
      /\ UNCHANGED <<recording, save, app>>
  BY DEF WriteFooter, Maintain
<1>2. PICK n \in Nat : FileKept(0, n) /\ Stepping(n) /\ Pending(n)
  BY <1>1, ReadySink
<1>3. /\ Typed /\ disk \in Disks /\ sink \in Sinks /\ recording.saved \in Nat
      /\ disk.compact = NoFile /\ disk.backup = NoFile /\ ~ Exchanged /\ File = disk.capture
      /\ recording.output \in Nat
  BY <1>1, ReadySink
<1>4. Open(disk.capture, 0, n) /\ sink.queue = <<"close">> /\ disk.capture \in Seq(Records)
  <2>1. Open(disk.capture, 0, n) /\ sink.queue = Operations
    BY <1>1, <1>2 DEF Stepping
  <2>2. sink.queue = <<"close">>
    <3>1. Head(<<"checkpoint">>) = "checkpoint"
      OBVIOUS
    <3> QED
      BY <1>1, <2>1, <3>1 DEF Operations
  <2> QED
    BY <2>1, <2>2, ShapedIsFile
<1>5. ASSUME NEW f, Shaped(f, 0, n), disk' = [disk EXCEPT !.capture = f]
      PROVE  /\ disk' \in Disks /\ disk'.compact = disk.compact /\ disk'.backup = disk.backup
             /\ disk'.capture = f /\ FileKept(0, n)'
  <2>1. f \in Files
    BY <1>5, ShapedIsFile DEF Shaped
  <2>2. /\ disk' \in Disks /\ disk'.capture = f /\ disk'.durable = disk.durable
        /\ disk'.state = disk.state /\ disk'.row = disk.row
        /\ disk'.compact = disk.compact /\ disk'.backup = disk.backup
    BY <1>3, <1>5, <2>1, CaptureTyped
  <2>3. n >= n /\ n <= recording'.output /\ recording'.saved = recording.saved
    BY <1>1, <1>2, <1>3 DEF FileKept
  <2> QED
    BY <1>2, <1>3, <1>4, <1>5, <2>2, <2>3, FileGrows
<1>6. CASE /\ disk' = [disk EXCEPT !.capture = Append(@, Footer(Len(Written(@)), Written(@)))]
           /\ Becomes("sync") /\ UNCHANGED capFaults
  <2> DEFINE f == Append(disk.capture, Footer(n, Run(0, n)))
  <2>1. Complete(f, 0, n)
    BY <1>4, Ends
  <2>2. disk' = [disk EXCEPT !.capture = f]
    <3>1. Written(disk.capture) = Run(0, n)
      BY <1>4, ReadsBack DEF Shaped
    <3>2. Len(Run(0, n)) = n
      BY RunIs
    <3> QED
      BY <1>6, <3>1, <3>2
  <2> HIDE DEF f
  <2>3. /\ disk' \in Disks /\ disk'.compact = disk.compact /\ disk'.backup = disk.backup
        /\ disk'.capture = f /\ FileKept(0, n)'
    BY <1>5, <2>1, <2>2 DEF Shaped
  <2>4. /\ sink' \in Sinks /\ sink'.slot = "ready" /\ sink'.closing = sink.closing
        /\ sink'.queue = sink.queue /\ sink'.pending = sink.pending /\ sink'.step = "sync"
    BY <1>1, <1>3, <1>6, BecomesIs
  <2>5. Typed'
    BY <1>1, <1>3, <1>6, <2>3, <2>4 DEF Typed
  <2>6. Stepping(n)' /\ Pending(n)'
    BY <1>1, <1>2, <1>4, <2>1, <2>3, <2>4, PendingStays DEF Stepping, Complete, Holds
  <2> QED
    BY <1>1, <2>3, <2>4, <2>5, <2>6, SinkGoesOn
<1>7. CASE /\ OperationFails
           /\ \E t \in {<<>>, <<Torn>>} : disk' = [disk EXCEPT !.capture = @ \o t]
  <2>1. PICK t \in {<<>>, <<Torn>>} : disk' = [disk EXCEPT !.capture = disk.capture \o t]
    BY <1>7
  <2> DEFINE f == disk.capture \o t
  <2>2. Shaped(f, 0, n)
    <3>1. t = <<>> => f = disk.capture
      BY <1>4, ConcatEmptySeq
    <3>2. t = <<Torn>> => f = Append(disk.capture, Torn)
      BY <1>4, RecordsAre, AppendIsConcat
    <3>3. TornAt(Append(disk.capture, Torn), 0, n)
      BY <1>4, Ends
    <3> HIDE DEF f
    <3> QED
      BY <1>4, <3>1, <3>2, <3>3 DEF Shaped
  <2>3. disk' = [disk EXCEPT !.capture = f]
    BY <2>1
  <2> HIDE DEF f
  <2>4. /\ disk' \in Disks /\ disk'.compact = disk.compact /\ disk'.backup = disk.backup
        /\ FileKept(0, n)'
    BY <1>5, <2>2, <2>3
  <2> QED
    BY <1>1, <1>7, <2>4, OperationFailsKeeps DEF Kept
<1> QED
  BY <1>6, <1>7 DEF WriteFooter

LEMMA SyncAllKeeps ==
  ASSUME CaptureInv, SyncAll
  PROVE  CaptureInv'
<1>1. /\ app = "up" /\ sink.slot = "ready" /\ sink.step = "sync"
      /\ UNCHANGED <<recording, save, app>>
  BY DEF SyncAll, Maintain
<1>2. PICK n \in Nat : FileKept(0, n) /\ Stepping(n) /\ Pending(n)
  BY <1>1, ReadySink
<1>3. /\ Typed /\ disk \in Disks /\ sink \in Sinks /\ recording.saved \in Nat
      /\ disk.compact = NoFile /\ disk.backup = NoFile /\ ~ Exchanged /\ File = disk.capture
      /\ recording.output \in Nat
  BY <1>1, ReadySink
<1>4. /\ Complete(disk.capture, 0, n) /\ sink.queue = <<"close">>
      /\ Len(disk.capture) = n + 2 /\ disk.durable <= n + 2 /\ disk.durable \in Nat
  <2>1. Complete(disk.capture, 0, n) /\ sink.queue = <<"close">>
    BY <1>1, <1>2 DEF Stepping
  <2> QED
    BY <1>2, <1>3, <2>1 DEF Complete, FileKept, Disks
<1>5. CASE disk' = [disk EXCEPT !.durable = Len(disk.capture)] /\ Becomes("remove")
           /\ UNCHANGED capFaults
  <2>1. /\ disk' \in Disks /\ disk'.durable = n + 2 /\ disk'.capture = disk.capture
        /\ disk'.backup = NoFile /\ disk'.compact = NoFile /\ disk'.row = disk.row
        /\ disk'.state = disk.state
    <3> DEFINE len == Len(disk.capture)
    <3>1. len = n + 2 /\ len \in Nat /\ disk' = [disk EXCEPT !.durable = len]
      BY <1>4, <1>5
    <3> HIDE DEF len
    <3> QED
      BY <1>3, <3>1 DEF Disks
  <2>2. /\ sink' \in Sinks /\ sink'.slot = "ready" /\ sink'.closing = sink.closing
        /\ sink'.queue = sink.queue /\ sink'.pending = sink.pending /\ sink'.step = "remove"
    BY <1>1, <1>3, <1>5, BecomesIs
  <2>3. Typed'
    BY <1>1, <1>3, <1>5, <2>1, <2>2 DEF Typed
  <2>4. File' = File
    BY <1>3, <2>1 DEF File, Exchanged
  <2>5. FileKept(0, n)'
    <3>1. disk'.durable >= disk.durable /\ disk'.durable <= Len(File)
      BY <1>3, <1>4, <2>1
    <3>2. recording'.output >= recording.output /\ recording'.saved = recording.saved
      BY <1>1, <1>3
    <3> QED
      BY <1>2, <1>3, <2>1, <2>3, <2>4, <3>1, <3>2, KeptWithMore
  <2>6. Stepping(n)' /\ Pending(n)'
    BY <1>1, <1>2, <1>4, <2>1, <2>2, PendingStays DEF Stepping, Complete, Holds
  <2> QED
    BY <1>1, <1>3, <2>1, <2>2, <2>3, <2>5, <2>6, SinkGoesOn
<1>6. CASE OperationFails /\ UNCHANGED disk
  BY <1>1, <1>6, UnchangedIsKept, OperationFailsKeeps
<1> QED
  BY <1>5, <1>6 DEF SyncAll

LEMMA RemoveCheckpointSidecarKeeps ==
  ASSUME CaptureInv, RemoveCheckpointSidecar
  PROVE  CaptureInv'
<1>1. /\ app = "up" /\ sink.slot = "ready" /\ sink.step = "remove"
      /\ UNCHANGED <<recording, save, app>>
  BY DEF RemoveCheckpointSidecar, Maintain
<1>2. PICK n \in Nat : FileKept(0, n) /\ Stepping(n) /\ Pending(n)
  BY <1>1, ReadySink
<1>3. /\ Typed /\ disk \in Disks /\ sink \in Sinks /\ recording.saved \in Nat
      /\ disk.compact = NoFile /\ disk.backup = NoFile /\ ~ Exchanged /\ File = disk.capture
      /\ sink.queue = <<"close">> => sink.closing
  BY <1>1, ReadySink
<1>4. /\ Complete(disk.capture, 0, n) /\ sink.queue = <<"close">> /\ disk.durable = n + 2
      /\ sink.closing /\ ~ recording.active
  BY <1>1, <1>2, <1>3, UpIsKept DEF Stepping, Sinking
<1>5. CASE /\ disk' = [disk EXCEPT !.state = NoFile]
           /\ sink' = [sink EXCEPT !.slot = "closed", !.queue = <<>>, !.step = "wait"]
           /\ UNCHANGED capFaults
  <2>1. /\ disk' \in Disks /\ disk'.durable = disk.durable /\ disk'.capture = disk.capture
        /\ disk'.backup = NoFile /\ disk'.compact = NoFile /\ disk'.row = disk.row
        /\ disk'.state = NoFile
    BY <1>3, <1>5 DEF Disks
  <2>2. /\ sink' \in Sinks /\ sink'.slot = "closed" /\ sink'.closing = sink.closing
        /\ sink'.queue = <<>>
    <3>1. <<>> \in Seq({"checkpoint", "close"})
      OBVIOUS
    <3> QED
      BY <1>3, <1>5, <3>1 DEF Sinks
  <2>3. Typed'
    BY <1>1, <1>3, <1>5, <2>1, <2>2 DEF Typed
  <2>4. File' = File
    BY <1>3, <2>1 DEF File, Exchanged
  <2>5. FileKept(0, n)' /\ Complete(File, 0, n)'
    <3>1. /\ Shaped(File, 0, n)' /\ SavedWithin(0, n)' /\ Checkpointed(n)'
          /\ Complete(File, 0, n)'
      BY <1>1, <1>2, <1>3, <1>4, <2>1, <2>4
      DEF FileKept, SavedWithin, Checkpointed, Shaped, Open, TornAt, Complete, Holds
    <3> QED
      BY <1>1, <1>2, <2>1, <2>4, <3>1 DEF FileKept, Complete, Holds
  <2>6. Kept' /\ ~ Lost' /\ Compacting'
    BY <1>1, <1>3, <2>1, <2>5, UpIsKept DEF Kept, Lost, Compacting, Exchanged
  <2>7. Sinking'
    BY <1>1, <1>4, <2>1, <2>2, <2>5 DEF Sinking
  <2>8. Saving'
    BY <1>1, <1>4, <2>2, UpIsKept DEF Saving, Quiet
  <2> QED
    BY <1>1, <2>3, <2>6, <2>7, <2>8 DEF CaptureInv
<1>6. CASE OperationFails /\ UNCHANGED disk
  BY <1>1, <1>6, UnchangedIsKept, OperationFailsKeeps
<1> QED
  BY <1>5, <1>6 DEF RemoveCheckpointSidecar

-----------------------------------------------------------------------------
(* Steps of a save.                                                          *)

\* What holds of the files does not depend on the sink or the save.
LEMMA FilesStay ==
  ASSUME CaptureInv, app = "up", save.pc # "retain", save'.pc # "retain",
         UNCHANGED <<disk, app>>, recording'.saved = recording.saved,
         recording'.output = recording.output
  PROVE  Kept' /\ Compacting' /\ ~ Lost' /\ File' = File
         /\ \A b, n \in Nat : FileKept(b, n) => FileKept(b, n)'
<1>1. Kept /\ ~ Lost /\ disk.compact = NoFile /\ disk.backup = NoFile
  BY UpIsKept, NotExchanged
<1>2. File' = File
  BY DEF File, Exchanged
<1>3. \A b, n \in Nat : FileKept(b, n) => FileKept(b, n)'
  BY <1>2 DEF FileKept, Shaped, Open, TornAt, Complete, Holds, Checkpointed, SavedWithin
<1> QED
  BY <1>1, <1>2, <1>3
  DEF Kept, NothingWritten, NothingSaved, Headless, Compacting, Exchanged, Lost

LEMMA FinishKeeps ==
  ASSUME CaptureInv, Finish
  PROVE  CaptureInv'
<1>1. /\ app = "up" /\ recording.active /\ recording' = [recording EXCEPT !.active = FALSE]
      /\ UNCHANGED <<disk, sink, save, app, capFaults>>
  BY DEF Finish
<1>2. Typed /\ Sinking /\ Saving
  BY <1>1, UpIsKept
<1>3. /\ ~ recording'.active /\ recording'.output = recording.output
      /\ recording'.saved = recording.saved /\ Typed'
  BY <1>1, <1>2 DEF Typed
<1>4. save.pc # "retain"
  BY <1>1, <1>2 DEF Saving
<1>5. Kept' /\ Compacting' /\ ~ Lost' /\ File' = File
      /\ \A b, n \in Nat : FileKept(b, n) => FileKept(b, n)'
  BY <1>1, <1>3, <1>4, FilesStay
<1>6. \A n \in Nat : (Stepping(n) => Stepping(n)') /\ (Pending(n) => Pending(n)')
  BY <1>1, <1>3 DEF Stepping, Operations, Open, Complete, Holds, Pending
<1>7. Sinking'
  BY <1>1, <1>2, <1>3, <1>5, <1>6 DEF Sinking
<1>8. Saving'
  BY <1>1, <1>2, <1>3 DEF Saving, Quiet
<1> QED
  BY <1>1, <1>3, <1>5, <1>7, <1>8 DEF CaptureInv

LEMMA CheckpointCapturesKeeps ==
  ASSUME CaptureInv, CheckpointCaptures
  PROVE  CaptureInv'
<1>1. /\ app = "up" /\ save.pc = "idle" /\ save' = [pc |-> "maintain", finished |-> ~ recording.active]
      /\ UNCHANGED <<disk, recording, app, capFaults>>
  BY DEF CheckpointCaptures
<1>2. Typed /\ Sinking /\ Saving /\ sink \in Sinks /\ recording.active \in BOOLEAN
  BY <1>1, UpIsKept DEF Typed
<1>3. sink.queue = <<>> /\ (sink.slot \in {"opening", "ready"} => ~ sink.closing)
  BY <1>1, <1>2 DEF Sinking
<1>4. /\ save'.pc = "maintain" /\ save'.finished = ~ recording.active
      /\ save' \in [pc : {"idle", "maintain", "retain"}, finished : BOOLEAN]
  BY <1>1, <1>2
<1>5. Kept' /\ Compacting' /\ ~ Lost' /\ File' = File
      /\ \A b, n \in Nat : FileKept(b, n) => FileKept(b, n)'
  BY <1>1, <1>4, FilesStay
<1>6. CASE sink.slot \in {"opening", "ready"}
  <2> DEFINE op == IF recording.active THEN "checkpoint" ELSE "close"
  <2>1. sink' = [sink EXCEPT !.closing = ~ recording.active, !.queue = Append(@, op)]
    BY <1>3, <1>6 DEF CheckpointCaptures
  <2>2. Append(sink.queue, op) = <<op>> /\ <<op>> \in Seq({"checkpoint", "close"})
    BY <1>3
  <2> HIDE DEF op
  <2>3. /\ sink' \in Sinks /\ sink'.slot = sink.slot /\ sink'.step = sink.step
        /\ sink'.pending = sink.pending /\ sink'.closing = ~ recording.active
        /\ sink'.queue = <<op>>
    BY <1>2, <2>1, <2>2 DEF Sinks
  <2>4. Typed'
    BY <1>1, <1>2, <1>4, <2>3 DEF Typed
  <2>5. /\ sink'.closing => sink'.queue = <<"close">> /\ ~ recording.active
        /\ ~ sink'.closing => sink'.queue = <<"checkpoint">>
        /\ <<"close">> # <<"checkpoint">> /\ <<"close">> # <<>> /\ <<"checkpoint">> # <<>>
    <3>1. CASE recording.active
      BY <1>2, <2>3, <3>1 DEF op
    <3>2. CASE ~ recording.active
      BY <1>2, <2>3, <3>2 DEF op
    <3> QED
      BY <3>1, <3>2
  <2>6. \A n \in Nat : Pending(n) => Pending(n)'
    BY <1>1, <1>2, <1>3, <1>6, <2>3 DEF Pending
  <2>7. \A n \in Nat : Stepping(n) => Stepping(n)'
    <3>1. sink.step \in {"flush", "sidecar", "after", "sync", "remove"} =>
            \A n \in Nat : ~ Stepping(n)
      BY <1>3 DEF Stepping, Operations
    <3> QED
      BY <1>1, <2>3, <2>5, <3>1 DEF Stepping, Open, Holds
  <2>8. Sinking'
    <3>1. sink'.slot = "ready" => \E n \in Nat : (FileKept(0, n) /\ Stepping(n) /\ Pending(n))'
      BY <1>2, <1>5, <2>3, <2>6, <2>7 DEF Sinking
    <3>2. sink'.slot = "opening" => File' = NoFile /\ sink'.step = "wait" /\ Pending(0)'
      BY <1>2, <1>5, <2>3, <2>6 DEF Sinking
    <3>3. /\ sink'.queue \in {<<>>, <<"checkpoint">>, <<"close">>}
          /\ sink'.queue = <<"checkpoint">> => ~ sink'.closing
          /\ sink'.queue = <<"close">> => sink'.closing
          /\ sink'.closing => ~ recording'.active /\ sink'.queue = <<"close">>
      BY <1>1, <2>5
    <3> QED
      BY <1>4, <1>6, <2>3, <3>1, <3>2, <3>3 DEF Sinking
  <2>9. Saving'
    BY <1>1, <1>2, <1>4, <2>3 DEF Saving
  <2> QED
    BY <1>1, <1>5, <2>4, <2>8, <2>9 DEF CaptureInv
<1>7. CASE sink.slot \notin {"opening", "ready"}
  <2>1. sink' = sink
    BY <1>7 DEF CheckpointCaptures
  <2>2. Typed'
    BY <1>1, <1>2, <1>4, <2>1 DEF Typed
  <2>3. Sinking'
    BY <1>1, <1>2, <1>3, <1>5, <1>7, <2>1 DEF Sinking, Complete, Holds
  <2>4. Saving'
    BY <1>1, <1>2, <1>4, <1>7, <2>1 DEF Saving, Quiet, Typed, Sinks
  <2> QED
    BY <1>1, <1>5, <2>2, <2>3, <2>4 DEF CaptureInv
<1> QED
  BY <1>6, <1>7

LEMMA NewestRun ==
  ASSUME NEW b \in Nat, NEW n \in Nat
  PROVE  Newest(Run(b, n)) = IF n = 0 THEN 0 ELSE b + n
<1>1. /\ Run(b, n) \in Seq(Nat) /\ Len(Run(b, n)) = n /\ \A i \in 1 .. n : Run(b, n)[i] = b + i
  BY RunIs
<1>2. Run(b, n) = <<>> <=> n = 0
  BY <1>1, EmptySeq
<1>3. CASE n = 0
  BY <1>2, <1>3 DEF Newest
<1>4. CASE n # 0
  <2>1. n \in 1 .. n
    BY <1>4
  <2>2. Run(b, n)[n] = b + n
    BY <1>1, <2>1
  <2> QED
    BY <1>1, <1>2, <1>4, <2>2 DEF Newest
<1> QED
  BY <1>3, <1>4

LEMMA SaveRowKeeps ==
  ASSUME CaptureInv, SaveRow
  PROVE  CaptureInv'
<1> DEFINE reported == IF sink.slot = "closed" /\ disk.state = NoFile
                       THEN Newest(Written(disk.capture))
                       ELSE IF disk.state = NoFile THEN recording.saved ELSE Newest(disk.state)
<1>1. /\ app = "up" /\ save.pc = "maintain" /\ sink.queue = <<>> /\ UNCHANGED <<sink, app, capFaults>>
      /\ disk' = [disk EXCEPT !.row = SavedRow]
      /\ recording' = [recording EXCEPT !.saved = reported]
      /\ save' = [save EXCEPT !.pc = IF save.finished THEN "retain" ELSE "idle"]
  BY DEF SaveRow
<1>2. /\ Typed /\ Sinking /\ Saving /\ Kept /\ Compacting /\ disk \in Disks /\ sink \in Sinks
      /\ recording.saved \in Nat /\ recording.output \in 0 .. MaxOutput /\ recording.output \in Nat
      /\ recording \in [active : BOOLEAN, output : 0 .. MaxOutput, saved : -1 .. MaxOutput]
      /\ recording.saved <= recording.output
      /\ save \in [pc : {"idle", "maintain", "retain"}, finished : BOOLEAN]
  BY <1>1, UpIsKept, CaptureAssumption DEF Typed
<1>3. disk.compact = NoFile /\ disk.backup = NoFile /\ ~ Exchanged /\ File = disk.capture
  BY <1>1, NotExchanged
<1>4. /\ save'.finished = save.finished /\ save'.pc = (IF save.finished THEN "retain" ELSE "idle")
      /\ save' \in [pc : {"idle", "maintain", "retain"}, finished : BOOLEAN]
  BY <1>1, <1>2
<1>5. SavedRow \in {"none", "incomplete", "complete"}
  BY DEF SavedRow
<1>6. /\ disk' \in Disks /\ disk'.capture = disk.capture /\ disk'.durable = disk.durable
      /\ disk'.state = disk.state /\ disk'.compact = NoFile /\ disk'.backup = NoFile
      /\ disk'.row = SavedRow /\ File' = File
  <2>1. disk' \in Disks /\ disk'.capture = disk.capture /\ disk'.durable = disk.durable
        /\ disk'.state = disk.state /\ disk'.compact = disk.compact /\ disk'.backup = disk.backup
        /\ disk'.row = SavedRow
    BY <1>1, <1>2, <1>5 DEF Disks
  <2> QED
    BY <1>3, <2>1 DEF File, Exchanged
<1>7. sink.slot = "closed" => /\ ~ recording.active /\ disk.state = NoFile
                              /\ \E b, n \in Nat : /\ FileKept(b, n) /\ Complete(File, b, n)
                                                   /\ disk.durable = n + 2
  BY <1>2 DEF Sinking
<1>8. ASSUME NEW b \in Nat, NEW n \in Nat, FileKept(b, n)
      PROVE  /\ reported \in Nat /\ reported <= recording.output
             /\ disk.capture # NoFile
             /\ reported = recording.saved \/ (reported <= b + n /\ reported + 1 <= b + disk.durable)
             /\ sink.slot = "closed" => Complete(File, b, n) /\ disk.durable = Len(File)
  <2>1. Shaped(disk.capture, b, n) /\ b + n <= recording.output /\ disk.durable \in Nat
    BY <1>2, <1>3, <1>8 DEF FileKept, Disks
  <2>2. sink.slot = "closed" => /\ Complete(File, b, n) /\ disk.durable = n + 2 /\ Len(File) = n + 2
    <3> SUFFICES ASSUME sink.slot = "closed"
                 PROVE  Complete(File, b, n) /\ disk.durable = n + 2 /\ Len(File) = n + 2
      OBVIOUS
    <3>1. PICK c \in Nat, m \in Nat : FileKept(c, m) /\ Complete(File, c, m) /\ disk.durable = m + 2
      BY <1>7
    <3>2. Shaped(File, c, m) /\ Shaped(File, b, n)
      BY <1>3, <2>1, <3>1 DEF Shaped
    <3>3. n = m /\ Complete(File, b, n)
      BY <3>1, <3>2, SameShape
    <3> QED
      BY <3>1, <3>3 DEF Complete
  <2>3. Newest(Written(disk.capture)) = IF n = 0 THEN 0 ELSE b + n
    <3>1. Written(disk.capture) = Run(b, n)
      BY <2>1, ReadsBack
    <3> QED
      BY <3>1, NewestRun
  <2>4. disk.state # NoFile =>
          /\ Newest(disk.state) \in Nat /\ Newest(disk.state) <= b + n
          /\ Newest(disk.state) + 1 <= b + disk.durable
    <3> SUFFICES ASSUME disk.state # NoFile
                 PROVE  /\ Newest(disk.state) \in Nat /\ Newest(disk.state) <= b + n
                        /\ Newest(disk.state) + 1 <= b + disk.durable
      OBVIOUS
    <3>1. PICK k \in 0 .. n : disk.state = Run(0, k) /\ k + 1 <= disk.durable
      BY <1>8 DEF FileKept, Checkpointed
    <3>2. k \in Nat
      OBVIOUS
    <3>3. Newest(Run(0, k)) = IF k = 0 THEN 0 ELSE 0 + k
      BY <3>2, NewestRun
    <3>4. Newest(disk.state) = k
      BY <3>1, <3>2, <3>3
    <3> QED
      BY <2>1, <3>1, <3>2, <3>4
  <2>5. disk.capture # NoFile
    BY <2>1, SameShape
  <2>6. CASE sink.slot = "closed" /\ disk.state = NoFile
    <3>1. reported = IF n = 0 THEN 0 ELSE b + n
      BY <2>3, <2>6
    <3> HIDE DEF reported
    <3>2. reported \in Nat /\ reported <= b + n /\ reported + 1 <= b + disk.durable
      BY <2>1, <2>2, <2>6, <3>1
    <3>3. reported <= recording.output
      BY <1>2, <2>1, <3>2
    <3> QED
      BY <2>2, <2>5, <3>2, <3>3
  <2>7. CASE sink.slot # "closed" /\ disk.state = NoFile
    BY <1>2, <2>5, <2>7
  <2>8. CASE disk.state # NoFile
    <3>1. reported = Newest(disk.state) /\ sink.slot # "closed"
      BY <1>7, <2>8
    <3> HIDE DEF reported
    <3>2. reported \in Nat /\ reported <= b + n /\ reported + 1 <= b + disk.durable
      BY <2>4, <2>8, <3>1
    <3>3. reported <= recording.output
      BY <1>2, <2>1, <3>2
    <3> QED
      BY <2>5, <3>1, <3>2, <3>3
  <2> QED
    BY <2>6, <2>7, <2>8
<1>9. File = NoFile => sink.slot # "closed" /\ disk.state = NoFile /\ NothingSaved
  <2> SUFFICES ASSUME File = NoFile PROVE sink.slot # "closed" /\ disk.state = NoFile /\ NothingSaved
    OBVIOUS
  <2>1. disk.state = NoFile /\ NothingSaved
    BY <1>1, OpeningFile
  <2>2. \A b, n \in Nat : ~ FileKept(b, n)
    BY SameShape DEF FileKept
  <2> QED
    BY <1>7, <2>1, <2>2
<1>10. File = NoFile \/ \E b, n \in Nat : FileKept(b, n)
  BY <1>1, <1>2 DEF Kept
<1>11. reported \in Nat /\ reported <= recording.output
  BY <1>2, <1>8, <1>9, <1>10
<1> HIDE DEF reported
<1>12. /\ recording'.active = recording.active /\ recording'.output = recording.output
       /\ recording'.saved = reported
       /\ recording' \in [active : BOOLEAN, output : 0 .. MaxOutput, saved : -1 .. MaxOutput]
  <2>1. reported \in -1 .. MaxOutput
    BY <1>2, <1>11, CaptureAssumption
  <2> QED
    BY <1>1, <1>2, <2>1
<1>13. Typed' /\ ~ Lost'
  BY <1>1, <1>2, <1>4, <1>6, <1>11, <1>12 DEF Typed, Lost
<1>14. ASSUME NEW b \in Nat, NEW n \in Nat, FileKept(b, n) PROVE FileKept(b, n)'
  <2>1. /\ disk.capture # NoFile
        /\ reported = recording.saved \/ (reported <= b + n /\ reported + 1 <= b + disk.durable)
        /\ sink.slot = "closed" => Complete(File, b, n) /\ disk.durable = Len(File)
    BY <1>8, <1>14
  <2>2. Shaped(File, b, n)' /\ Checkpointed(n)'
    BY <1>6, <1>14 DEF FileKept, Checkpointed, Shaped, Open, TornAt, Complete, Holds
  <2>3. SavedWithin(b, n)'
    <3>1. disk'.row # "none"
      BY <1>6, <2>1 DEF SavedRow
    <3> QED
      BY <1>6, <1>12, <1>14, <2>1, <3>1 DEF FileKept, SavedWithin
  <2>4. disk'.row = "complete" => sink.slot = "closed"
    BY <1>6 DEF SavedRow
  <2> QED
    BY <1>6, <1>12, <1>14, <2>1, <2>2, <2>3, <2>4 DEF FileKept, Complete, Holds
<1>15. Kept'
  <2>1. CASE File = NoFile
    <3>1. disk'.row = "none"
      BY <1>3, <1>6, <2>1 DEF SavedRow
    <3>2. reported = recording.saved
      BY <1>9, <2>1 DEF reported
    <3> QED
      BY <1>6, <1>9, <1>12, <2>1, <3>1, <3>2 DEF Kept, NothingWritten, NothingSaved
  <2>2. CASE \E b, n \in Nat : FileKept(b, n)
    BY <1>14, <2>2 DEF Kept
  <2> QED
    BY <1>10, <2>1, <2>2
<1>16. Compacting'
  BY <1>6 DEF Compacting, Exchanged
<1>17. Sinking'
  <2>1. \A n \in Nat : (Stepping(n) => Stepping(n)') /\ (Pending(n) => Pending(n)')
    BY <1>1, <1>6, <1>12 DEF Stepping, Operations, Open, Complete, Holds, Pending
  <2>2. \A b, n \in Nat : Complete(File, b, n) => Complete(File, b, n)'
    BY <1>6 DEF Complete, Holds
  <2> QED
    BY <1>1, <1>2, <1>6, <1>12, <1>14, <2>1, <2>2 DEF Sinking
<1>18. Saving'
  BY <1>1, <1>2, <1>4, <1>12 DEF Saving, Sinking, Quiet, Sinks
<1> QED
  BY <1>1, <1>13, <1>15, <1>16, <1>17, <1>18 DEF CaptureInv

-----------------------------------------------------------------------------
(* Retention.                                                                *)

LEMMA RetainingWhere ==
  ASSUME CaptureInv, Retaining
  PROVE  /\ (app = "up" /\ save.pc = "retain") \/ app = "retain"
         /\ app # "up" => Starting
         /\ Lost => disk.compact = NoFile /\ disk.backup = NoFile /\ disk.capture = NoFile
         /\ Typed /\ disk \in Disks
<1>1. save.pc = "retain" => app = "up"
  BY DEF CaptureInv, Starting, NoSave
<1>2. Lost => app # "up" /\ disk.capture = NoFile
  BY UpIsKept DEF CaptureInv, CutExchange
<1> QED
  BY <1>1, <1>2 DEF CaptureInv, Retaining, CutExchange, Typed

\* While captures are exchanged, nothing else goes on.
LEMMA RetentionFrame ==
  ASSUME CaptureInv, Retaining, UNCHANGED <<sink, recording>>,
         UNCHANGED <<save, app>> \/ RetentionOver, File = NoFile => File' = NoFile,
         app = "up" /\ sink.slot = "closed" =>
           /\ disk'.state = NoFile
           /\ \E b, n \in Nat : (FileKept(b, n) /\ Complete(File, b, n) /\ disk.durable = n + 2)'
  PROVE  IF app' = "up" THEN Sinking' /\ Saving' ELSE Starting'
<1>1. CASE app = "up"
  <2>1. app' = "up" /\ Sinking /\ Saving /\ save.pc = "retain" /\ Quiet
    BY <1>1, UpIsKept, RetainingWhere DEF RetentionOver, Saving
  <2>2. sink.queue = <<>>
    BY <2>1 DEF Sinking, Quiet
  <2>3. Sinking'
    BY <1>1, <2>1, <2>2 DEF Sinking, Quiet
  <2>4. Saving'
    BY <2>1 DEF Saving, Quiet, RetentionOver, NoSave
  <2> QED
    BY <2>1, <2>3, <2>4
<1>2. CASE app = "retain"
  <2>1. app' \in {"retain", "back"} /\ Starting
    BY <1>2, RetainingWhere DEF RetentionOver
  <2>2. Starting'
    BY <2>1 DEF Starting, RetentionOver
  <2> QED
    BY <2>1, <2>2
<1> QED
  BY <1>1, <1>2, RetainingWhere

LEMMA RetentionTyped ==
  ASSUME Typed, disk' \in Disks, capFaults' \in 0 .. MaxFaults, UNCHANGED <<sink, recording>>,
         UNCHANGED <<save, app>> \/ RetentionOver
  PROVE  Typed'
<1>1. /\ app' \in {"up", "down", "footer", "sync", "unstate", "row", "clean", "retain", "back"}
      /\ save' \in [pc : {"idle", "maintain", "retain"}, finished : BOOLEAN]
  <2>1. CASE UNCHANGED <<save, app>>
    BY <2>1 DEF Typed
  <2>2. CASE RetentionOver
    <3>1. app' \in {"up", "back"}
      BY <2>2 DEF RetentionOver
    <3>2. save' \in [pc : {"idle", "maintain", "retain"}, finished : BOOLEAN]
      BY <2>2 DEF RetentionOver, NoSave
    <3> QED
      BY <3>1, <3>2
  <2> QED
    BY <2>1, <2>2
<1> QED
  BY <1>1 DEF Typed

LEMMA FileKeptStays ==
  ASSUME NEW b \in Nat, NEW n \in Nat, FileKept(b, n), File' = File, UNCHANGED recording,
         disk'.row = disk.row, disk'.state = disk.state, disk'.durable = disk.durable
  PROVE  FileKept(b, n)'
  BY DEF FileKept, Shaped, Open, TornAt, Complete, Holds, Checkpointed, SavedWithin

LEMMA NothingToRetainKeeps ==
  ASSUME CaptureInv, NothingToRetain
  PROVE  CaptureInv'
<1>1. /\ Retaining /\ disk.compact = NoFile /\ disk.backup = NoFile /\ RetentionOver
      /\ UNCHANGED <<disk, sink, recording, capFaults>>
  BY DEF NothingToRetain
<1>2. /\ ((app = "up" /\ save.pc = "retain") \/ app = "retain") /\ Typed /\ disk \in Disks
      /\ app' = (IF app = "up" THEN "up" ELSE "back")
  BY <1>1, RetainingWhere DEF RetentionOver
<1>3. File' = File
  BY <1>1 DEF File, Exchanged
<1>4. \A b, n \in Nat : FileKept(b, n) => FileKept(b, n)'
  BY <1>1, <1>3, FileKeptStays
<1>5. Typed'
  BY <1>1, <1>2, RetentionTyped DEF Typed
<1>6. IF app' = "up" THEN Sinking' /\ Saving' ELSE Starting'
  <2>1. app = "up" /\ sink.slot = "closed" =>
          /\ disk'.state = NoFile
          /\ \E b, n \in Nat : (FileKept(b, n) /\ Complete(File, b, n) /\ disk.durable = n + 2)'
    BY <1>1, <1>3, <1>4, UpIsKept DEF Sinking, Complete, Holds
  <2> QED
    BY <1>1, <1>3, <2>1, RetentionFrame
<1>7. IF Lost' THEN CutExchange' ELSE Kept' /\ Compacting'
  <2>1. CASE Lost
    BY <1>1, <1>2, <2>1 DEF CaptureInv, CutExchange, Lost
  <2>2. CASE ~ Lost
    <3>1. Kept
      BY <2>2 DEF CaptureInv
    <3>2. Kept'
      BY <1>1, <1>2, <1>3, <1>4, <3>1 DEF Kept, NothingWritten, NothingSaved, Headless
    <3> QED
      BY <1>1, <2>2, <3>2 DEF Compacting, Exchanged, Lost
  <2> QED
    BY <2>1, <2>2
<1> QED
  BY <1>5, <1>6, <1>7 DEF CaptureInv

LEMMA CompactKeeps ==
  ASSUME CaptureInv, Compact
  PROVE  CaptureInv'
<1>1. /\ Retaining /\ disk.capture # NoFile /\ VerifyComplete(disk.capture)
      /\ Whole(disk.capture) > MaxKept /\ disk' = [disk EXCEPT !.compact = Compacted(disk.capture)]
      /\ UNCHANGED <<sink, recording, save, app, capFaults>>
  BY DEF Compact, Oversized, Compacted
<1>2. /\ ((app = "up" /\ save.pc = "retain") \/ app = "retain") /\ Typed /\ disk \in Disks /\ ~ Lost
  BY <1>1, RetainingWhere
<1>3. Kept /\ Compacting
  BY <1>2 DEF CaptureInv
<1>4. ~ Exchanged /\ File = disk.capture
  BY <1>1, <1>3 DEF Compacting, File
<1>5. PICK b \in Nat, n \in Nat : FileKept(b, n)
  <2>1. ~ Headless(File)
    <3>1. HasHeader(File)
      BY <1>1, <1>4 DEF VerifyComplete
    <3>2. <<Torn>>[1] = Torn /\ Torn.kind # "header"
      BY DEF Torn
    <3> QED
      BY <3>1, <3>2 DEF Headless, HasHeader
  <2> QED
    BY <1>1, <1>3, <1>4, <2>1 DEF Kept
<1>6. Complete(File, b, n) /\ n > MaxKept
  <2>1. Shaped(File, b, n)
    BY <1>5 DEF FileKept
  <2> QED
    BY <1>1, <1>4, <2>1, ReadsBack, VerifiesIff
<1>7. Complete(Compacted(disk.capture), b + n - MaxKept, MaxKept)
  BY <1>4, <1>6, CompactedIs
<1> DEFINE f == Compacted(disk.capture)
<1> HIDE DEF f
<1>8. f \in Files /\ f # NoFile /\ Complete(f, b + n - MaxKept, MaxKept)
  BY <1>7, ShapedIsFile, CaptureAssumption DEF f, Files
<1>9. /\ disk' \in Disks /\ disk'.compact = f /\ disk'.capture = disk.capture
      /\ disk'.backup = disk.backup /\ disk'.row = disk.row /\ disk'.state = disk.state
      /\ disk'.durable = disk.durable
  BY <1>1, <1>2, <1>8 DEF Disks, f
<1>10. File' = File /\ ~ Exchanged' /\ Retaining'
  BY <1>1, <1>4, <1>9 DEF File, Exchanged, Retaining
<1>11. \A c, m \in Nat : FileKept(c, m) => FileKept(c, m)'
  BY <1>1, <1>9, <1>10, FileKeptStays
<1>12. Typed'
  BY <1>1, <1>2, <1>9, RetentionTyped DEF Typed
<1>13. IF app' = "up" THEN Sinking' /\ Saving' ELSE Starting'
  <2>1. app = "up" /\ sink.slot = "closed" =>
          /\ disk'.state = NoFile
          /\ \E c, m \in Nat : (FileKept(c, m) /\ Complete(File, c, m) /\ disk.durable = m + 2)'
    BY <1>1, <1>9, <1>10, <1>11, UpIsKept DEF Sinking, Complete, Holds
  <2> QED
    BY <1>1, <1>10, <2>1, RetentionFrame
<1>14. Kept' /\ ~ Lost'
  BY <1>1, <1>2, <1>5, <1>11 DEF Kept, Lost
<1>15. Compacting'
  <2>1. (Complete(File, b, n) /\ Complete(disk.compact, b + n - MaxKept, MaxKept))'
    BY <1>6, <1>8, <1>9, <1>10 DEF Complete, Holds
  <2> QED
    BY <1>5, <1>6, <1>10, <1>11, <2>1 DEF Compacting
<1> QED
  BY <1>12, <1>13, <1>14, <1>15 DEF CaptureInv

LEMMA ExchangeFrom ==
  ASSUME CaptureInv, Retaining, disk.compact # NoFile \/ disk.backup # NoFile
  PROVE  /\ ((app = "up" /\ save.pc = "retain") \/ app = "retain") /\ Typed /\ disk \in Disks /\ ~ Lost
         /\ Kept /\ disk.compact # NoFile
         /\ Exchanged => disk.capture = NoFile
         /\ \E b, n \in Nat :
              /\ FileKept(b, n) /\ Complete(File, b, n) /\ n > MaxKept
              /\ Complete(disk.compact, b + n - MaxKept, MaxKept)
<1>1. /\ ((app = "up" /\ save.pc = "retain") \/ app = "retain") /\ Typed /\ disk \in Disks /\ ~ Lost
  BY RetainingWhere
<1>2. Kept /\ Compacting
  BY <1>1 DEF CaptureInv
<1> QED
  BY <1>1, <1>2 DEF Compacting, Exchanged

LEMMA MoveToBackupKeeps ==
  ASSUME CaptureInv, MoveToBackup
  PROVE  CaptureInv'
<1>1. /\ Retaining /\ disk.compact # NoFile /\ disk.backup = NoFile
      /\ disk' = [disk EXCEPT !.backup = disk.capture, !.capture = NoFile]
      /\ UNCHANGED <<sink, recording, save, app, capFaults>>
  BY DEF MoveToBackup
<1>2. /\ ((app = "up" /\ save.pc = "retain") \/ app = "retain") /\ Typed /\ disk \in Disks /\ ~ Lost
      /\ Kept
  BY <1>1, ExchangeFrom
<1>3. PICK b \in Nat, n \in Nat :
        /\ FileKept(b, n) /\ Complete(File, b, n) /\ n > MaxKept
        /\ Complete(disk.compact, b + n - MaxKept, MaxKept)
  BY <1>1, ExchangeFrom
<1>4. File = disk.capture /\ disk.capture # NoFile
  BY <1>1, <1>3, SameShape DEF File, Exchanged, FileKept
<1>5. /\ disk' \in Disks /\ disk'.compact = disk.compact /\ disk'.capture = NoFile
      /\ disk'.backup = disk.capture /\ disk'.row = disk.row /\ disk'.state = disk.state
      /\ disk'.durable = disk.durable
  BY <1>1, <1>2 DEF Disks, Files
<1>6. File' = File /\ Exchanged' /\ Retaining'
  BY <1>1, <1>4, <1>5 DEF File, Exchanged, Retaining
<1>7. \A c, m \in Nat : FileKept(c, m) => FileKept(c, m)'
  BY <1>1, <1>5, <1>6, FileKeptStays
<1>8. Typed'
  BY <1>1, <1>2, <1>5, RetentionTyped DEF Typed
<1>9. IF app' = "up" THEN Sinking' /\ Saving' ELSE Starting'
  <2>1. app = "up" /\ sink.slot = "closed" =>
          /\ disk'.state = NoFile
          /\ \E c, m \in Nat : (FileKept(c, m) /\ Complete(File, c, m) /\ disk.durable = m + 2)'
    BY <1>1, <1>5, <1>6, <1>7, UpIsKept DEF Sinking, Complete, Holds
  <2> QED
    BY <1>1, <1>6, <2>1, RetentionFrame
<1>10. Kept' /\ ~ Lost'
  BY <1>1, <1>2, <1>3, <1>7 DEF Kept, Lost
<1>11. Compacting'
  <2>1. (Complete(File, b, n) /\ Complete(disk.compact, b + n - MaxKept, MaxKept))'
    BY <1>3, <1>5, <1>6 DEF Complete, Holds
  <2> QED
    BY <1>1, <1>3, <1>5, <1>6, <1>7, <2>1 DEF Compacting
<1> QED
  BY <1>8, <1>9, <1>10, <1>11 DEF CaptureInv

LEMMA SwapCompactedKeeps ==
  ASSUME CaptureInv, SwapCompacted
  PROVE  CaptureInv'
<1>1. Retaining /\ disk.backup # NoFile /\ RetentionOver /\ UNCHANGED <<sink, recording>>
  BY DEF SwapCompacted
<1>2. /\ ((app = "up" /\ save.pc = "retain") \/ app = "retain") /\ Typed /\ disk \in Disks /\ ~ Lost
      /\ Kept /\ disk.compact # NoFile
  BY <1>1, ExchangeFrom
<1>3. PICK b \in Nat, n \in Nat :
        /\ FileKept(b, n) /\ Complete(File, b, n) /\ n > MaxKept
        /\ Complete(disk.compact, b + n - MaxKept, MaxKept)
  BY <1>1, ExchangeFrom
<1>4. /\ File = disk.backup /\ disk.backup \in Files /\ disk.compact \in Files /\ NoFile \in Files
      /\ recording.saved \in Int /\ recording.output \in Nat /\ MaxKept \in Nat
  BY <1>1, <1>2, CaptureAssumption DEF File, Exchanged, Disks, Files, Typed
<1>5. app' = "up" => app = "up" /\ Sinking
  BY <1>1, UpIsKept DEF RetentionOver
<1> DEFINE c == b + n - MaxKept
           len == Len(disk.compact)
<1>6. c \in Nat /\ c + MaxKept = b + n /\ len = MaxKept + 2
  BY <1>3, <1>4 DEF Complete
<1>7. CASE /\ disk' = [disk EXCEPT !.capture = disk.compact, !.durable = Len(disk.compact),
                                   !.compact = NoFile, !.backup = NoFile, !.state = NoFile,
                                   !.row = "complete"]
           /\ UNCHANGED capFaults
  <2>1. disk' = [disk EXCEPT !.capture = disk.compact, !.durable = len,
                             !.compact = NoFile, !.backup = NoFile, !.state = NoFile,
                             !.row = "complete"]
    BY <1>7
  <2> HIDE DEF c, len
  <2>2. len \in Nat
    BY <1>4, <1>6
  <2>3. /\ disk' \in Disks /\ disk'.capture = disk.compact /\ disk'.durable = len
        /\ disk'.compact = NoFile /\ disk'.backup = NoFile /\ disk'.state = NoFile
        /\ disk'.row = "complete"
    BY <1>2, <1>4, <2>1, <2>2 DEF Disks
  <2>4. File' = disk.compact /\ ~ Exchanged'
    BY <2>3 DEF File, Exchanged
  <2>5. Complete(File, c, MaxKept)' /\ Len(File') = len
    BY <1>3, <2>4 DEF c, len, Complete, Holds
  <2>6. Checkpointed(MaxKept)'
    BY <2>3 DEF Checkpointed
  <2>7. SavedWithin(c, MaxKept)'
    <3>1. recording.saved > 0 /\ MaxKept > 0 => recording.saved <= b + n
      BY <1>3 DEF FileKept, SavedWithin
    <3> QED
      BY <1>1, <1>4, <1>6, <2>3, <3>1 DEF SavedWithin
  <2>8. FileKept(c, MaxKept)'
    <3>1. c + MaxKept <= recording'.output
      BY <1>1, <1>3, <1>6 DEF FileKept
    <3>2. Shaped(File, c, MaxKept)'
      BY <2>5 DEF Shaped
    <3> QED
      BY <1>4, <2>2, <2>3, <2>5, <2>6, <2>7, <3>1, <3>2 DEF FileKept
  <2>9. Typed'
    BY <1>1, <1>2, <1>7, <2>3, RetentionTyped DEF Typed
  <2>10. IF app' = "up" THEN Sinking' /\ Saving' ELSE Starting'
    <3>1. File # NoFile
      BY <1>1, <1>4
    <3>2. (FileKept(c, MaxKept) /\ Complete(File, c, MaxKept) /\ disk.durable = MaxKept + 2)'
      BY <1>6, <2>3, <2>5, <2>8
    <3> QED
      BY <1>1, <1>4, <1>6, <2>3, <3>1, <3>2, RetentionFrame
  <2>11. Kept' /\ ~ Lost' /\ Compacting'
    BY <1>1, <1>2, <1>4, <1>6, <2>3, <2>4, <2>8 DEF Kept, Lost, Compacting
  <2> QED
    BY <2>9, <2>10, <2>11 DEF CaptureInv
<1>8. CASE /\ MayFail /\ capFaults' = capFaults + 1
           /\ disk' = [disk EXCEPT !.capture = disk.backup, !.compact = NoFile, !.backup = NoFile]
  <2>1. /\ disk' \in Disks /\ disk'.capture = disk.backup /\ disk'.durable = disk.durable
        /\ disk'.compact = NoFile /\ disk'.backup = NoFile /\ disk'.state = disk.state
        /\ disk'.row = disk.row
    BY <1>2, <1>4, <1>8 DEF Disks
  <2>2. File' = File /\ ~ Exchanged'
    BY <1>4, <2>1 DEF File, Exchanged
  <2>3. \A d, m \in Nat : FileKept(d, m) => FileKept(d, m)'
    BY <1>1, <2>1, <2>2, FileKeptStays
  <2>4. capFaults' \in 0 .. MaxFaults
    BY <1>2, <1>8, CaptureAssumption DEF Typed, MayFail
  <2>5. Typed'
    BY <1>1, <1>2, <2>1, <2>4, RetentionTyped
  <2>6. IF app' = "up" THEN Sinking' /\ Saving' ELSE Starting'
    <3>1. app = "up" /\ sink.slot = "closed" =>
            /\ disk'.state = NoFile
            /\ \E d, m \in Nat : (FileKept(d, m) /\ Complete(File, d, m) /\ disk.durable = m + 2)'
      BY <1>1, <2>1, <2>2, <2>3, UpIsKept DEF Sinking, Complete, Holds
    <3> QED
      BY <1>1, <2>2, <3>1, RetentionFrame
  <2>7. Kept' /\ ~ Lost' /\ Compacting'
    BY <1>1, <1>2, <1>3, <2>1, <2>2, <2>3 DEF Kept, Lost, Compacting
  <2> QED
    BY <2>5, <2>6, <2>7 DEF CaptureInv
<1> QED
  BY <1>7, <1>8 DEF SwapCompacted

-----------------------------------------------------------------------------
(* The end of the program and a crash.                                       *)

LEMMA EndedIs ==
  ASSUME Typed, UNCHANGED capFaults \/ capFaults' \in 0 .. MaxFaults, disk' \in Disks,
         app' = "down", sink' = NoSink, save' = NoSave,
         recording' \in [active : BOOLEAN, output : 0 .. MaxOutput, saved : -1 .. MaxOutput],
         recording'.saved <= recording'.output
  PROVE  Typed'
<1>1. sink' \in Sinks
  <2>1. <<>> \in Seq(Nat) /\ <<>> \in Seq({"checkpoint", "close"})
    OBVIOUS
  <2> QED
    BY <2>1 DEF NoSink, Sinks
<1>2. save' \in [pc : {"idle", "maintain", "retain"}, finished : BOOLEAN]
  BY DEF NoSave
<1> QED
  BY <1>1, <1>2 DEF Typed

LEMMA DownIs ==
  ASSUME app' = "down", sink' = NoSink, save' = NoSave, ~ recording'.active,
         File' # NoFile /\ ~ Lost' => disk'.durable = Len(File')
  PROVE  Starting'
  BY DEF Starting

LEMMA ShutdownKeeps ==
  ASSUME CaptureInv, Shutdown
  PROVE  CaptureInv'
<1> DEFINE len == IF disk.capture = NoFile THEN 0 ELSE Len(disk.capture)
<1>1. /\ app = "up" /\ save.pc = "idle" /\ app' = "down" /\ sink' = NoSink /\ save' = NoSave
      /\ recording' = [recording EXCEPT !.active = FALSE] /\ UNCHANGED capFaults
      /\ disk' = [disk EXCEPT !.durable = len]
  BY DEF Shutdown, Ended
<1>2. /\ Typed /\ Kept /\ ~ Lost /\ disk \in Disks /\ recording.saved \in Nat
      /\ disk.compact = NoFile /\ disk.backup = NoFile /\ ~ Exchanged /\ File = disk.capture
  BY <1>1, UpIsKept, NotExchanged DEF Typed
<1>3. len \in Nat
  BY <1>2 DEF Disks, Files
<1>4. /\ disk' \in Disks /\ disk'.durable = len /\ disk'.capture = disk.capture
      /\ disk'.backup = NoFile /\ disk'.compact = NoFile /\ disk'.row = disk.row
      /\ disk'.state = disk.state
  <2> HIDE DEF len
  <2> QED
    BY <1>1, <1>2, <1>3 DEF Disks
<1>5. File' = File
  BY <1>2, <1>4 DEF File, Exchanged
<1>6. /\ recording' \in [active : BOOLEAN, output : 0 .. MaxOutput, saved : -1 .. MaxOutput]
      /\ recording'.saved = recording.saved /\ recording'.output = recording.output
      /\ ~ recording'.active /\ recording'.saved <= recording'.output /\ recording.output \in Nat
  <2>1. /\ recording \in [active : BOOLEAN, output : 0 .. MaxOutput, saved : -1 .. MaxOutput]
        /\ recording.saved <= recording.output
    BY <1>2 DEF Typed
  <2>2. recording.output \in Nat
    BY <2>1, CaptureAssumption
  <2> QED
    BY <1>1, <2>1, <2>2
<1>7. Typed'
  BY <1>1, <1>2, <1>4, <1>6, EndedIs
<1>8. Starting'
  BY <1>1, <1>2, <1>4, <1>5, <1>6, DownIs
<1>9. ASSUME NEW b \in Nat, NEW n \in Nat, FileKept(b, n) PROVE FileKept(b, n)'
  <2>1. disk.capture # NoFile /\ len = Len(File)
    BY <1>2, <1>9, SameShape DEF FileKept
  <2>2. disk'.durable >= disk.durable /\ disk'.durable <= Len(File)
    BY <1>2, <1>3, <1>4, <1>9, <2>1 DEF FileKept, Disks
  <2>3. recording'.output >= recording.output
    BY <1>6
  <2> QED
    BY <1>2, <1>4, <1>5, <1>6, <1>7, <1>9, <2>2, <2>3, KeptWithMore
<1>10. Kept' /\ ~ Lost' /\ Compacting'
  BY <1>1, <1>2, <1>4, <1>5, <1>6, <1>9
  DEF Kept, NothingWritten, NothingSaved, Lost, Compacting, Exchanged
<1> QED
  BY <1>1, <1>7, <1>8, <1>10 DEF CaptureInv

\* What a crash leaves of a capture whose durable part is intact.
LEMMA CutIsKept ==
  ASSUME CaptureInv, ~ Exchanged, Typed, recording.saved \in Nat,
         NEW b \in Nat, NEW n \in Nat, FileKept(b, n),
         NEW k \in disk.durable .. Len(disk.capture), k < Len(disk.capture), k > 0,
         NEW f, Open(f, b, k - 1) \/ TornAt(f, b, k - 1),
         disk'.capture = f, disk'.durable = Len(f), disk'.backup = NoFile,
         disk'.state = disk.state, disk'.row = disk.row,
         recording'.saved = recording.saved, recording'.output = recording.output
  PROVE  FileKept(b, k - 1)'
<1>1. /\ File = disk.capture /\ File' = f /\ disk.durable \in Nat /\ k \in Nat /\ k - 1 \in Nat
      /\ Len(disk.capture) \in {n + 1, n + 2} /\ Len(f) \in {k, k + 1}
  <2>1. File = disk.capture /\ File' = f /\ disk.durable \in Nat
    BY DEF File, Exchanged, Typed, Disks
  <2>2. Len(disk.capture) \in {n + 1, n + 2}
    BY <2>1, Places DEF FileKept
  <2> QED
    BY <2>1, <2>2 DEF Open, TornAt
<1>2. disk.row # "complete" /\ b = 0
  BY <1>1 DEF FileKept
<1>3. Shaped(File, b, k - 1)'
  BY <1>1 DEF Shaped, Open, TornAt, Complete, Holds
<1>4. Checkpointed(k - 1)'
  <2>1. CASE disk.state = NoFile
    BY <2>1 DEF Checkpointed
  <2>2. CASE disk.state # NoFile
    <3>1. PICK j \in 0 .. n : disk.state = Run(0, j) /\ j + 1 <= disk.durable
      BY <2>2 DEF FileKept, Checkpointed
    <3>2. j \in 0 .. k - 1 /\ j + 1 <= disk'.durable
      BY <1>1, <3>1, SMTT(30)
    <3> QED
      BY <3>1, <3>2 DEF Checkpointed
  <2> QED
    BY <2>1, <2>2
<1>5. SavedWithin(b, k - 1)'
  <2>1. ASSUME recording.saved > 0, MaxKept > 0
        PROVE  disk.row # "none" /\ recording.saved + 1 <= b + disk.durable
    BY <2>1 DEF FileKept, SavedWithin
  <2>2. disk.durable <= k /\ k <= disk'.durable /\ disk'.durable \in Nat
    BY <1>1
  <2>3. ASSUME recording.saved > 0, MaxKept > 0
        PROVE  /\ disk'.row # "none" /\ recording'.saved <= b + (k - 1)
               /\ recording'.saved + 1 <= b + disk'.durable
    BY <1>1, <2>1, <2>2, <2>3, SMTT(30)
  <2> QED
    BY <2>3 DEF SavedWithin
<1>6. (b + (k - 1) <= recording.output)'
  <2>1. b + n <= recording.output /\ k - 1 <= n
    BY <1>1 DEF FileKept
  <2> QED
    BY <1>1, <2>1, CaptureAssumption DEF Typed
<1>7. (disk.durable <= Len(File))'
  BY <1>1
<1> QED
  BY <1>2, <1>3, <1>4, <1>5, <1>6, <1>7 DEF FileKept

LEMMA HeadlessIsFile ==
  ASSUME NEW f, Headless(f)
  PROVE  f \in Seq(Records) /\ f # NoFile /\ Len(f) \in {0, 1}
<1>1. <<>> \in Seq(Records) /\ <<Torn>> \in Seq(Records)
  BY RecordsAre
<1>2. Len(<<>>) = 0 /\ Len(<<Torn>>) = 1
  OBVIOUS
<1> QED
  BY <1>1, <1>2, CaptureAssumption DEF Headless

LEMMA CrashKeeps ==
  ASSUME CaptureInv, Crash
  PROVE  CaptureInv'
<1>1. /\ app # "down" /\ MayFail /\ capFaults' = capFaults + 1 /\ app' = "down"
      /\ sink' = NoSink /\ save' = NoSave
      /\ recording' = [recording EXCEPT !.active = FALSE,
                                        !.saved = IF disk.backup # NoFile THEN -1 ELSE @]
  BY DEF Crash
<1>2. PICK f \in Surviving(disk.capture) :
        disk' = [disk EXCEPT !.capture = f, !.durable = IF f = NoFile THEN 0 ELSE Len(f)]
  BY DEF Crash
<1>3. Typed /\ disk \in Disks /\ capFaults' \in 0 .. MaxFaults /\ disk.capture \in Files
  BY <1>1, CaptureAssumption DEF CaptureInv, Typed, MayFail, Disks
<1> DEFINE c == disk.capture
           d == disk.durable
<1>5. /\ recording' \in [active : BOOLEAN, output : 0 .. MaxOutput, saved : -1 .. MaxOutput]
      /\ recording'.saved = (IF disk.backup # NoFile THEN -1 ELSE recording.saved)
      /\ recording'.output = recording.output /\ ~ recording'.active
      /\ recording'.saved <= recording'.output /\ recording.output \in Nat
  <2>1. /\ recording \in [active : BOOLEAN, output : 0 .. MaxOutput, saved : -1 .. MaxOutput]
        /\ recording.saved <= recording.output
    BY <1>3 DEF Typed
  <2>2. recording.output \in Nat /\ -1 \in -1 .. MaxOutput /\ MaxOutput \in Nat
    BY <2>1, CaptureAssumption
  <2> DEFINE s == IF disk.backup # NoFile THEN -1 ELSE recording.saved
  <2>3. s \in -1 .. MaxOutput /\ s <= recording.output
    BY <2>1, <2>2
  <2>4. recording' = [recording EXCEPT !.active = FALSE, !.saved = s]
    BY <1>1
  <2> HIDE DEF s
  <2>5. /\ recording' \in [active : BOOLEAN, output : 0 .. MaxOutput, saved : -1 .. MaxOutput]
        /\ recording'.saved = s /\ recording'.output = recording.output /\ ~ recording'.active
    BY <2>1, <2>3, <2>4
  <2> QED
    BY <2>2, <2>3, <2>5 DEF s
<1>6. f \in Files
  <2>1. CASE c = NoFile
    BY <2>1 DEF Surviving, Files
  <2>2. CASE c # NoFile
    <3>1. c \in Seq(Records)
      BY <1>3, <2>2 DEF Files
    <3>2. ASSUME NEW k \in d .. Len(c)
          PROVE  SubSeq(c, 1, k) \in Seq(Records) /\ Append(SubSeq(c, 1, k), Torn) \in Seq(Records)
      <4>1. k \in Nat /\ d \in Nat
        BY <1>3, <3>1 DEF Disks
      <4>2. SubSeq(c, 1, k) \in Seq(Records)
        <5>1. \A i \in 1 .. k : c[i] \in Records
          BY <3>1, <4>1
        <5> QED
          BY <4>1, <5>1, SubSeqProperties
      <4> QED
        BY <4>2, RecordsAre, AppendProperties
    <3> QED
      BY <2>2, <3>2 DEF Surviving, Files
  <2> QED
    BY <2>1, <2>2
<1>7. /\ disk' \in Disks /\ disk'.capture = f /\ disk'.backup = disk.backup
      /\ disk'.compact = disk.compact /\ disk'.state = disk.state /\ disk'.row = disk.row
      /\ disk'.durable = (IF f = NoFile THEN 0 ELSE Len(f))
  <2> DEFINE len == IF f = NoFile THEN 0 ELSE Len(f)
  <2>1. len \in Nat /\ disk' = [disk EXCEPT !.capture = f, !.durable = len]
    BY <1>2, <1>6 DEF Files
  <2> HIDE DEF len
  <2>2. /\ disk' \in Disks /\ disk'.capture = f /\ disk'.backup = disk.backup
        /\ disk'.compact = disk.compact /\ disk'.state = disk.state /\ disk'.row = disk.row
        /\ disk'.durable = len
    BY <1>3, <1>6, <2>1 DEF Disks
  <2> QED
    BY <2>2 DEF len
<1>8. Typed'
  BY <1>1, <1>3, <1>5, <1>7, EndedIs
<1>9. CASE Lost \/ Exchanged
  <2>1. c = NoFile /\ f = NoFile
    <3>1. c = NoFile
      BY <1>9 DEF CaptureInv, CutExchange, Compacting
    <3> QED
      BY <3>1 DEF Surviving
  <2>2. Lost'
    BY <1>5, <1>9 DEF Lost, Exchanged
  <2>3. CutExchange'
    BY <1>1, <1>7, <2>1 DEF CutExchange
  <2>4. Starting'
    BY <1>1, <1>5, <2>2, DownIs
  <2> QED
    BY <1>1, <1>8, <2>2, <2>3, <2>4 DEF CaptureInv
<1>10. CASE ~ Lost /\ ~ Exchanged
  <2>1. /\ Kept /\ Compacting /\ recording.saved \in Nat /\ recording'.saved = recording.saved
        /\ File = c /\ File' = f /\ ~ Lost' /\ ~ Exchanged' /\ disk.backup = NoFile
    <3>1. Kept /\ Compacting /\ recording.saved \in Nat
      BY <1>3, <1>10 DEF CaptureInv, Typed, Lost
    <3> QED
      BY <1>5, <1>7, <1>10, <3>1 DEF File, Exchanged, Lost
  <2>2. Starting'
    BY <1>1, <1>5, <1>7, <2>1, DownIs
  <2>3. Compacting'
    BY <1>1, <2>1 DEF Compacting
  <2>4. ASSUME File = NoFile, NothingWritten, NothingSaved PROVE Kept'
    <3>1. f = NoFile
      BY <2>1, <2>4 DEF Surviving
    <3> QED
      BY <1>7, <2>1, <2>4, <3>1 DEF Kept, NothingWritten, NothingSaved
  <2>5. ASSUME disk.state = NoFile, disk.row # "complete", NothingSaved, Headless(f) \/ f = NoFile
        PROVE  Kept'
    <3>1. f = <<>> \/ f = <<Torn>> => f # NoFile
      BY HeadlessIsFile DEF Headless
    <3> QED
      BY <1>1, <1>7, <2>1, <2>5, <3>1 DEF Kept, NothingWritten, NothingSaved, Headless
  <2>6. ASSUME c # NoFile
        PROVE  \/ \E k \in d .. Len(c) : f = SubSeq(c, 1, k)
               \/ d = 0 /\ f = NoFile
               \/ \E k \in d .. Len(c) : k # Len(c) /\ f = Append(SubSeq(c, 1, k), Torn)
    BY <2>6 DEF Surviving
  <2>7. ASSUME Headless(File), disk.state = NoFile, disk.durable = Len(File),
               disk.row # "complete", NothingSaved
        PROVE  Kept'
    <3>1. c \in Seq(Records) /\ c # NoFile /\ Headless(c) /\ d = Len(c) /\ Len(c) \in Nat
      BY <2>1, <2>7, HeadlessIsFile
    <3>2. f = NoFile \/ f = SubSeq(c, 1, Len(c))
      BY <2>6, <3>1
    <3>3. f = NoFile \/ Headless(f)
      BY <3>1, <3>2, WholeFile
    <3> QED
      BY <2>5, <2>7, <3>3
  <2>8. ASSUME NEW b \in Nat, NEW n \in Nat, FileKept(b, n) PROVE Kept'
    <3>1. /\ c \in Seq(Records) /\ Len(c) \in {n + 1, n + 2} /\ c # NoFile /\ d \in Nat /\ d <= Len(c)
          /\ Len(c) \in Nat /\ Shaped(c, b, n)
      BY <1>3, <2>1, <2>8, Places, SameShape DEF FileKept, Disks
    <3>2. CASE f = c
      <4>1. disk'.durable >= disk.durable /\ disk'.durable <= Len(File) /\ File' = File
        BY <1>7, <2>1, <3>1, <3>2
      <4>2. recording'.output >= recording.output
        BY <1>5
      <4> QED
        BY <1>3, <1>7, <1>8, <2>1, <2>8, <4>1, <4>2, KeptWithMore DEF Kept
    <3>3. ASSUME d = 0 PROVE disk.state = NoFile /\ disk.row # "complete" /\ NothingSaved
      <4>1. disk.row # "complete" /\ b = 0
        BY <2>1, <2>8, <3>1, <3>3 DEF FileKept
      <4>2. disk.state = NoFile
        BY <2>8, <3>3 DEF FileKept, Checkpointed
      <4>3. recording.saved > 0 /\ MaxKept > 0 => recording.saved + 1 <= 0
        BY <2>8, <3>3, <4>1 DEF FileKept, SavedWithin
      <4> QED
        BY <2>1, <4>1, <4>2, <4>3 DEF NothingSaved
    <3>4. CASE d = 0 /\ f = NoFile
      BY <2>5, <3>3, <3>4
    <3>5. ASSUME NEW k \in d .. Len(c), k # Len(c),
                 f = SubSeq(c, 1, k) \/ f = Append(SubSeq(c, 1, k), Torn)
          PROVE  Kept'
      <4>1. k \in Nat /\ k < Len(c) /\ k <= n + 1
        BY <3>1, <3>5
      <4>2. CASE k = 0
        <5>1. d = 0
          BY <3>1, <4>2
        <5>2. SubSeq(c, 1, 0) = <<>>
          BY <3>1, SubSeqEmpty
        <5>3. Append(<<>>, Torn) = <<Torn>>
          OBVIOUS
        <5>4. Headless(f)
          BY <3>5, <4>2, <5>2, <5>3 DEF Headless
        <5> QED
          BY <2>5, <3>3, <5>1, <5>4
      <4>3. CASE k > 0
        <5>1. k \in 1 .. n + 1
          BY <4>1, <4>3
        <5>2. Open(SubSeq(c, 1, k), b, k - 1)
          BY <3>1, <5>1, CutFile
        <5>3. Open(f, b, k - 1) \/ TornAt(f, b, k - 1)
          <6>1. k - 1 \in Nat
            BY <5>1
          <6> QED
            BY <3>5, <5>2, <6>1, Ends
        <5>4. f # NoFile /\ disk'.durable = Len(f)
          BY <1>7, <5>3, ShapedIsFile, CaptureAssumption
        <5>5. FileKept(b, k - 1)'
          BY <1>3, <1>5, <1>7, <1>10, <2>1, <2>8, <4>1, <4>3, <5>3, <5>4, CutIsKept
        <5>6. k - 1 \in Nat
          BY <5>1
        <5> QED
          BY <5>5, <5>6 DEF Kept
      <4> QED
        BY <4>1, <4>2, <4>3
    <3>6. ASSUME NEW k \in d .. Len(c), f = SubSeq(c, 1, k) PROVE Kept'
      <4>1. CASE k = Len(c)
        BY <3>1, <3>2, <3>6, <4>1, WholeFile
      <4>2. CASE k # Len(c)
        BY <3>5, <3>6, <4>2
      <4> QED
        BY <4>1, <4>2
    <3> QED
      BY <2>6, <3>1, <3>4, <3>5, <3>6
  <2>9. Kept'
    BY <2>1, <2>4, <2>7, <2>8 DEF Kept
  <2> QED
    BY <1>1, <1>8, <2>1, <2>2, <2>3, <2>9 DEF CaptureInv
<1> QED
  BY <1>9, <1>10

-----------------------------------------------------------------------------
(* Startup.                                                                  *)

StartupApps == {"down", "footer", "sync", "unstate", "row", "clean"}

LEMMA StartingUp ==
  ASSUME CaptureInv, app \in StartupApps
  PROVE  /\ Typed /\ disk \in Disks /\ Starting /\ ~ Retaining
         /\ Lost => app \in {"down", "clean"} /\ disk.capture = NoFile
         /\ ~ Lost => /\ Kept /\ ~ Exchanged /\ disk.backup = NoFile /\ File = disk.capture
                      /\ recording.saved \in Nat
<1>1. Typed /\ Starting /\ save = NoSave /\ app # "up" /\ app # "retain" /\ app # "back"
  BY DEF CaptureInv, StartupApps, Starting
<1>2. ~ Retaining
  BY <1>1 DEF Retaining, NoSave
<1>3. Lost => app \in {"down", "clean"} /\ disk.capture = NoFile
  BY <1>1 DEF CaptureInv, CutExchange, StartupApps
<1>4. ~ Lost => Kept /\ ~ Exchanged
  BY <1>2 DEF CaptureInv, Compacting
<1> QED
  BY <1>1, <1>2, <1>3, <1>4 DEF Exchanged, File, Typed, Lost

LEMMA StartupTyped ==
  ASSUME Typed, disk' \in Disks, UNCHANGED <<sink, recording, save>>,
         app' \in StartupApps \cup {"retain"}, capFaults' \in 0 .. MaxFaults
  PROVE  Typed'
  BY DEF Typed, StartupApps

LEMMA StartupFaults ==
  ASSUME Typed, UNCHANGED capFaults \/ (MayFail /\ capFaults' = capFaults + 1)
  PROVE  capFaults' \in 0 .. MaxFaults
  BY CaptureAssumption DEF Typed, MayFail

\* A compacted file that startup has not looked at yet changes nothing.
LEMMA StartupCompacting ==
  ASSUME disk'.backup = NoFile, disk'.compact = NoFile \/ app' \in StartupApps
  PROVE  Compacting'
  BY DEF Compacting, Exchanged, StartupApps

LEMMA RecoveryCases ==
  ASSUME NEW f, NEW s
  PROVE  /\ Recovery(f, s) \in {"refused", "complete", "finish"}
         /\ Recovery(f, s) # "refused" =>
              /\ HasHeader(f) /\ CheckpointMatches(f, s)
              /\ Recovery(f, s) = "complete" <=> Closes(f, Whole(f))
         /\ HasHeader(f) /\ CheckpointMatches(f, s) =>
              /\ Closes(f, Whole(f)) => Recovery(f, s) = "complete"
              /\ \/ Len(f) = Whole(f) + 1
                 \/ Len(f) = Whole(f) + 2 /\ f[Whole(f) + 2].kind = "torn"
                 => Recovery(f, s) # "refused"
<1> DEFINE n == Whole(f)
           a == ~HasHeader(f) \/ ~CheckpointMatches(f, s)
           c == Closes(f, n)
           e == Len(f) = n + 1 \/ (Len(f) = n + 2 /\ f[n + 2].kind = "torn")
           r == Recovery(f, s)
<1>1. r = IF a THEN "refused" ELSE IF c THEN "complete" ELSE IF e THEN "finish" ELSE "refused"
  BY Zenon DEF Recovery
<1> HIDE DEF r, c, e
<1>2. r \in {"refused", "complete", "finish"} /\ (r # "refused" => ~ a /\ (r = "complete" <=> c))
      /\ (~ a /\ c => r = "complete") /\ (~ a /\ e => r # "refused")
  <2> HIDE DEF a
  <2> QED
    BY <1>1
<1> QED
  BY <1>2 DEF r, c, e

LEMMA RecoveryIs ==
  ASSUME NEW f, NEW b \in Nat, NEW n \in Nat, Shaped(f, b, n), NEW s
  PROVE  /\ Recovery(f, s) = "complete" => Complete(f, b, n)
         /\ Recovery(f, s) \notin {"refused", "complete"} => Open(f, b, n) \/ TornAt(f, b, n)
<1>1. HasHeader(f) /\ Whole(f) = n /\ (Closes(f, n) <=> Complete(f, b, n))
  BY ReadsBack
<1> QED
  BY <1>1, RecoveryCases DEF Shaped

LEMMA RecoverKeeps ==
  ASSUME CaptureInv, Recover
  PROVE  CaptureInv'
<1>1. app = "down" /\ UNCHANGED <<sink, recording, save, capFaults>>
  BY DEF Recover, Startup
<1>2. app \in StartupApps
  BY <1>1 DEF StartupApps
<1>3. /\ Typed /\ disk \in Disks /\ Starting
      /\ Lost => disk.capture = NoFile
      /\ ~ Lost => /\ Kept /\ ~ Exchanged /\ disk.backup = NoFile /\ File = disk.capture
                   /\ recording.saved \in Nat
  BY <1>2, StartingUp
<1>4. CASE IncompleteCapture /\ disk.capture = NoFile /\ ClearMissing /\ app' = "clean"
  <2>1. /\ disk' \in Disks /\ disk'.capture = NoFile /\ disk'.backup = disk.backup
        /\ disk'.compact = disk.compact /\ disk'.state = disk.state /\ disk'.row = "none"
    BY <1>3, <1>4 DEF ClearMissing, Disks
  <2>2. Typed'
    BY <1>1, <1>3, <1>4, <2>1, StartupTyped DEF Typed, StartupApps
  <2>3. Starting'
    BY <1>1, <1>3, <1>4 DEF Starting
  <2>4. CASE Lost
    BY <1>1, <1>4, <2>1, <2>2, <2>3, <2>4 DEF CaptureInv, Lost, CutExchange
  <2>5. CASE ~ Lost
    <3>1. disk.state = NoFile /\ NothingSaved
      <4>1. \A b, n \in Nat : ~ FileKept(b, n)
        BY <1>3, <1>4, <2>5, SameShape DEF FileKept
      <4>2. ~ Headless(File)
        BY <1>3, <1>4, <2>5, HeadlessIsFile
      <4> QED
        BY <1>3, <2>5, <4>1, <4>2 DEF Kept, NothingWritten
    <3>2. Kept'
      BY <1>1, <1>3, <2>1, <2>5, <3>1 DEF Kept, NothingWritten, NothingSaved, File, Exchanged
    <3>3. Compacting'
      BY <1>3, <1>4, <2>1, <2>5, StartupCompacting DEF StartupApps
    <3> QED
      BY <1>1, <1>4, <2>2, <2>3, <2>5, <3>2, <3>3 DEF CaptureInv, Lost
  <2> QED
    BY <2>4, <2>5
<1>5. ASSUME UNCHANGED disk, app' \in {"clean", "unstate", "footer"},
             app' # "clean" => disk.row = "incomplete" /\ disk.capture # NoFile,
             app' = "unstate" => Recovery(disk.capture, disk.state) = "complete",
             app' = "footer" => Recovery(disk.capture, disk.state) \notin {"refused", "complete"}
      PROVE  CaptureInv'
  <2>1. Typed'
    BY <1>1, <1>3, <1>5, StartupTyped DEF Typed, StartupApps
  <2>2. File' = File
    BY <1>5 DEF File, Exchanged
  <2>3. \A b, n \in Nat : FileKept(b, n) => FileKept(b, n)'
    BY <1>1, <1>5, <2>2, FileKeptStays
  <2>4. CASE Lost
    <3>1. app' = "clean"
      BY <1>3, <1>5, <2>4
    <3>2. Starting'
      BY <1>1, <1>3, <3>1 DEF Starting
    <3> QED
      BY <1>1, <1>5, <2>1, <2>4, <3>1, <3>2 DEF CaptureInv, Lost, CutExchange
  <2>5. CASE ~ Lost
    <3>1. Kept' /\ ~ Lost'
      <4>1. app' # "up"
        BY <1>5
      <4> QED
        BY <1>1, <1>3, <1>5, <2>2, <2>3, <2>5, <4>1
        DEF Kept, NothingWritten, NothingSaved, Headless, Lost
    <3>2. Compacting'
      BY <1>3, <1>5, <2>5, StartupCompacting DEF StartupApps
    <3>3. Starting'
      <4>1. CASE app' = "clean"
        BY <1>1, <1>3, <4>1 DEF Starting
      <4>2. CASE app' # "clean"
        <5>1. File # NoFile /\ disk.durable = Len(File)
          BY <1>1, <1>3, <1>5, <2>5, <4>2 DEF Starting
        <5>2. ~ Headless(File)
          <6>1. HasHeader(File)
            <7>1. Recovery(disk.capture, disk.state) # "refused"
              BY <1>5, <4>2
            <7> QED
              BY <1>3, <2>5, <7>1, RecoveryCases
          <6>2. <<Torn>>[1] = Torn /\ Torn.kind # "header"
            BY DEF Torn
          <6> QED
            BY <6>1, <6>2 DEF HasHeader, Headless
        <5>3. PICK b \in Nat, n \in Nat : FileKept(b, n)
          BY <1>3, <2>5, <5>1, <5>2 DEF Kept
        <5>4. Shaped(File, b, n)
          BY <5>3 DEF FileKept
        <5>5. CASE app' = "unstate"
          <6>1. Complete(File, b, n)
            BY <1>3, <1>5, <2>5, <5>4, <5>5, RecoveryIs
          <6> QED
            BY <1>1, <1>3, <1>5, <2>2, <2>3, <4>2, <5>1, <5>3, <5>5, <6>1
            DEF Starting, Complete, Holds
        <5>6. CASE app' = "footer"
          <6>1. Open(File, b, n) \/ TornAt(File, b, n)
            BY <1>3, <1>5, <2>5, <5>4, <5>6, RecoveryIs
          <6> QED
            BY <1>1, <1>3, <1>5, <2>2, <2>3, <4>2, <5>1, <5>3, <5>6, <6>1
            DEF Starting, Open, TornAt, Holds
        <5> QED
          BY <1>5, <4>2, <5>5, <5>6
      <4> QED
        BY <4>1, <4>2
    <3> QED
      BY <1>5, <2>1, <2>5, <3>1, <3>2, <3>3 DEF CaptureInv
  <2> QED
    BY <2>4, <2>5
<1>6. CASE ~ IncompleteCapture /\ app' = "clean" /\ UNCHANGED disk
  BY <1>5, <1>6
<1>7. CASE /\ IncompleteCapture /\ disk.capture # NoFile /\ UNCHANGED disk
           /\ app' = CASE Recovery(disk.capture, disk.state) = "refused" -> "clean"
                       [] Recovery(disk.capture, disk.state) = "complete" -> "unstate"
                       [] OTHER -> "footer"
  <2> DEFINE r == Recovery(disk.capture, disk.state)
  <2>1. \/ r = "refused" /\ app' = "clean"
        \/ r = "complete" /\ app' = "unstate"
        \/ r \notin {"refused", "complete"} /\ app' = "footer"
    <3> HIDE DEF r
    <3>1. app' = CASE r = "refused" -> "clean" [] r = "complete" -> "unstate" [] OTHER -> "footer"
      BY <1>7 DEF r
    <3> QED
      BY <3>1
  <2> HIDE DEF r
  <2> QED
    BY <1>5, <1>7, <2>1 DEF IncompleteCapture, r
<1> QED
  BY <1>4, <1>6, <1>7 DEF Recover

LEMMA FinalizeRecoveredKeeps ==
  ASSUME CaptureInv, FinalizeRecovered
  PROVE  CaptureInv'
<1>1. app = "footer" /\ UNCHANGED <<sink, recording, save>>
  BY DEF FinalizeRecovered, Startup
<1>2. /\ Typed /\ disk \in Disks /\ Starting /\ ~ Lost /\ ~ Exchanged /\ disk.backup = NoFile
      /\ File = disk.capture /\ recording.saved \in Nat
  BY <1>1, StartingUp DEF StartupApps
<1>3. PICK b \in Nat, n \in Nat : FileKept(b, n) /\ (Open(File, b, n) \/ TornAt(File, b, n))
  BY <1>1, <1>2 DEF Starting
<1>4. b = 0 /\ Shaped(File, 0, n) /\ disk.row = "incomplete"
  <2>1. Shaped(File, b, n)
    BY <1>3 DEF Shaped
  <2>2. ~ Complete(File, b, n)
    BY <1>3, <2>1, SameShape
  <2>3. ~ (b > 0)
    BY <1>3, <2>2 DEF FileKept
  <2>4. b = 0
    BY <2>3
  <2> QED
    BY <1>1, <1>2, <2>1, <2>4 DEF Starting
<1> DEFINE whole == SubSeq(disk.capture, 1, n + 1)
<1>5. Whole(disk.capture) = n /\ DataOf(disk.capture, n) = Run(0, n)
  BY <1>2, <1>4, ReadsBack
<1>6. Open(whole, 0, n)
  <2>1. n + 1 \in 1 .. n + 1 /\ (n + 1) - 1 = n
    OBVIOUS
  <2>2. Open(SubSeq(disk.capture, 1, n + 1), 0, (n + 1) - 1)
    BY <1>2, <1>4, <2>1, CutFile
  <2> QED
    BY <2>1, <2>2
<1>7. TornAt(Append(whole, Torn), 0, n) /\ Complete(Append(whole, Footer(n, Run(0, n))), 0, n)
  BY <1>6, Ends
<1>8. ASSUME NEW g, TornAt(g, 0, n) \/ Complete(g, 0, n),
             disk' = [disk EXCEPT !.capture = g, !.durable = n + 1],
             app' \in {"sync", "clean"}, app' = "sync" => Complete(g, 0, n),
             capFaults' \in 0 .. MaxFaults
      PROVE  CaptureInv'
  <2>1. g \in Files /\ g \in Seq(Records) /\ Shaped(g, 0, n) /\ Len(g) = n + 2 /\ n + 1 \in Nat
    BY <1>8, ShapedIsFile DEF TornAt, Complete
  <2>2. /\ disk' \in Disks /\ disk'.capture = g /\ disk'.durable = n + 1
        /\ disk'.backup = NoFile /\ disk'.compact = disk.compact /\ disk'.state = disk.state
        /\ disk'.row = disk.row
    BY <1>2, <1>8, <2>1 DEF Disks
  <2>3. File' = g /\ ~ Exchanged'
    BY <2>2 DEF File, Exchanged
  <2>4. Typed'
    BY <1>1, <1>2, <1>8, <2>2, StartupTyped DEF StartupApps
  <2>5. Checkpointed(n)'
    <3>1. ASSUME disk.state # NoFile
          PROVE  \E k \in 0 .. n : disk'.state = Run(0, k) /\ k + 1 <= n + 1
      <4>1. PICK k \in 0 .. n : disk.state = Run(0, k)
        BY <1>3, <3>1 DEF FileKept, Checkpointed
      <4> QED
        BY <2>2, <4>1
    <3> QED
      BY <2>2, <3>1 DEF Checkpointed
  <2>6. SavedWithin(0, n)'
    <3>1. recording.saved > 0 /\ MaxKept > 0 => recording.saved <= n
      BY <1>3, <1>4 DEF FileKept, SavedWithin
    <3> QED
      BY <1>1, <1>2, <1>4, <2>2, <3>1 DEF SavedWithin
  <2>7. FileKept(0, n)'
    <3>1. Shaped(File, 0, n)'
      BY <2>1, <2>3 DEF Shaped, Open, TornAt, Complete, Holds
    <3>2. 0 + n <= recording'.output
      BY <1>1, <1>3, <1>4 DEF FileKept
    <3>3. disk'.row # "complete"
      BY <1>4, <2>2
    <3> QED
      BY <2>1, <2>2, <2>3, <2>5, <2>6, <3>1, <3>2, <3>3 DEF FileKept
  <2>8. Starting'
    <3>1. app' = "sync" => Complete(File, 0, n)'
      BY <1>8, <2>3 DEF Complete, Holds
    <3> QED
      BY <1>1, <1>2, <1>4, <1>8, <2>2, <2>7, <3>1 DEF Starting
  <2>9. Kept' /\ ~ Lost' /\ app' # "up" /\ Compacting'
    BY <1>1, <1>2, <1>8, <2>2, <2>7, StartupCompacting DEF Kept, Lost, StartupApps
  <2> QED
    BY <2>4, <2>8, <2>9 DEF CaptureInv
<1>9. CASE /\ disk' = [disk EXCEPT !.durable = n + 1, !.capture = Append(whole, Footer(n, Run(0, n)))]
           /\ app' = "sync" /\ UNCHANGED capFaults
  <2>1. disk' = [disk EXCEPT !.capture = Append(whole, Footer(n, Run(0, n))), !.durable = n + 1]
    BY <1>2, <1>9 DEF Disks
  <2> QED
    BY <1>2, <1>7, <1>8, <1>9, <2>1, StartupFaults
<1>10. CASE /\ MayFail /\ capFaults' = capFaults + 1
            /\ disk' = [disk EXCEPT !.capture = Append(whole, Torn), !.durable = n + 1]
            /\ app' = "clean"
  BY <1>2, <1>7, <1>8, <1>10, StartupFaults
<1> QED
  <2>1. \/ /\ disk' = [disk EXCEPT !.durable = n + 1,
                         !.capture = Append(whole, Footer(n, Run(0, n)))]
           /\ app' = "sync" /\ UNCHANGED capFaults
        \/ /\ MayFail /\ capFaults' = capFaults + 1
           /\ disk' = [disk EXCEPT !.capture = Append(whole, Torn), !.durable = n + 1]
           /\ app' = "clean"
    BY <1>5 DEF FinalizeRecovered
  <2> QED
    BY <1>9, <1>10, <2>1

\* What the rest of a recovery does to a capture that is complete.
LEMMA RecoveryGoesOn ==
  ASSUME CaptureInv, app \in {"sync", "unstate", "row"}, UNCHANGED <<sink, recording, save>>,
         UNCHANGED capFaults, app' \in {"unstate", "row", "clean"},
         disk' \in Disks, disk'.capture = disk.capture, disk'.compact = disk.compact,
         disk'.backup = disk.backup, disk'.durable = Len(disk.capture),
         disk'.state \in {disk.state, NoFile}, app' = "row" => disk'.state = NoFile,
         disk'.row \in {"incomplete", "complete"}, app' # "clean" => disk'.row = "incomplete"
  PROVE  CaptureInv'
<1>1. /\ Typed /\ disk \in Disks /\ Starting /\ ~ Lost /\ ~ Exchanged /\ disk.backup = NoFile
      /\ File = disk.capture /\ recording.saved \in Nat
  BY StartingUp DEF StartupApps
<1>2. PICK b \in Nat, n \in Nat : FileKept(b, n) /\ Complete(File, b, n)
  BY <1>1 DEF Starting
<1>3. /\ File' = File /\ ~ Exchanged' /\ Len(File) = n + 2 /\ disk.row = "incomplete"
      /\ disk.durable <= Len(File) /\ disk.durable \in Nat
  BY <1>1, <1>2 DEF File, Exchanged, Complete, FileKept, Starting, Disks
<1>4. Typed'
  BY <1>1, StartupTyped DEF StartupApps, Typed
<1>5. Complete(File, b, n)'
  BY <1>2, <1>3 DEF Complete, Holds
<1>6. Checkpointed(n)'
  <2>1. CASE disk'.state = NoFile
    BY <2>1 DEF Checkpointed
  <2>2. CASE disk'.state = disk.state /\ disk.state # NoFile
    <3>1. PICK k \in 0 .. n : disk.state = Run(0, k) /\ k + 1 <= disk.durable
      BY <1>2, <2>2 DEF FileKept, Checkpointed
    <3> QED
      BY <1>1, <1>3, <2>2, <3>1 DEF Checkpointed
  <2> QED
    BY <2>1, <2>2
<1>7. SavedWithin(b, n)'
  <2>1. recording.saved > 0 /\ MaxKept > 0 => recording.saved <= b + n
    BY <1>2 DEF FileKept, SavedWithin
  <2> QED
    BY <1>1, <1>3, <2>1 DEF SavedWithin
<1>8. FileKept(b, n)'
  <2>1. Shaped(File, b, n)'
    BY <1>5 DEF Shaped
  <2>2. b > 0 => disk'.state = NoFile /\ (MaxKept > 0 => n > 0)
    BY <1>2 DEF FileKept
  <2>3. b + n <= recording'.output
    BY <1>2 DEF FileKept
  <2> QED
    BY <1>1, <1>3, <1>5, <1>6, <1>7, <2>1, <2>2, <2>3 DEF FileKept
<1>9. Starting'
  BY <1>1, <1>3, <1>5, <1>8 DEF Starting
<1>10. Kept' /\ ~ Lost' /\ app' # "up" /\ Compacting'
  BY <1>1, <1>8, StartupCompacting DEF Kept, Lost, StartupApps
<1> QED
  BY <1>4, <1>9, <1>10 DEF CaptureInv

LEMMA RecoveredOnDiskKeeps ==
  ASSUME CaptureInv, RecoveredOnDisk
  PROVE  CaptureInv'
<1>1. /\ app = "sync" /\ app' = "unstate" /\ UNCHANGED <<sink, recording, save, capFaults>>
      /\ disk' = [disk EXCEPT !.durable = Len(disk.capture)]
  BY DEF RecoveredOnDisk, Startup
<1>2. Starting /\ disk \in Disks /\ File = disk.capture /\ disk.row = "incomplete"
  BY <1>1, StartingUp DEF StartupApps, Starting
<1>3. Len(disk.capture) \in Nat
  BY <1>1, <1>2 DEF Starting, Complete
<1>4. /\ disk' \in Disks /\ disk'.capture = disk.capture /\ disk'.compact = disk.compact
      /\ disk'.backup = disk.backup /\ disk'.durable = Len(disk.capture)
      /\ disk'.state = disk.state /\ disk'.row = "incomplete"
  <2> DEFINE len == Len(disk.capture)
  <2>1. len \in Nat /\ disk' = [disk EXCEPT !.durable = len]
    BY <1>1, <1>3
  <2> HIDE DEF len
  <2>2. /\ disk' \in Disks /\ disk'.capture = disk.capture /\ disk'.compact = disk.compact
        /\ disk'.backup = disk.backup /\ disk'.durable = len
        /\ disk'.state = disk.state /\ disk'.row = "incomplete"
    BY <1>2, <2>1 DEF Disks
  <2> QED
    BY <2>2 DEF len
<1> QED
  BY <1>1, <1>4, RecoveryGoesOn

\* From then on all of the capture is on the disk.
LEMMA RecoveredWhole ==
  ASSUME CaptureInv, app \in {"unstate", "row"}
  PROVE  /\ disk \in Disks /\ disk.durable = Len(disk.capture) /\ disk.row = "incomplete"
         /\ app = "row" => disk.state = NoFile
<1>1. Starting /\ disk \in Disks /\ File = disk.capture /\ ~ Lost
  BY StartingUp DEF StartupApps
<1>2. PICK b \in Nat, n \in Nat : FileKept(b, n)
  BY <1>1 DEF Starting
<1>3. File # NoFile
  BY <1>2, SameShape DEF FileKept
<1> QED
  BY <1>1, <1>3 DEF Starting

LEMMA RecoveredWithoutStateKeeps ==
  ASSUME CaptureInv, RecoveredWithoutState
  PROVE  CaptureInv'
<1>1. /\ app = "unstate" /\ app' = "row" /\ UNCHANGED <<sink, recording, save, capFaults>>
      /\ disk' = [disk EXCEPT !.state = NoFile]
  BY DEF RecoveredWithoutState, Startup
<1>2. disk \in Disks /\ disk.durable = Len(disk.capture) /\ disk.row = "incomplete"
  BY <1>1, RecoveredWhole
<1>3. /\ disk' \in Disks /\ disk'.capture = disk.capture /\ disk'.compact = disk.compact
      /\ disk'.backup = disk.backup /\ disk'.durable = disk.durable
      /\ disk'.state = NoFile /\ disk'.row = "incomplete"
  BY <1>1, <1>2 DEF Disks
<1> QED
  BY <1>1, <1>2, <1>3, RecoveryGoesOn

LEMMA RecoveredRowKeeps ==
  ASSUME CaptureInv, RecoveredRow
  PROVE  CaptureInv'
<1>1. /\ app = "row" /\ app' = "clean" /\ UNCHANGED <<sink, recording, save, capFaults>>
      /\ disk' = [disk EXCEPT !.row = "complete"]
  BY DEF RecoveredRow, Startup
<1>2. disk \in Disks /\ disk.durable = Len(disk.capture)
  BY <1>1, RecoveredWhole
<1>3. /\ disk' \in Disks /\ disk'.capture = disk.capture /\ disk'.compact = disk.compact
      /\ disk'.backup = disk.backup /\ disk'.durable = disk.durable
      /\ disk'.state = disk.state /\ disk'.row = "complete"
  BY <1>1, <1>2 DEF Disks
<1> QED
  BY <1>1, <1>2, <1>3, RecoveryGoesOn

LEMMA CleanupOrphansKeeps ==
  ASSUME CaptureInv, CleanupOrphans
  PROVE  CaptureInv'
<1> DEFINE c == IF ReferencedFile THEN disk.capture ELSE NoFile
           s == IF IncompleteCapture THEN disk.state ELSE NoFile
<1>1. /\ app = "clean" /\ app' = "retain" /\ UNCHANGED <<sink, recording, save, capFaults>>
      /\ disk' = [disk EXCEPT !.compact = NoFile, !.backup = NoFile, !.capture = c, !.state = s]
  BY DEF CleanupOrphans, Startup
<1>2. /\ Typed /\ disk \in Disks /\ Starting
      /\ Lost => disk.capture = NoFile
      /\ ~ Lost => Kept /\ File = disk.capture /\ recording.saved \in Nat
  BY <1>1, StartingUp DEF StartupApps
<1>3. disk.capture \in Files /\ disk.state \in Seq(Nat) \cup {NoFile} /\ NoFile \in Files
  BY <1>2 DEF Disks, Files
<1>4. /\ disk' \in Disks /\ disk'.capture = c /\ disk'.state = s
      /\ disk'.compact = NoFile /\ disk'.backup = NoFile
      /\ disk'.durable = disk.durable /\ disk'.row = disk.row
  <2>1. c \in Files /\ s \in Seq(Nat) \cup {NoFile}
    BY <1>3
  <2> HIDE DEF c, s
  <2> QED
    BY <1>1, <1>2, <1>3, <2>1 DEF Disks
<1>5. File' = c /\ ~ Exchanged'
  BY <1>4 DEF File, Exchanged
<1>6. Typed'
  BY <1>1, <1>2, <1>4, StartupTyped DEF Typed
<1>7. Starting' /\ Compacting'
  BY <1>1, <1>2, <1>4, StartupCompacting DEF Starting
<1>8. CASE Lost
  BY <1>1, <1>2, <1>4, <1>6, <1>7, <1>8 DEF CaptureInv, Lost, CutExchange
<1>9. CASE ~ Lost
  <2>1. ASSUME ~ ReferencedFile PROVE Kept'
    <3>1. NothingSaved /\ disk.row = "none"
      BY <1>2, <1>9, <2>1 DEF Kept, FileKept, SavedWithin, NothingSaved, ReferencedFile
    <3> QED
      BY <1>1, <1>4, <1>5, <2>1, <3>1
      DEF Kept, NothingWritten, NothingSaved, IncompleteCapture
  <2>2. ASSUME ReferencedFile PROVE Kept'
    <3>1. c = disk.capture /\ File' = File /\ (s = disk.state \/ s = NoFile)
          /\ (disk.row # "complete" => s = disk.state)
      BY <1>2, <1>5, <1>9, <2>2, <1>2 DEF ReferencedFile, IncompleteCapture, Disks
    <3>2. ASSUME NEW b \in Nat, NEW n \in Nat, FileKept(b, n) PROVE FileKept(b, n)'
      <4>1. Checkpointed(n)'
        BY <1>4, <3>1, <3>2 DEF FileKept, Checkpointed
      <4> QED
        BY <1>1, <1>4, <3>1, <3>2, <4>1
        DEF FileKept, Shaped, Open, TornAt, Complete, Holds, SavedWithin
    <3> QED
      BY <1>1, <1>2, <1>4, <1>9, <3>1, <3>2 DEF Kept, NothingWritten, NothingSaved, Headless
  <2>3. Kept'
    BY <2>1, <2>2
  <2> QED
    BY <1>1, <1>6, <1>7, <1>9, <2>3 DEF CaptureInv, Lost
<1> QED
  BY <1>8, <1>9

-----------------------------------------------------------------------------
(* The specification.                                                        *)

LEMMA CaptureStarts ==
  ASSUME CaptureInit
  PROVE  CaptureInv
<1>1. /\ disk.capture = NoFile /\ disk.state = NoFile /\ disk.compact = NoFile
      /\ disk.backup = NoFile /\ disk.row = "none" /\ disk.durable = 0
  BY DEF CaptureInit
<1>2. Typed
  <2>1. disk \in Disks
    BY DEF CaptureInit, Disks, Files
  <2>2. sink \in Sinks
    <3>1. <<>> \in Seq(Nat) /\ <<>> \in Seq({"checkpoint", "close"})
      OBVIOUS
    <3> QED
      BY <3>1 DEF CaptureInit, NoSink, Sinks
  <2> QED
    BY <2>1, <2>2, CaptureAssumption DEF CaptureInit, Typed, NoSave
<1>3. Sinking /\ Saving
  BY <1>1 DEF CaptureInit, NoSink, NoSave, Sinking, Saving, File, Exchanged
<1>4. ~ Lost /\ Kept /\ Compacting
  BY <1>1 DEF CaptureInit, Lost, Kept, Compacting, File, Exchanged, NothingWritten, NothingSaved
<1> QED
  BY <1>2, <1>3, <1>4 DEF CaptureInv, CaptureInit

LEMMA CaptureStutters ==
  ASSUME CaptureInv, UNCHANGED captureVars
  PROVE  CaptureInv'
<1>1. UNCHANGED <<disk, sink, recording, save, app, capFaults>>
  BY DEF captureVars
<1>2. File' = File /\ (Exchanged <=> Exchanged') /\ (Lost <=> Lost')
  BY <1>1 DEF File, Exchanged, Lost
<1>3. \A b, n \in Nat : FileKept(b, n) <=> FileKept(b, n)'
  BY <1>1, <1>2
  DEF FileKept, Shaped, Open, TornAt, Complete, Holds, Checkpointed, SavedWithin
<1>4. Typed' /\ (Kept => Kept') /\ (CutExchange => CutExchange')
  BY <1>1, <1>2, <1>3
  DEF CaptureInv, Typed, Kept, CutExchange, NothingWritten, NothingSaved, Headless
<1>5. Compacting => Compacting'
  BY <1>1, <1>2, <1>3 DEF Compacting, Retaining, Complete, Holds
<1>6. \A n \in Nat : (Stepping(n) => Stepping(n)') /\ (Pending(n) => Pending(n)')
  BY <1>1 DEF Stepping, Pending, Open, Complete, Holds, Operations
<1>7. Sinking => Sinking'
  BY <1>1, <1>2, <1>3, <1>6 DEF Sinking, Complete, Holds
<1>8. Saving => Saving'
  BY <1>1 DEF Saving, Quiet
<1>9. Starting => Starting'
  BY <1>1, <1>2, <1>3 DEF Starting, Open, TornAt, Complete, Holds
<1> QED
  BY <1>1, <1>2, <1>4, <1>5, <1>7, <1>8, <1>9 DEF CaptureInv

LEMMA CaptureKeeps ==
  ASSUME CaptureInv, [CaptureNext]_captureVars
  PROVE  CaptureInv'
<1>1. CASE SinkSteps
  BY <1>1, AddKeeps, OpenWriterKeeps, DrainPendingKeeps, SyncDataKeeps,
     WriteCheckpointSidecarKeeps, DrainAfterKeeps, WriteFooterKeeps, SyncAllKeeps,
     RemoveCheckpointSidecarKeeps DEF SinkSteps
<1>2. CASE SaveSteps
  BY <1>2, FinishKeeps, CheckpointCapturesKeeps, SaveRowKeeps, NothingToRetainKeeps,
     CompactKeeps, MoveToBackupKeeps, SwapCompactedKeeps DEF SaveSteps
<1>3. CASE Shutdown \/ Crash
  BY <1>3, ShutdownKeeps, CrashKeeps
<1>4. CASE StartupSteps
  BY <1>4, RecoverKeeps, FinalizeRecoveredKeeps, RecoveredOnDiskKeeps,
     RecoveredWithoutStateKeeps, RecoveredRowKeeps, CleanupOrphansKeeps DEF StartupSteps
<1>5. CASE UNCHANGED captureVars
  BY <1>5, CaptureStutters
<1> QED
  BY <1>1, <1>2, <1>3, <1>4, <1>5 DEF CaptureNext

LEMMA CaptureInvariant ==
  CaptureSpec => []CaptureInv
<1>1. CaptureInit => CaptureInv
  BY CaptureStarts
<1>2. CaptureInv /\ [CaptureNext]_captureVars => CaptureInv'
  BY CaptureKeeps
<1> QED
  BY <1>1, <1>2, PTL DEF CaptureSpec

\* The files, the sink and the save of a capture always have their shapes and bounds: the
\* files are records, the queue of the sink holds one operation at most, and no save reports
\* more than the session put out.
THEOREM CaptureTyping ==
  CaptureSpec => []CaptureTypeOK
<1>1. CaptureInv => CaptureTypeOK
  <2> SUFFICES ASSUME CaptureInv PROVE CaptureTypeOK
    OBVIOUS
  <2>1. Typed
    BY DEF CaptureInv
  <2>2. Len(sink.queue) <= 1
    <3>1. CASE app = "up"
      <4>1. sink.queue \in {<<>>, <<"checkpoint">>, <<"close">>}
        BY <3>1 DEF CaptureInv, Sinking
      <4>2. Len(<<>>) = 0 /\ Len(<<"checkpoint">>) = 1 /\ Len(<<"close">>) = 1
        OBVIOUS
      <4>3. Len(sink.queue) \in {0, 1}
        BY <4>1, <4>2, Zenon
      <4>4. \A x \in {0, 1} : x <= 1
        OBVIOUS
      <4> QED
        BY <4>3, <4>4, Zenon
    <3>2. CASE app # "up"
      <4>1. sink.queue = <<>>
        BY <3>2 DEF CaptureInv, Starting, NoSink
      <4>2. Len(<<>>) = 0
        OBVIOUS
      <4>3. Len(sink.queue) = 0
        BY <4>1, <4>2, Zenon
      <4> QED
        BY <4>3
    <3> QED
      BY <3>1, <3>2
  <2> QED
    BY <2>1, <2>2 DEF CaptureTypeOK, FileOK, Typed, Disks, Files, Sinks
<1> QED
  BY <1>1, CaptureInvariant, PTL

\* Whatever order output, the opening of the file, checkpoints and saves come in, a sink that
\* accepts output has in its file and in what it holds all the output of the session, each
\* chunk once and in order.
THEOREM OutputStaysInOrder ==
  CaptureSpec => []OutputInOrder
<1>1. CaptureInv => OutputInOrder
  <2> SUFFICES ASSUME CaptureInv, sink.slot \in {"opening", "ready"}, ~ sink.closing
               PROVE  (IF sink.slot = "ready" THEN Written(disk.capture) ELSE <<>>) \o sink.pending
                        = Run(0, recording.output)
    <3>1. recording.output \in Int => Run(0, recording.output) = [i \in 1 .. recording.output |-> i]
      BY DEF Run
    <3>2. CaptureInv => recording.output \in Int
      BY DEF CaptureInv, Typed
    <3> QED
      BY <3>1, <3>2, Zenon DEF OutputInOrder
  <2>1. app = "up" /\ Sinking /\ recording.output \in Nat
    BY CaptureAssumption DEF CaptureInv, Starting, NoSink, Typed
  <2>2. CASE sink.slot = "opening"
    <3>1. PICK m \in Nat : sink.pending = Run(0, m) /\ 0 + m = recording.output
      BY <2>1, <2>2 DEF Sinking, Pending
    <3>2. <<>> \o Run(0, m) = Run(0, m)
      BY <3>1, RunIs, ConcatEmptySeq
    <3> QED
      BY <2>2, <3>1, <3>2
  <2>3. CASE sink.slot = "ready"
    <3>1. PICK n \in Nat : Stepping(n) /\ Pending(n)
      BY <2>1, <2>3 DEF Sinking
    <3>2. PICK m \in Nat : sink.pending = Run(n, m) /\ n + m = recording.output
      BY <3>1 DEF Pending
    <3>3. Open(disk.capture, 0, n)
      <4>1. sink.queue # <<"close">>
        BY <2>1 DEF Sinking
      <4> QED
        BY <3>1, <4>1 DEF Stepping
    <3>4. Written(disk.capture) = Run(0, n)
      BY <3>3, ReadsBack DEF Shaped
    <3>5. Run(0, n) \o Run(0 + n, m) = Run(0, n + m)
      BY RunsJoin
    <3> QED
      BY <2>3, <3>2, <3>4, <3>5
  <2> QED
    BY <2>2, <2>3
<1> QED
  BY <1>1, CaptureInvariant, PTL

\* Any beginning of a file reads back, so a checkpoint of it is recognised.
LEMMA BeginningReadsBack ==
  ASSUME NEW f, NEW b \in Nat, NEW n \in Nat, Shaped(f, b, n), NEW k \in 0 .. n
  PROVE  DataOf(f, k) = Run(b, k)
<1>1. \A i \in 2 .. n + 1 : f[i] = Chunk(i - 2, b + i - 1)
  BY Places
<1>2. ASSUME NEW i \in 1 .. k PROVE f[i + 1].body[1] = b + i
  <2>1. i + 1 \in 2 .. n + 1 /\ b + (i + 1) - 1 = b + i
    OBVIOUS
  <2>2. f[i + 1] = Chunk((i + 1) - 2, b + (i + 1) - 1)
    BY <1>1, <2>1
  <2>3. f[i + 1].body = <<b + (i + 1) - 1>>
    BY <2>2 DEF Chunk
  <2> QED
    BY <2>1, <2>3
<1> QED
  BY <1>2 DEF DataOf, Run

\* The next startup accepts what a recovery that failed left.
LEMMA Acceptable ==
  ASSUME NEW b \in Nat, NEW n \in Nat, FileKept(b, n)
  PROVE  Recovery(File, disk.state) # "refused"
<1>1. /\ HasHeader(File) /\ Whole(File) = n /\ Shaped(File, b, n)
      /\ Closes(File, n) <=> Complete(File, b, n)
  BY ReadsBack DEF FileKept
<1>2. CheckpointMatches(File, disk.state)
  <2>1. ASSUME disk.state # NoFile
        PROVE  Len(disk.state) <= n /\ disk.state = DataOf(File, Len(disk.state))
    <3>1. PICK k \in 0 .. n : disk.state = Run(0, k)
      BY <2>1 DEF FileKept, Checkpointed
    <3>2. b = 0 /\ k \in Nat
      BY <2>1 DEF FileKept
    <3>3. Len(disk.state) = k
      BY <3>1, <3>2, RunIs
    <3>4. DataOf(File, k) = Run(0, k)
      BY <1>1, <3>2, BeginningReadsBack
    <3> QED
      BY <3>1, <3>3, <3>4
  <2> QED
    BY <1>1, <2>1 DEF CheckpointMatches
<1>3. CASE Complete(File, b, n)
  BY <1>1, <1>2, <1>3, RecoveryCases
<1>4. CASE Open(File, b, n) \/ TornAt(File, b, n)
  <2>1. Len(File) = n + 1 \/ (Len(File) = n + 2 /\ File[n + 2].kind = "torn")
    BY <1>4 DEF Open, TornAt, Torn
  <2> QED
    BY <1>1, <1>2, <2>1, RecoveryCases
<1> QED
  BY <1>1, <1>3, <1>4 DEF Shaped

\* What a save reported as saved outlives every crash, failed write and interrupted recovery:
\* after startup the capture verifies and has the newest chunk that was saved, or is one that
\* the next startup accepts; and a row with a hash never names a file that does not verify,
\* a crash between the two renames of a compaction excepted.
THEOREM SavedOutputSurvives ==
  CaptureSpec => []CaptureSurvives
<1>1. ASSUME CaptureInv PROVE SavedSurvives
  <2> SUFFICES ASSUME app = "back", recording.saved > 0, MaxKept > 0
               PROVE  \/ /\ disk.row = "complete" /\ VerifyComplete(disk.capture)
                         /\ Newest(Written(disk.capture)) >= recording.saved
                      \/ /\ disk.row = "incomplete" /\ Recovery(disk.capture, disk.state) # "refused"
                         /\ Newest(DataOf(disk.capture, Whole(disk.capture))) >= recording.saved
    BY DEF SavedSurvives
  <2>1. ~ Lost /\ ~ NothingSaved
    BY DEF Lost, NothingSaved
  <2>2. Typed /\ Kept /\ Compacting /\ Starting
    BY <1>1, <2>1 DEF CaptureInv
  <2>3. ~ Exchanged /\ File = disk.capture
    BY <2>2 DEF Compacting, Retaining, Starting, NoSave, File
  <2>4. PICK b \in Nat, n \in Nat : FileKept(b, n)
    BY <2>1, <2>2 DEF Kept
  <2>5. /\ disk.row \in {"incomplete", "complete"} /\ recording.saved <= b + n
        /\ recording.saved \in Int /\ Shaped(File, b, n)
    BY <2>2, <2>4 DEF FileKept, SavedWithin, Typed, Disks
  <2>6. n > 0
    BY <2>4, <2>5 DEF FileKept
  <2>7. Whole(File) = n /\ DataOf(File, n) = Run(b, n) /\ Written(File) = Run(b, n)
    BY <2>5, ReadsBack
  <2>8. Newest(Run(b, n)) = b + n
    BY <2>6, NewestRun
  <2>9. disk.row = "complete" => VerifyComplete(File)
    BY <2>4, <2>5, VerifiesIff DEF FileKept
  <2>10. Recovery(File, disk.state) # "refused"
    BY <2>4, Acceptable
  <2> QED
    BY <2>3, <2>5, <2>7, <2>8, <2>9, <2>10
<1>2. ASSUME CaptureInv PROVE CompleteVerifies
  <2> SUFFICES ASSUME disk.row = "complete", ~ Lost
               PROVE  VerifyComplete(disk.capture) \/ VerifyComplete(disk.backup)
    BY DEF CompleteVerifies, Lost
  <2>1. PICK b \in Nat, n \in Nat : FileKept(b, n)
    BY <1>2 DEF CaptureInv, Kept, NothingWritten
  <2>2. VerifyComplete(File)
    BY <2>1, VerifiesIff DEF FileKept
  <2> QED
    BY <2>2 DEF File
<1>3. CaptureInv => CaptureSurvives
  BY <1>1, <1>2 DEF CaptureSurvives
<1> QED
  BY <1>3, CaptureInvariant, PTL

-----------------------------------------------------------------------------
(* The rows of the database.                                                 *)

USE CatalogAssumption

-----------------------------------------------------------------------------
(* Types.                                                                    *)

States == {"absent", "live", "deleted"}
AnyRefs == UNION {[DOMAIN Columns[t] -> Rows \cup {NoRow}] : t \in Tables}
Fits(refs, t) ==
  /\ DOMAIN refs = DOMAIN Columns[t]
  /\ \A c \in DOMAIN refs : refs[c] \in Of(Columns[t][c]) \cup {NoRow}
Pair(l) == l \in Rows \X Rows /\ <<table[l[1]], table[l[2]]>> \in Links

RowsTyped ==
  /\ table \in [Rows -> Tables]
  /\ row \in [Rows -> [state : States, refs : AnyRefs]]
  /\ \A r \in Rows : Fits(row[r].refs, table[r])
  /\ \A l \in linked : Pair(l)
  /\ stamped \subseteq Rows /\ outdated \subseteq Rows \X Rows

(* An open editor holds references and links that its row may have.          *)
EditorsTyped ==
  /\ editor \in [Windows -> [row : Rows \cup {NoRow}, pc : {"closed", "editing", "tags"},
                             refs : AnyRefs, links : SUBSET (Rows \X Rows)]]
  /\ \A w \in Windows : editor[w].pc # "closed" =>
       /\ editor[w].row \in Rows /\ table[editor[w].row] # "favorites"
       /\ Fits(editor[w].refs, table[editor[w].row])
       /\ \A l \in editor[w].links : l[1] = editor[w].row /\ Pair(l)

TypeInv == RowsTyped /\ EditorsTyped

(* The schema, column by column: who refers to a table.                      *)
ReferringColumns(t) ==
  CASE t = "groups" -> {<<"groups", "parent">>, <<"hosts", "group">>}
    [] t = "keys" -> {<<"identities", "key">>, <<"hosts", "key">>, <<"groups", "key">>}
    [] t = "identities" ->
         {<<"hosts", "identity">>, <<"hosts", "telnet">>, <<"groups", "identity">>,
          <<"groups", "telnet">>, <<"proxies", "identity">>}
    [] t = "proxies" -> {<<"hosts", "proxy">>, <<"groups", "proxy">>}
    [] t = "packages" -> {<<"snippets", "package">>}
    [] t = "snippets" -> StartupSnippets
    [] t = "hosts" -> Required
    [] OTHER -> {}

LEMMA TablesAre ==
  Tables = {"groups", "hosts", "identities", "forwards", "proxies", "favorites", "snippets",
            "keys", "tags", "packages"}
  BY DEF Tables, Columns

LEMMA Schema ==
  ASSUME NEW t \in Tables, NEW c \in DOMAIN Columns[t]
  PROVE  <<t, c>> \in ReferringColumns(Columns[t][c]) /\ Columns[t][c] \in Tables
  <1> USE DEF Columns, ReferringColumns, StartupSnippets, Required
  <1>1. CASE t = "groups"
    <2>1. c \in {"parent", "identity", "proxy", "snippet", "telnet", "key"}
      BY <1>1 DEF GroupColumns
    <2> QED
      BY <1>1, <2>1, TablesAre DEF GroupColumns
  <1>2. CASE t = "hosts"
    <2>1. c \in {"group", "identity", "proxy", "snippet", "telnet", "key"}
      BY <1>2 DEF HostColumns
    <2> QED
      BY <1>2, <2>1, TablesAre DEF HostColumns
  <1>3. CASE t \in {"identities", "forwards", "proxies", "favorites", "snippets"}
    BY <1>3, TablesAre
    DEF IdentityColumns, PortForwardColumns, ProxyColumns, FavoriteColumns, SnippetColumns
  <1>4. CASE t \in {"keys", "tags", "packages"}
    BY <1>4 DEF NoColumns
  <1> QED
    BY <1>1, <1>2, <1>3, <1>4, TablesAre

-----------------------------------------------------------------------------
(* What a deletion and a save do to the rows.                                *)

(* A row keeps its state and each of its references, or loses the reference. *)
LEMMA ClearedRows ==
  ASSUME RowsTyped, NEW r \in Rows, NEW columns, NEW o \in Rows
  PROVE  LET new == Cleared(r, columns)[o] IN
         /\ new.state = row[o].state /\ DOMAIN new.refs = DOMAIN row[o].refs
         /\ \A c \in DOMAIN row[o].refs :
              new.refs[c] = IF <<table[o], c>> \in columns /\ row[o].refs[c] = r THEN NoRow
                            ELSE row[o].refs[c]
         /\ new.refs \in AnyRefs /\ Fits(new.refs, table[o])
  <1> DEFINE new == Cleared(r, columns)[o]
  <1>1. /\ new.state = row[o].state
        /\ new.refs = [c \in DOMAIN row[o].refs |->
                         IF <<table[o], c>> \in columns /\ row[o].refs[c] = r THEN NoRow
                         ELSE row[o].refs[c]]
    BY DEF Cleared
  <1>2. Fits(row[o].refs, table[o]) /\ table[o] \in Tables
    BY DEF RowsTyped
  <1>3. Fits(new.refs, table[o])
    BY <1>1, <1>2 DEF Fits
  <1>4. new.refs \in [DOMAIN Columns[table[o]] -> Rows \cup {NoRow}]
    BY <1>1, <1>2 DEF Fits, Of
  <1> QED
    BY <1>1, <1>2, <1>3, <1>4 DEF AnyRefs

LEMMA DeletedTyped ==
  ASSUME RowsTyped, NEW r \in Rows, NEW columns, NEW by,
         row' = Deleted(Cleared(r, columns), by), UNCHANGED table
  PROVE  /\ row' \in [Rows -> [state : States, refs : AnyRefs]]
         /\ \A o \in Rows : /\ Fits(row'[o].refs, table[o])
                            /\ row'[o].refs = Cleared(r, columns)[o].refs
                            /\ row'[o].state = IF o \in by THEN "deleted" ELSE row[o].state
  <1>1. \A o \in Rows : /\ row'[o].refs = Cleared(r, columns)[o].refs
                        /\ row'[o].state = IF o \in by THEN "deleted" ELSE row[o].state
    BY ClearedRows DEF Deleted
  <1>2. \A o \in Rows : row'[o].refs \in AnyRefs /\ Fits(row'[o].refs, table[o])
    BY <1>1, ClearedRows
  <1>3. \A o \in Rows : row'[o].state \in States
    BY <1>1 DEF RowsTyped, States
  <1>4. row' = [o \in Rows |-> [state |-> row'[o].state, refs |-> row'[o].refs]]
    BY DEF Deleted
  <1> QED
    BY <1>1, <1>2, <1>3, <1>4

(* A reference goes to a row of its column's table, by a column that may.     *)
LEMMA ReferenceTyped ==
  ASSUME RowsTyped, NEW o \in Rows, NEW c \in DOMAIN row[o].refs, row[o].refs[c] # NoRow
  PROVE  LET d == row[o].refs[c] IN
         /\ d \in Rows /\ table[d] \in Tables
         /\ <<table[o], c>> \in ReferringColumns(table[d])
  <1> DEFINE d == row[o].refs[c]
  <1>1. table[o] \in Tables /\ c \in DOMAIN Columns[table[o]]
    BY DEF RowsTyped, Fits
  <1>2. d \in Of(Columns[table[o]][c])
    BY DEF RowsTyped, Fits
  <1>3. d \in Rows /\ table[d] = Columns[table[o]][c]
    BY <1>2 DEF Of
  <1> QED
    BY <1>1, <1>3, Schema

-----------------------------------------------------------------------------
(* Deletions.                                                                *)

LetsGo(o, c) ==
  LET d == row[o].refs[c]
  IN  d = NoRow \/ Live(d) \/ <<o, d>> \in outdated \/ <<table[o], c>> \in StartupSnippets
LEMMA LetGo ==
  DeletedIsLetGo <=>
    \A o \in Rows : Live(o) => /\ \A c \in DOMAIN row[o].refs : LetsGo(o, c)
                              /\ \A l \in LinksOf(o) : Live(l[2]) \/ l \in outdated
  BY DEF DeletedIsLetGo, LetsGo

Catalog == TypeInv /\ DeletedIsLetGo

LEMMA DeletionTyped ==
  ASSUME TypeInv, NEW r \in Rows, NEW t, NEW columns, NEW owned \in SUBSET Rows, NEW unlinked,
         NEW touched \in SUBSET Rows, DeleteRow(r, t, columns, owned, unlinked, touched)
  PROVE  TypeInv'
  <1> DEFINE gone == {o \in owned \cup {r} : Live(o)}
  <1>1. /\ row' = Deleted(Cleared(r, columns), gone) /\ linked' \subseteq linked
        /\ stamped' = gone \cup Referring(r, columns) \cup touched
        /\ UNCHANGED <<table, editor, outdated>>
    BY DEF DeleteRow
  <1>2. RowsTyped
    BY DEF TypeInv
  <1>3. /\ row' \in [Rows -> [state : States, refs : AnyRefs]]
        /\ \A o \in Rows : Fits(row'[o].refs, table[o])
    BY <1>1, <1>2, DeletedTyped
  <1>4. RowsTyped'
    <2>1. \A o \in Rows : Fits(row[o].refs, table[o])'
      BY <1>1, <1>3 DEF Fits, Of
    <2>2. stamped' \subseteq Rows
      BY <1>1 DEF Referring
    <2>3. \A l \in linked' : Pair(l)'
      BY <1>1, <1>2 DEF RowsTyped, Pair
    <2> QED
      BY <1>1, <1>2, <1>3, <2>1, <2>2, <2>3 DEF RowsTyped, Of
  <1>5. EditorsTyped'
    BY <1>1 DEF TypeInv, EditorsTyped, Fits, Of, Pair
  <1> QED
    BY <1>4, <1>5 DEF TypeInv

(* A deletion lets go: it clears every column that refers to the row, short  *)
(* of the startup snippets, or deletes the row that does, and unlinks it.    *)
LEMMA DeletionLetsGo ==
  ASSUME Catalog, NEW r \in Rows, NEW t, NEW columns, NEW owned \in SUBSET Rows, NEW unlinked,
         NEW touched \in SUBSET Rows, DeleteRow(r, t, columns, owned, unlinked, touched),
         \A o \in owned : table[o] \in {"forwards", "favorites"},
         \A o \in Rows : \A c \in DOMAIN row[o].refs :
           row[o].refs[c] = r =>
             \/ <<table[o], c>> \in columns \cup StartupSnippets
             \/ o \in owned,
         \A l \in linked : l[2] = r => l \in unlinked
  PROVE  DeletedIsLetGo'
  <1> DEFINE gone == {o \in owned \cup {r} : Live(o)}
  <1>1. /\ row' = Deleted(Cleared(r, columns), gone) /\ linked' = linked \ unlinked
        /\ UNCHANGED <<table, outdated>>
    BY DEF DeleteRow
  <1>2. RowsTyped
    BY DEF Catalog, TypeInv
  <1>3. \A o \in Rows : Live(o)' <=> Live(o) /\ o \notin gone
    BY <1>1, <1>2, DeletedTyped DEF Live
  <1>4. ASSUME NEW o \in Rows, Live(o)', NEW c \in DOMAIN row'[o].refs
        PROVE  LetsGo(o, c)'
    <2> DEFINE d == row[o].refs[c]
    <2>1. /\ c \in DOMAIN row[o].refs
          /\ row'[o].refs[c] = IF <<table[o], c>> \in columns /\ d = r THEN NoRow ELSE d
      BY <1>1, <1>2, <1>4, DeletedTyped, ClearedRows
    <2>2. CASE d = NoRow \/ (<<table[o], c>> \in StartupSnippets \cup columns /\ d = r)
      BY <1>1, <2>1, <2>2 DEF LetsGo
    <2>3. CASE d # NoRow /\ d # r
      <3>1. d \in Rows /\ d \notin owned
        <4>1. d \in Rows /\ <<table[o], c>> \in ReferringColumns(table[d])
          BY <1>2, <2>1, <2>3, ReferenceTyped
        <4>2. table[d] \notin {"forwards", "favorites"}
          BY <4>1 DEF ReferringColumns
        <4> QED
          BY <4>1, <4>2
      <3>2. LetsGo(o, c)
        BY <1>3, <1>4, <2>1, LetGo DEF Catalog
      <3> QED
        BY <1>1, <1>3, <2>1, <2>3, <3>1, <3>2 DEF LetsGo
    <2>4. CASE d = r /\ <<table[o], c>> \notin StartupSnippets \cup columns
      <3>1. o \in owned
        BY <2>1, <2>4
      <3> QED
        BY <1>3, <1>4, <3>1
    <2> QED
      BY <2>2, <2>3, <2>4
  <1>5. ASSUME NEW o \in Rows, Live(o)', NEW l \in LinksOf(o)'
        PROVE  Live(l[2])' \/ l \in outdated'
    <2>1. l \in LinksOf(o) /\ l \in linked /\ l[2] # r
      BY <1>1, <1>5 DEF LinksOf
    <2>2. l[2] \in Rows /\ l[2] \notin owned
      BY <1>2, <2>1 DEF RowsTyped, Pair, Links
    <2> QED
      BY <1>1, <1>3, <1>5, <2>1, <2>2, LetGo DEF Catalog
  <1> QED
    <2>1. (\A o \in Rows : Live(o) => /\ \A c \in DOMAIN row[o].refs : LetsGo(o, c)
                                     /\ \A l \in LinksOf(o) : Live(l[2]) \/ l \in outdated)'
      BY <1>4, <1>5
    <2> QED
      BY <2>1, LetGo, PTL

(* Every deletion of the repositories is of that kind.                       *)
Deletion(r) ==
  \/ delete_group(r) \/ delete_key(r) \/ delete_identity(r) \/ delete_tag(r) \/ delete_host(r)
  \/ delete_port_forward(r) \/ delete_proxy(r) \/ delete_snippet_package(r) \/ delete_snippet(r)

LEMMA DeletionStep == ASSUME Catalog, NEW r \in Rows, Deletion(r) PROVE Catalog'
  <1>1. ASSUME NEW o \in Rows, NEW c \in DOMAIN row[o].refs, row[o].refs[c] = r
        PROVE  <<table[o], c>> \in ReferringColumns(table[r])
    BY <1>1, ReferenceTyped DEF Catalog, TypeInv
  <1>2. \A l \in linked : <<table[l[1]], table[l[2]]>> \in Links /\ l \in Rows \X Rows
    BY DEF Catalog, TypeInv, RowsTyped, Pair
  <1>3. CASE delete_group(r)
    <2>1. /\ DeleteRow(r, "groups", {<<"groups", "parent">>, <<"hosts", "group">>}, {}, Targeting(r), {})
          /\ table[r] = "groups"
      BY <1>3 DEF delete_group, DeleteRow
    <2>2. \A o \in Rows : \A c \in DOMAIN row[o].refs :
            row[o].refs[c] = r => <<table[o], c>> \in {<<"groups", "parent">>, <<"hosts", "group">>} \cup StartupSnippets
      BY <1>1, <2>1 DEF ReferringColumns
    <2>3. \A l \in linked : l[2] = r => l \in Targeting(r)
      BY <1>2, <2>1 DEF Links, Targeting
    <2> QED
      BY <2>1, <2>2, <2>3, DeletionTyped, DeletionLetsGo DEF Catalog
  <1>4. CASE delete_key(r)
    <2>1. /\ DeleteRow(r, "keys", {<<"identities", "key">>, <<"hosts", "key">>, <<"groups", "key">>}, {}, {}, {})
          /\ table[r] = "keys"
      BY <1>4 DEF delete_key, DeleteRow
    <2>2. \A o \in Rows : \A c \in DOMAIN row[o].refs :
            row[o].refs[c] = r => <<table[o], c>> \in {<<"identities", "key">>, <<"hosts", "key">>, <<"groups", "key">>} \cup StartupSnippets
      BY <1>1, <2>1 DEF ReferringColumns
    <2>3. \A l \in linked : l[2] = r => l \in {}
      BY <1>2, <2>1 DEF Links, Targeting
    <2> QED
      BY <2>1, <2>2, <2>3, DeletionTyped, DeletionLetsGo DEF Catalog
  <1>5. CASE delete_identity(r)
    <2>1. /\ DeleteRow(r, "identities", {<<"hosts", "identity">>, <<"hosts", "telnet">>, <<"groups", "identity">>,
             <<"groups", "telnet">>, <<"proxies", "identity">>}, {}, {}, {})
          /\ table[r] = "identities"
      BY <1>5 DEF delete_identity, DeleteRow
    <2>2. \A o \in Rows : \A c \in DOMAIN row[o].refs :
            row[o].refs[c] = r => <<table[o], c>> \in {<<"hosts", "identity">>, <<"hosts", "telnet">>, <<"groups", "identity">>,
             <<"groups", "telnet">>, <<"proxies", "identity">>} \cup StartupSnippets
      BY <1>1, <2>1 DEF ReferringColumns
    <2>3. \A l \in linked : l[2] = r => l \in {}
      BY <1>2, <2>1 DEF Links, Targeting
    <2> QED
      BY <2>1, <2>2, <2>3, DeletionTyped, DeletionLetsGo DEF Catalog
  <1>6. CASE delete_tag(r)
    <2> DEFINE of == {l \in linked : l[2] = r}
               tagged == {l[1] : l \in {k \in linked : k[2] = r}}
    <2>1. DeleteRow(r, "tags", {}, {}, of, tagged) /\ table[r] = "tags"
      BY <1>6 DEF delete_tag, DeleteRow
    <2>2. \A o \in Rows : \A c \in DOMAIN row[o].refs : row[o].refs[c] # r
      BY <1>1, <2>1 DEF ReferringColumns
    <2>3. tagged \subseteq Rows
      BY DEF Catalog, TypeInv, RowsTyped, Pair
    <2> QED
      BY <2>1, <2>2, <2>3, DeletionTyped, DeletionLetsGo DEF Catalog
  <1>7. CASE delete_host(r)
    <2> DEFINE owned == {o \in Of("forwards") \cup Of("favorites") : Refers(o, "host", r)}
    <2>1. DeleteRow(r, "hosts", {}, owned, Targeting(r), {}) /\ table[r] = "hosts"
      BY <1>7 DEF delete_host, DeleteRow
    <2>2. owned \subseteq Rows /\ \A o \in owned : table[o] \in {"forwards", "favorites"}
      BY DEF Of
    <2>3. \A o \in Rows : \A c \in DOMAIN row[o].refs : row[o].refs[c] = r => o \in owned
      BY <1>1, <2>1 DEF ReferringColumns, Required, Refers, Of
    <2>4. \A l \in linked : l[2] = r => l \in Targeting(r)
      BY <1>2, <2>1 DEF Links, Targeting
    <2> QED
      BY <2>1, <2>2, <2>3, <2>4, DeletionTyped, DeletionLetsGo DEF Catalog
  <1>8. CASE delete_port_forward(r)
    <2>1. /\ DeleteRow(r, "forwards", {}, {}, {}, {})
          /\ table[r] = "forwards"
      BY <1>8 DEF delete_port_forward, DeleteRow
    <2>2. \A o \in Rows : \A c \in DOMAIN row[o].refs :
            row[o].refs[c] = r => <<table[o], c>> \in {} \cup StartupSnippets
      BY <1>1, <2>1 DEF ReferringColumns
    <2>3. \A l \in linked : l[2] = r => l \in {}
      BY <1>2, <2>1 DEF Links, Targeting
    <2> QED
      BY <2>1, <2>2, <2>3, DeletionTyped, DeletionLetsGo DEF Catalog
  <1>9. CASE delete_proxy(r)
    <2>1. /\ DeleteRow(r, "proxies", {<<"hosts", "proxy">>, <<"groups", "proxy">>}, {}, {}, {})
          /\ table[r] = "proxies"
      BY <1>9 DEF delete_proxy, DeleteRow
    <2>2. \A o \in Rows : \A c \in DOMAIN row[o].refs :
            row[o].refs[c] = r => <<table[o], c>> \in {<<"hosts", "proxy">>, <<"groups", "proxy">>} \cup StartupSnippets
      BY <1>1, <2>1 DEF ReferringColumns
    <2>3. \A l \in linked : l[2] = r => l \in {}
      BY <1>2, <2>1 DEF Links, Targeting
    <2> QED
      BY <2>1, <2>2, <2>3, DeletionTyped, DeletionLetsGo DEF Catalog
  <1>10. CASE delete_snippet_package(r)
    <2>1. /\ DeleteRow(r, "packages", {<<"snippets", "package">>}, {}, {}, {})
          /\ table[r] = "packages"
      BY <1>10 DEF delete_snippet_package, DeleteRow
    <2>2. \A o \in Rows : \A c \in DOMAIN row[o].refs :
            row[o].refs[c] = r => <<table[o], c>> \in {<<"snippets", "package">>} \cup StartupSnippets
      BY <1>1, <2>1 DEF ReferringColumns
    <2>3. \A l \in linked : l[2] = r => l \in {}
      BY <1>2, <2>1 DEF Links, Targeting
    <2> QED
      BY <2>1, <2>2, <2>3, DeletionTyped, DeletionLetsGo DEF Catalog
  <1>11. CASE delete_snippet(r)
    <2>1. /\ DeleteRow(r, "snippets", {}, {}, LinksOf(r), {})
          /\ table[r] = "snippets"
      BY <1>11 DEF delete_snippet, DeleteRow
    <2>2. \A o \in Rows : \A c \in DOMAIN row[o].refs :
            row[o].refs[c] = r => <<table[o], c>> \in {} \cup StartupSnippets
      BY <1>1, <2>1 DEF ReferringColumns
    <2>3. \A l \in linked : l[2] = r => l \in LinksOf(r)
      BY <1>2, <2>1 DEF Links, Targeting
    <2> QED
      BY <2>1, <2>2, <2>3, DeletionTyped, DeletionLetsGo DEF Catalog
  <1> QED
    BY <1>3, <1>4, <1>5, <1>6, <1>7, <1>8, <1>9, <1>10, <1>11 DEF Deletion

-----------------------------------------------------------------------------
(* Editors.                                                                  *)

LEMMA NoEditorTyped ==
  NoEditor \in [row : Rows \cup {NoRow}, pc : {"closed", "editing", "tags"}, refs : AnyRefs,
                links : SUBSET (Rows \X Rows)]
  <1>1. Unset("tags") \in [DOMAIN Columns["tags"] -> Rows \cup {NoRow}]
    BY DEF Unset
  <1> QED
    BY <1>1, TablesAre DEF NoEditor, AnyRefs

(* One window's editor changes.                                              *)
LEMMA EditorChanged ==
  ASSUME EditorsTyped, UNCHANGED table, NEW w \in Windows,
         NEW e \in [row : Rows \cup {NoRow}, pc : {"closed", "editing", "tags"}, refs : AnyRefs,
                    links : SUBSET (Rows \X Rows)],
         e.pc # "closed" =>
           /\ e.row \in Rows /\ table[e.row] # "favorites" /\ Fits(e.refs, table[e.row])
           /\ \A l \in e.links : l[1] = e.row /\ Pair(l),
         editor' = [editor EXCEPT ![w] = e]
  PROVE  EditorsTyped'
  <1>1. \A v \in Windows : editor'[v] = IF v = w THEN e ELSE editor[v]
    BY DEF EditorsTyped
  <1>2. ASSUME NEW v \in Windows, editor'[v].pc # "closed"
        PROVE  /\ editor'[v].row \in Rows /\ table[editor'[v].row] # "favorites"
               /\ Fits(editor'[v].refs, table[editor'[v].row])
               /\ \A l \in editor'[v].links : l[1] = editor'[v].row /\ Pair(l)
    BY <1>1, <1>2 DEF EditorsTyped
  <1> QED
    BY <1>2 DEF EditorsTyped, Fits, Of, Pair

LEMMA EditorClosed ==
  ASSUME EditorsTyped, UNCHANGED table, NEW w \in Windows,
         editor' = [editor EXCEPT ![w] = NoEditor]
  PROVE  EditorsTyped'
  <1>1. NoEditor.pc = "closed"
    BY DEF NoEditor
  <1> QED
    BY <1>1, NoEditorTyped, EditorChanged

LEMMA FitsAny == ASSUME RowsTyped, NEW t \in Tables, NEW refs, Fits(refs, t),
                        refs = [c \in DOMAIN refs |-> refs[c]]
                 PROVE  refs \in AnyRefs
  <1>1. refs \in [DOMAIN Columns[t] -> Rows \cup {NoRow}]
    BY DEF Fits, Of
  <1> QED
    BY <1>1 DEF AnyRefs

LEMMA OpenTyped == ASSUME TypeInv, NEW w \in Windows, NEW r \in Rows, OpenEditor(w, r)
                   PROVE  EditorsTyped'
  <1> DEFINE e == [row |-> r, pc |-> "editing", refs |-> Resolved(r),
                   links |-> {l \in LinksOf(r) : Live(l[2])}]
  <1>1. /\ editor' = [editor EXCEPT ![w] = e] /\ UNCHANGED table
        /\ table[r] # "favorites" /\ table[r] \in Tables
    BY DEF OpenEditor, TypeInv, RowsTyped
  <1>2. Fits(Resolved(r), table[r])
    BY DEF Resolved, TypeInv, RowsTyped, Fits
  <1>3. Resolved(r) \in AnyRefs
    <2>1. Resolved(r) = [c \in DOMAIN Resolved(r) |-> Resolved(r)[c]]
      BY DEF Resolved
    <2> QED
      BY <1>1, <1>2, <2>1, FitsAny DEF TypeInv
  <1>4. \A l \in e.links : l[1] = r /\ Pair(l)
    BY DEF LinksOf, TypeInv, RowsTyped
  <1>5. e.links \subseteq Rows \X Rows
    BY <1>4 DEF Pair
  <1> QED
    BY <1>1, <1>2, <1>3, <1>4, <1>5, EditorChanged DEF TypeInv

LEMMA ChooseTyped == ASSUME TypeInv, NEW w \in Windows, ChooseReference(w)
                     PROVE  EditorsTyped'
  <1> DEFINE e == editor[w]
             r == e.row
  <1>1. /\ e \in [row : Rows \cup {NoRow}, pc : {"closed", "editing", "tags"}, refs : AnyRefs,
                  links : SUBSET (Rows \X Rows)]
        /\ e.pc = "editing" /\ r \in Rows /\ table[r] \in Tables /\ table[r] # "favorites"
        /\ Fits(e.refs, table[r]) /\ \A l \in e.links : l[1] = r /\ Pair(l)
        /\ UNCHANGED table
    BY DEF ChooseReference, TypeInv, EditorsTyped, RowsTyped
  <1>2. ASSUME NEW c \in DOMAIN e.refs, NEW d \in Selectable(Columns[table[r]][c]),
               editor' = [editor EXCEPT ![w].refs = [@ EXCEPT ![c] = d]]
        PROVE  EditorsTyped'
    <2> DEFINE refs == [e.refs EXCEPT ![c] = d]
               f == [e EXCEPT !.refs = refs]
    <2>1. DOMAIN refs = DOMAIN e.refs /\ refs = [k \in DOMAIN refs |-> refs[k]]
          /\ \A k \in DOMAIN refs : refs[k] = IF k = c THEN d ELSE e.refs[k]
      OBVIOUS
    <2>2. d \in Of(Columns[table[r]][c]) \cup {NoRow}
      BY DEF Selectable
    <2>3. Fits(refs, table[r])
      BY <1>1, <2>1, <2>2 DEF Fits
    <2>4. refs \in AnyRefs
      BY <1>1, <2>1, <2>3, FitsAny DEF TypeInv
    <2>5. f = [row |-> r, pc |-> "editing", refs |-> refs, links |-> e.links]
      BY <1>1
    <2>6. editor' = [editor EXCEPT ![w] = f]
      BY <1>2
    <2> HIDE DEF refs, f
    <2>7. f \in [row : Rows \cup {NoRow}, pc : {"closed", "editing", "tags"}, refs : AnyRefs,
                 links : SUBSET (Rows \X Rows)]
      BY <1>1, <2>4, <2>5
    <2> QED
      BY <1>1, <2>3, <2>5, <2>6, <2>7, EditorChanged DEF TypeInv
  <1>3. ASSUME NEW d \in Rows, <<table[r], table[d]>> \in Links,
               NEW links, links \subseteq e.links \cup {<<r, d>>},
               editor' = [editor EXCEPT ![w].links = links]
        PROVE  EditorsTyped'
    <2> DEFINE f == [e EXCEPT !.links = links]
    <2>1. Pair(<<r, d>>)
      BY <1>1, <1>3 DEF Pair
    <2>2. f = [row |-> r, pc |-> "editing", refs |-> e.refs, links |-> links]
      BY <1>1
    <2>3. \A l \in links : l[1] = r /\ Pair(l)
      BY <1>1, <1>3, <2>1
    <2>4. links \subseteq Rows \X Rows
      BY <2>3 DEF Pair
    <2>5. editor' = [editor EXCEPT ![w] = f]
      BY <1>3
    <2> HIDE DEF f
    <2>6. f \in [row : Rows \cup {NoRow}, pc : {"closed", "editing", "tags"}, refs : AnyRefs,
                 links : SUBSET (Rows \X Rows)]
      BY <1>1, <2>2, <2>4
    <2> QED
      BY <1>1, <2>2, <2>3, <2>5, <2>6, EditorChanged DEF TypeInv
  <1>4. CASE \E c \in DOMAIN e.refs : \E d \in Selectable(Columns[table[r]][c]) :
               editor' = [editor EXCEPT ![w].refs = [@ EXCEPT ![c] = d]]
    BY <1>2, <1>4
  <1>5. ASSUME NEW d \in {d \in Rows : Live(d) /\ <<table[r], table[d]>> \in Links},
               editor' = [editor EXCEPT ![w].links =
                            IF <<r, d>> \in @ THEN @ \ {<<r, d>>} ELSE @ \cup {<<r, d>>}]
        PROVE  EditorsTyped'
    <2> DEFINE links == IF <<r, d>> \in e.links THEN e.links \ {<<r, d>>}
                        ELSE e.links \cup {<<r, d>>}
    <2>1. links \subseteq e.links \cup {<<r, d>>}
      OBVIOUS
    <2>2. editor' = [editor EXCEPT ![w].links = links]
      BY <1>5
    <2> QED
      BY <1>3, <1>5, <2>1, <2>2
  <1> QED
    BY <1>4, <1>5 DEF ChooseReference

-----------------------------------------------------------------------------
(* Saves.                                                                    *)

(* What an editor saves fits the table of its row.                           *)
LEMMA EditedFits ==
  ASSUME TypeInv, NEW w \in Windows, editor[w].pc = "editing"
  PROVE  LET r == editor[w].row
             new == EditedRow(w)
         IN  /\ r \in Rows /\ table[r] \in Tables /\ table[r] # "favorites"
             /\ new.state = "live" /\ Fits(new.refs, table[r])
             /\ new \in [state : States, refs : AnyRefs]
  <1> DEFINE r == editor[w].row
             new == EditedRow(w)
  <1>1. r \in Rows /\ table[r] \in Tables /\ table[r] # "favorites" /\ Fits(editor[w].refs, table[r])
    BY DEF TypeInv, EditorsTyped, RowsTyped
  <1>2. /\ new = [state |-> "live", refs |-> new.refs]
        /\ new.refs = [c \in DOMAIN editor[w].refs |-> editor[w].refs[c]]
    BY DEF EditedRow, relation_uuid
  <1>3. Fits(new.refs, table[r])
    BY <1>1, <1>2 DEF Fits
  <1>4. new.refs \in AnyRefs
    BY <1>1, <1>2, <1>3, FitsAny DEF TypeInv
  <1> QED
    BY <1>1, <1>2, <1>3, <1>4 DEF States

LEMMA Outdating ==
  ASSUME NEW r \in Rows, NEW refs, NEW pairs, NEW d \in Rows, ~ Live(d),
         (\E c \in DOMAIN refs : refs[c] = d) \/ <<r, d>> \in pairs
  PROVE  <<r, d>> \in Outdated(r, refs, pairs)
  <1> DEFINE lost == {e \in Rows : ~ Live(e) /\ (<<r, e>> \in pairs \/ \E c \in DOMAIN refs : refs[c] = e)}
  <1>1. d \in lost
    OBVIOUS
  <1>2. Outdated(r, refs, pairs) = {q \in outdated : q[1] # r} \cup {<<r, e>> : e \in lost}
    BY DEF Outdated
  <1> HIDE DEF lost
  <1> QED
    BY <1>1, <1>2

(* A row that is saved, while others may lose references and links: where a  *)
(* reference it now has is to a row that is not live, the pair is outdated.  *)
LEMMA SaveLetsGo ==
  ASSUME Catalog, NEW r \in Rows, NEW new \in [state : States, refs : AnyRefs], NEW pairs,
         new.state = "live", Fits(new.refs, table[r]), UNCHANGED table,
         row' \in [Rows -> [state : States, refs : AnyRefs]],
         row'[r] = new,
         \A o \in Rows \ {r} :
           /\ row'[o].state = row[o].state /\ DOMAIN row'[o].refs = DOMAIN row[o].refs
           /\ \A c \in DOMAIN row[o].refs : row'[o].refs[c] \in {row[o].refs[c], NoRow},
         outdated' = Outdated(r, new.refs, pairs),
         \A l \in linked' : Pair(l) /\ IF l[1] = r THEN l \in pairs ELSE l \in linked
  PROVE  DeletedIsLetGo'
  <1>1. \A o \in Rows : Live(o) => Live(o)'
    BY DEF Live
  <1>2. ASSUME NEW o \in Rows, Live(o)', NEW c \in DOMAIN row'[o].refs
        PROVE  LetsGo(o, c)'
    <2>1. CASE o = r
      <3> DEFINE d == new.refs[c]
      <3>1. d = NoRow \/ d \in Rows
        BY <1>2, <2>1 DEF Fits, Of
      <3>2. d \in Rows /\ ~ Live(d) => <<r, d>> \in outdated'
        BY <1>2, <2>1 DEF Outdated
      <3> QED
        BY <1>1, <2>1, <3>1, <3>2 DEF LetsGo
    <2>2. CASE o # r
      <3>1. Live(o) /\ c \in DOMAIN row[o].refs /\ row'[o].refs[c] \in {row[o].refs[c], NoRow}
        BY <1>2, <2>2 DEF Live
      <3>2. LetsGo(o, c)
        BY <3>1, LetGo DEF Catalog
      <3>3. \A d : <<o, d>> \in outdated => <<o, d>> \in outdated'
        BY <2>2 DEF Outdated
      <3>4. row[o].refs[c] = NoRow \/ row[o].refs[c] \in Rows
        BY <3>1 DEF Catalog, TypeInv, RowsTyped, Fits, Of
      <3> QED
        BY <1>1, <3>1, <3>2, <3>3, <3>4 DEF LetsGo
    <2> QED
      BY <2>1, <2>2
  <1>3. ASSUME NEW o \in Rows, Live(o)', NEW l \in LinksOf(o)'
        PROVE  Live(l[2])' \/ l \in outdated'
    <2>1. l \in linked' /\ l[1] = o /\ l \in Rows \X Rows
      BY <1>3 DEF LinksOf, Pair
    <2>2. CASE o = r
      <3>1. l \in pairs /\ l = <<r, l[2]>> /\ l[2] \in Rows
        BY <2>1, <2>2
      <3>2. ASSUME ~ Live(l[2]) PROVE l \in outdated'
        <4>1. <<r, l[2]>> \in pairs
          BY <3>1
        <4>2. <<r, l[2]>> \in Outdated(r, new.refs, pairs)
          BY <3>1, <3>2, <4>1, Outdating
        <4> QED
          BY <3>1, <4>2
      <3> QED
        BY <1>1, <3>1, <3>2
    <2>3. CASE o # r
      <3>1. Live(o) /\ l \in LinksOf(o)
        BY <1>3, <2>1, <2>3 DEF Live, LinksOf
      <3>2. Live(l[2]) \/ l \in outdated
        BY <3>1, LetGo DEF Catalog
      <3> QED
        BY <1>1, <2>1, <2>3, <3>2 DEF Outdated
    <2> QED
      BY <2>2, <2>3
  <1> QED
    <2>1. (\A o \in Rows : Live(o) => /\ \A c \in DOMAIN row[o].refs : LetsGo(o, c)
                                     /\ \A l \in LinksOf(o) : Live(l[2]) \/ l \in outdated)'
      BY <1>2, <1>3
    <2> QED
      BY <2>1, LetGo, PTL

LEMMA OutdatedTyped ==
  ASSUME RowsTyped, NEW r \in Rows, NEW refs, NEW pairs
  PROVE  Outdated(r, refs, pairs) \subseteq Rows \X Rows
  <1> SUFFICES ASSUME NEW q \in Outdated(r, refs, pairs) PROVE q \in Rows \X Rows
    OBVIOUS
  <1>1. q \in outdated \/ \E d \in Rows : q = <<r, d>>
    BY DEF Outdated
  <1> QED
    BY <1>1 DEF RowsTyped

(* The row itself is all that most saves write.                              *)
LEMMA RowSaved ==
  ASSUME Catalog, NEW w \in Windows, editor[w].pc = "editing",
         row' = [row EXCEPT ![editor[w].row] = EditedRow(w)],
         stamped' = {editor[w].row},
         outdated' = Outdated(editor[w].row, EditedRow(w).refs, LinksOf(editor[w].row)),
         UNCHANGED <<table, linked>>
  PROVE  RowsTyped' /\ DeletedIsLetGo'
  <1> DEFINE r == editor[w].row
             new == EditedRow(w)
  <1>1. /\ r \in Rows /\ new.state = "live" /\ Fits(new.refs, table[r])
        /\ new \in [state : States, refs : AnyRefs]
    BY EditedFits DEF Catalog
  <1>2. /\ row' \in [Rows -> [state : States, refs : AnyRefs]]
        /\ \A o \in Rows : row'[o] = IF o = r THEN new ELSE row[o]
    BY <1>1 DEF Catalog, TypeInv, RowsTyped
  <1>3. RowsTyped'
    <2>1. \A o \in Rows : Fits(row[o].refs, table[o])'
      BY <1>1, <1>2 DEF Catalog, TypeInv, RowsTyped, Fits, Of
    <2>2. outdated' \subseteq Rows \X Rows
      BY <1>1, OutdatedTyped DEF Catalog, TypeInv
    <2> QED
      BY <1>1, <1>2, <2>1, <2>2 DEF Catalog, TypeInv, RowsTyped, Of, Pair
  <1>4. DeletedIsLetGo'
    <2>1. \A l \in linked' : Pair(l) /\ IF l[1] = r THEN l \in LinksOf(r) ELSE l \in linked
      BY DEF LinksOf, Catalog, TypeInv, RowsTyped
    <2>2. \A o \in Rows \ {r} : row'[o] = row[o]
      BY <1>2
    <2> HIDE DEF r, new
    <2>3. UNCHANGED table /\ row'[r] = new /\ outdated' = Outdated(r, new.refs, LinksOf(r))
      BY <1>1, <1>2 DEF r, new
    <2> QED
      BY <1>1, <1>2, <2>1, <2>2, <2>3, SaveLetsGo, SMTT(30)
  <1> QED
    BY <1>3, <1>4

SaveOfRow(w) ==
  \/ save_group(w) \/ save_key(w) \/ save_identity(w) \/ save_tag(w) \/ save_port_forward(w)
  \/ save_proxy(w) \/ save_snippet_package(w)

LEMMA SaveOfRowStep == ASSUME Catalog, NEW w \in Windows, SaveOfRow(w) PROVE Catalog'
  <1>1. /\ editor[w].pc = "editing"
        /\ row' = [row EXCEPT ![editor[w].row] = EditedRow(w)]
        /\ stamped' = {editor[w].row}
        /\ outdated' = Outdated(editor[w].row, EditedRow(w).refs, LinksOf(editor[w].row))
        /\ UNCHANGED <<table, linked>>
        /\ editor' = [editor EXCEPT ![w] = NoEditor]
    BY DEF SaveOfRow, save_group, save_key, save_identity, save_tag, save_port_forward,
           save_proxy, save_snippet_package, SaveEdited
  <1>2. RowsTyped' /\ DeletedIsLetGo'
    BY <1>1, RowSaved
  <1>3. EditorsTyped'
    BY <1>1, EditorClosed DEF Catalog, TypeInv
  <1> QED
    BY <1>2, <1>3 DEF Catalog, TypeInv

LEMMA SaveHostStep == ASSUME Catalog, NEW w \in Windows, save_host(w) PROVE Catalog'
  <1> DEFINE e == editor[w]
             f == [e EXCEPT !.pc = "tags"]
  <1>1. /\ e.pc = "editing"
        /\ row' = [row EXCEPT ![e.row] = EditedRow(w)]
        /\ stamped' = {e.row}
        /\ outdated' = Outdated(e.row, EditedRow(w).refs, LinksOf(e.row))
        /\ UNCHANGED <<table, linked>>
        /\ editor' = [editor EXCEPT ![w].pc = "tags"]
    BY DEF save_host
  <1>2. RowsTyped' /\ DeletedIsLetGo'
    BY <1>1, RowSaved
  <1>3. /\ e \in [row : Rows \cup {NoRow}, pc : {"closed", "editing", "tags"}, refs : AnyRefs,
                  links : SUBSET (Rows \X Rows)]
        /\ e.row \in Rows /\ table[e.row] # "favorites" /\ Fits(e.refs, table[e.row])
        /\ \A l \in e.links : l[1] = e.row /\ Pair(l)
    BY <1>1 DEF Catalog, TypeInv, EditorsTyped
  <1>4. EditorsTyped'
    <2>1. f = [row |-> e.row, pc |-> "tags", refs |-> e.refs, links |-> e.links]
      BY <1>3
    <2>2. editor' = [editor EXCEPT ![w] = f]
      BY <1>1
    <2> HIDE DEF f
    <2>3. f \in [row : Rows \cup {NoRow}, pc : {"closed", "editing", "tags"}, refs : AnyRefs,
                 links : SUBSET (Rows \X Rows)]
      BY <1>3, <2>1
    <2>4. EditorsTyped /\ UNCHANGED table
      BY <1>1 DEF Catalog, TypeInv
    <2>5. /\ f.row \in Rows /\ table[f.row] # "favorites" /\ Fits(f.refs, table[f.row])
          /\ \A l \in f.links : l[1] = f.row /\ Pair(l)
      BY <1>3, <2>1
    <2> QED
      BY <2>2, <2>3, <2>4, <2>5, EditorChanged
  <1> QED
    BY <1>2, <1>4 DEF Catalog, TypeInv

(* Where the rows stay and nothing new is linked to a row that is not live.  *)
LEMMA RowsStay ==
  ASSUME Catalog, UNCHANGED <<table, row, outdated>>, stamped' \subseteq Rows,
         \A l \in linked' : l \in linked \/ (Pair(l) /\ Live(l[2]))
  PROVE  RowsTyped' /\ DeletedIsLetGo'
  <1>1. RowsTyped'
    BY DEF Catalog, TypeInv, RowsTyped, Fits, Of, Pair
  <1>2. DeletedIsLetGo'
    BY DEF Catalog, DeletedIsLetGo, Live, LinksOf
  <1> QED
    BY <1>1, <1>2

LEMMA ReplaceTagsStep == ASSUME Catalog, NEW w \in Windows, replace_host_tags(w) PROVE Catalog'
  <1>1. \A l \in linked' : l \in linked \/ (Pair(l) /\ Live(l[2]))
    BY DEF replace_host_tags, Catalog, TypeInv, EditorsTyped
  <1>2. RowsTyped' /\ DeletedIsLetGo'
    BY <1>1, RowsStay DEF replace_host_tags, Catalog, TypeInv, RowsTyped
  <1>3. EditorsTyped'
    BY EditorClosed DEF replace_host_tags, Catalog, TypeInv
  <1> QED
    BY <1>2, <1>3 DEF Catalog, TypeInv

LEMMA EditorStep ==
  ASSUME Catalog, NEW w \in Windows,
         (\E r \in Rows : OpenEditor(w, r)) \/ ChooseReference(w) \/ CloseEditor(w)
  PROVE  Catalog'
  <1>1. UNCHANGED <<table, row, linked, outdated>> /\ stamped' = {}
    BY DEF OpenEditor, ChooseReference, CloseEditor
  <1>2. RowsTyped' /\ DeletedIsLetGo'
    BY <1>1, RowsStay DEF Catalog, TypeInv, RowsTyped
  <1>3. EditorsTyped'
    BY <1>1, OpenTyped, ChooseTyped, EditorClosed DEF CloseEditor, Catalog, TypeInv
  <1> QED
    BY <1>2, <1>3 DEF Catalog, TypeInv

LEMMA SaveSnippetStep ==
  ASSUME Catalog, NEW w \in Windows, save_snippet(w),
         NEW r, r = editor[w].row, NEW new, new = EditedRow(w), NEW pairs, pairs = editor[w].links
  PROVE  Catalog'
  <1>1. /\ editor[w].pc = "editing"
        /\ row' = [Cleared(r, StartupSnippets) EXCEPT ![r] = new]
        /\ linked' = (linked \ LinksOf(r)) \cup pairs
        /\ editor' = [editor EXCEPT ![w] = NoEditor]
        /\ stamped' = {r} \cup Referring(r, StartupSnippets)
        /\ outdated' = Outdated(r, new.refs, pairs)
        /\ UNCHANGED table
    BY DEF save_snippet
  <1>2. /\ r \in Rows /\ new.state = "live" /\ Fits(new.refs, table[r])
        /\ new \in [state : States, refs : AnyRefs]
    BY <1>1, EditedFits DEF Catalog
  <1>3. RowsTyped
    BY DEF Catalog, TypeInv
  <1>4. \A o \in Rows : row'[o] = IF o = r THEN new ELSE Cleared(r, StartupSnippets)[o]
    BY <1>1 DEF Cleared
  <1>5. row' \in [Rows -> [state : States, refs : AnyRefs]]
    <2>1. \A o \in Rows : Cleared(r, StartupSnippets)[o] \in [state : States, refs : AnyRefs]
      <3> TAKE o \in Rows
      <3>1. Cleared(r, StartupSnippets)[o]
              = [state |-> row[o].state, refs |-> Cleared(r, StartupSnippets)[o].refs]
        BY DEF Cleared
      <3> QED
        BY <1>2, <1>3, <3>1, ClearedRows DEF RowsTyped
    <2>2. Cleared(r, StartupSnippets) \in [Rows -> [state : States, refs : AnyRefs]]
      BY <2>1 DEF Cleared
    <2> QED
      BY <1>1, <1>2, <2>2
  <1>6. \A l \in linked' : Pair(l) /\ IF l[1] = r THEN l \in pairs ELSE l \in linked
    BY <1>1, <1>3 DEF RowsTyped, LinksOf, Catalog, TypeInv, EditorsTyped
  <1>7. RowsTyped'
    <2>1. \A o \in Rows : Fits(row[o].refs, table[o])'
      <3>1. \A o \in Rows : Fits(row'[o].refs, table[o])
        BY <1>2, <1>3, <1>4, ClearedRows
      <3> QED
        BY <1>1, <3>1 DEF Fits, Of
    <2>2. outdated' \subseteq Rows \X Rows
      BY <1>1, <1>2, <1>3, OutdatedTyped
    <2>3. stamped' \subseteq Rows
      BY <1>1, <1>2 DEF Referring
    <2>4. \A l \in linked' : Pair(l)'
      BY <1>1, <1>6 DEF Pair
    <2> QED
      BY <1>1, <1>3, <1>5, <2>1, <2>2, <2>3, <2>4 DEF RowsTyped, Of
  <1>8. DeletedIsLetGo'
    <2>1. \A o \in Rows \ {r} :
            /\ row'[o].state = row[o].state /\ DOMAIN row'[o].refs = DOMAIN row[o].refs
            /\ \A c \in DOMAIN row[o].refs : row'[o].refs[c] \in {row[o].refs[c], NoRow}
      <3> TAKE o \in Rows \ {r}
      <3>1. row'[o] = Cleared(r, StartupSnippets)[o] /\ o \in Rows
        BY <1>4
      <3>2. r \in Rows
        BY <1>2
      <3>3. /\ row'[o].state = row[o].state /\ DOMAIN row'[o].refs = DOMAIN row[o].refs
            /\ \A c \in DOMAIN row[o].refs :
                 row'[o].refs[c] = IF <<table[o], c>> \in StartupSnippets /\ row[o].refs[c] = r
                                   THEN NoRow ELSE row[o].refs[c]
        BY <1>3, <3>1, <3>2, ClearedRows
      <3> QED
        BY <3>3
    <2>2. UNCHANGED table /\ row'[r] = new /\ outdated' = Outdated(r, new.refs, pairs)
      BY <1>1, <1>2, <1>4
    <2>3. \A l \in linked' : Pair(l) /\ IF l[1] = r THEN l \in pairs ELSE l \in linked
      BY <1>6
    <2>4. r \in Rows /\ new.state = "live" /\ Fits(new.refs, table[r])
      BY <1>2
    <2>5. new \in [state : States, refs : AnyRefs]
      BY <1>2
    <2> QED
      BY <1>5, <2>1, <2>2, <2>3, <2>4, <2>5, SaveLetsGo, SMTT(30)
  <1>9. EditorsTyped'
    BY <1>1, EditorClosed DEF Catalog, TypeInv
  <1> QED
    BY <1>7, <1>8, <1>9 DEF Catalog, TypeInv

-----------------------------------------------------------------------------
(* Favorites, and the theorem.                                               *)

LEMMA FavoritesReferToHosts ==
  /\ DOMAIN Columns["favorites"] = {"host"} /\ Columns["favorites"]["host"] = "hosts"
  /\ \A l : Pair(l) => table[l[1]] # "favorites" /\ table[l[2]] # "favorites"
  BY DEF Columns, FavoriteColumns, Pair, Links

(* The panes show hosts.                                                     *)
PanesTyped ==
  /\ pane \in [Panes -> [host : Of("hosts") \cup {NoRow}, favorite : BOOLEAN]]
  /\ overtaken \subseteq Panes

LEMMA NewFavoriteStep ==
  ASSUME Catalog, NEW h \in Of("hosts"), NEW f \in Rows, NewFavorite(f, h),
         UNCHANGED <<table, linked, editor>>
  PROVE  Catalog'
  <1> DEFINE new == [state |-> "live", refs |-> [host |-> h]]
  <1>1. /\ row' = [row EXCEPT ![f] = new]
        /\ outdated' = IF Live(h) THEN outdated ELSE outdated \cup {<<f, h>>}
    BY DEF NewFavorite
  <1>2. /\ table[h] = "hosts" /\ h \in Rows /\ stamped' \subseteq Rows
        /\ UNCHANGED <<table, linked, editor>> /\ f \in Rows /\ table[f] = "favorites"
    BY <1>1 DEF NewFavorite, Of
  <1>3. Fits([host |-> h], "favorites")
    BY <1>2, FavoritesReferToHosts DEF Fits, Of
  <1>4. [host |-> h] \in AnyRefs
    <2>1. [host |-> h] = [c \in DOMAIN [host |-> h] |-> [host |-> h][c]]
      OBVIOUS
    <2> QED
      BY <1>3, <2>1, TablesAre, FitsAny DEF Catalog, TypeInv
  <1>5. \A o \in Rows : row'[o] = IF o = f THEN new ELSE row[o]
    BY <1>1, <1>2 DEF Catalog, TypeInv, RowsTyped
  <1>6. RowsTyped'
    <2>1. row' \in [Rows -> [state : States, refs : AnyRefs]]
      BY <1>1, <1>4 DEF States, Catalog, TypeInv, RowsTyped
    <2>2. \A o \in Rows : Fits(row[o].refs, table[o])'
      <3>1. \A o \in Rows : Fits(row'[o].refs, table[o])
        BY <1>2, <1>3, <1>5 DEF Catalog, TypeInv, RowsTyped
      <3> QED
        BY <1>2, <3>1 DEF Fits, Of
    <2>3. outdated' \subseteq Rows \X Rows
      BY <1>1, <1>2 DEF Catalog, TypeInv, RowsTyped
    <2> QED
      BY <1>2, <2>1, <2>2, <2>3 DEF Catalog, TypeInv, RowsTyped, Of, Pair
  <1>7. EditorsTyped'
    BY <1>2 DEF Catalog, TypeInv, EditorsTyped, Fits, Of, Pair
  <1>8. DeletedIsLetGo'
    <2>1. /\ \A o \in Rows : Live(o)' <=> Live(o) \/ o = f
          /\ \A q \in outdated : q \in outdated'
      BY <1>1, <1>5 DEF Live
    <2>2. ASSUME NEW o \in Rows, Live(o)', NEW c \in DOMAIN row'[o].refs
          PROVE  LetsGo(o, c)'
      <3>1. CASE o = f
        BY <1>1, <1>2, <1>5, <2>1, <2>2, <3>1 DEF LetsGo
      <3>2. CASE o # f
        <4>1. LetsGo(o, c) /\ row'[o] = row[o]
          BY <1>5, <2>1, <2>2, <3>2, LetGo DEF Catalog
        <4>2. row[o].refs[c] = NoRow \/ row[o].refs[c] \in Rows
          BY <2>2, <4>1 DEF Catalog, TypeInv, RowsTyped, Fits, Of
        <4> QED
          BY <1>2, <2>1, <4>1, <4>2 DEF LetsGo
      <3> QED
        BY <3>1, <3>2
    <2>3. ASSUME NEW o \in Rows, Live(o)', NEW l \in LinksOf(o)'
          PROVE  Live(l[2])' \/ l \in outdated'
      <3>1. l \in LinksOf(o) /\ Pair(l) /\ l[1] = o /\ l[2] \in Rows
        BY <1>2, <2>3 DEF LinksOf, Catalog, TypeInv, RowsTyped, Pair
      <3>2. o # f
        BY <1>2, <3>1, FavoritesReferToHosts
      <3> QED
        BY <2>1, <2>3, <3>1, <3>2, LetGo DEF Catalog
    <2> QED
      <3>1. (\A o \in Rows : Live(o) => /\ \A c \in DOMAIN row[o].refs : LetsGo(o, c)
                                       /\ \A l \in LinksOf(o) : Live(l[2]) \/ l \in outdated)'
        BY <2>2, <2>3
      <3> QED
        BY <3>1, LetGo, PTL
  <1> QED
    BY <1>6, <1>7, <1>8 DEF Catalog, TypeInv

LEMMA AddFavoriteStep ==
  ASSUME Catalog, PanesTyped, NEW p \in Panes, save_sftp_favorite_path(p)
  PROVE  Catalog'
  <1>1. pane[p].host \in Of("hosts") /\ UNCHANGED <<table, linked, editor>>
    BY DEF save_sftp_favorite_path, PanesTyped
  <1>2. CASE \E f \in Rows : NewFavorite(f, pane[p].host)
    BY <1>1, <1>2, NewFavoriteStep
  <1>3. CASE UNCHANGED <<row, outdated>> /\ stamped' \subseteq Of("favorites")
    <2>1. RowsTyped' /\ DeletedIsLetGo'
      BY <1>1, <1>3, RowsStay DEF Of
    <2>2. EditorsTyped'
      BY <1>1 DEF Catalog, TypeInv, EditorsTyped, Fits, Of, Pair
    <2> QED
      BY <2>1, <2>2 DEF Catalog, TypeInv
  <1> QED
    BY <1>2, <1>3 DEF save_sftp_favorite_path, LiveFavorites, FavoritesOf

LEMMA RemoveFavoriteStep ==
  ASSUME Catalog, NEW p \in Panes, delete_sftp_favorite_path_by_target(p)
  PROVE  Catalog'
  <1> DEFINE shown == LiveFavorites(pane[p].host)
  <1>1. /\ row' = Deleted(row, shown) /\ stamped' = shown
        /\ UNCHANGED <<table, linked, editor, outdated>>
        /\ shown \subseteq Of("favorites")
    BY DEF delete_sftp_favorite_path_by_target, LiveFavorites, FavoritesOf
  <1> HIDE DEF shown
  <1>2. \A o \in Rows : /\ row'[o].refs = row[o].refs
                        /\ row'[o].state = IF o \in shown THEN "deleted" ELSE row[o].state
    BY <1>1 DEF Deleted
  <1>3. RowsTyped'
    <2>1. row' = [o \in Rows |-> [state |-> row'[o].state, refs |-> row'[o].refs]]
      BY <1>1 DEF Deleted
    <2>2. \A o \in Rows : row'[o].state \in States /\ row'[o].refs \in AnyRefs
      BY <1>2 DEF States, Catalog, TypeInv, RowsTyped
    <2>3. row' \in [Rows -> [state : States, refs : AnyRefs]]
      BY <2>1, <2>2
    <2>4. \A o \in Rows : Fits(row[o].refs, table[o])'
      BY <1>1, <1>2 DEF Catalog, TypeInv, RowsTyped, Fits, Of
    <2> QED
      BY <1>1, <2>3, <2>4 DEF Catalog, TypeInv, RowsTyped, Of, Pair
  <1>4. EditorsTyped'
    BY <1>1 DEF Catalog, TypeInv, EditorsTyped, Fits, Of, Pair
  <1>5. DeletedIsLetGo'
    <2>1. \A o \in Rows : /\ Live(o)' => Live(o)
                          /\ Live(o) /\ table[o] # "favorites" => Live(o)'
      BY <1>1, <1>2 DEF Live, Of
    <2>2. ASSUME NEW o \in Rows, Live(o)', NEW c \in DOMAIN row'[o].refs
          PROVE  LetsGo(o, c)'
      <3>1. LetsGo(o, c) /\ c \in DOMAIN row[o].refs
        BY <1>2, <2>1, <2>2, LetGo DEF Catalog
      <3>2. row[o].refs[c] # NoRow =>
              row[o].refs[c] \in Rows /\ table[row[o].refs[c]] # "favorites"
        BY <3>1, ReferenceTyped DEF ReferringColumns, Catalog, TypeInv
      <3> QED
        BY <1>1, <1>2, <2>1, <3>1, <3>2 DEF LetsGo
    <2>3. ASSUME NEW o \in Rows, Live(o)', NEW l \in LinksOf(o)'
          PROVE  Live(l[2])' \/ l \in outdated'
      <3>1. l \in LinksOf(o) /\ Pair(l) /\ l[2] \in Rows
        BY <1>1, <2>3 DEF LinksOf, Catalog, TypeInv, RowsTyped, Pair
      <3>2. table[l[2]] # "favorites"
        BY <3>1, FavoritesReferToHosts
      <3> QED
        BY <1>1, <2>1, <2>3, <3>1, <3>2, LetGo DEF Catalog
    <2> QED
      <3>1. (\A o \in Rows : Live(o) => /\ \A c \in DOMAIN row[o].refs : LetsGo(o, c)
                                       /\ \A l \in LinksOf(o) : Live(l[2]) \/ l \in outdated)'
        BY <2>2, <2>3
      <3> QED
        BY <3>1, LetGo, PTL
  <1> QED
    BY <1>3, <1>4, <1>5 DEF Catalog, TypeInv

LEMMA LoadFavoritesStep ==
  ASSUME Catalog, NEW p \in Panes, NEW h \in Rows, loadRemoteSftpFavorites(p, h)
  PROVE  Catalog'
  <1>1. UNCHANGED <<table, row, linked, editor, outdated>> /\ stamped' = {}
    BY DEF loadRemoteSftpFavorites
  <1>2. RowsTyped' /\ DeletedIsLetGo'
    BY <1>1, RowsStay DEF Catalog, TypeInv, RowsTyped
  <1>3. EditorsTyped'
    BY <1>1 DEF Catalog, TypeInv, EditorsTyped, Fits, Of, Pair
  <1> QED
    BY <1>2, <1>3 DEF Catalog, TypeInv

LEMMA CatalogStart == CatalogInit => Catalog
  <1> SUFFICES ASSUME CatalogInit PROVE Catalog
    OBVIOUS
  <1>1. table \in [Rows -> Tables]
    BY CatalogsAssumption DEF CatalogInit
  <1>2. ASSUME NEW r \in Rows
        PROVE  /\ row[r] = [state |-> "absent", refs |-> Unset(table[r])]
               /\ row[r].state = "absent" /\ row[r].refs = Unset(table[r])
               /\ Unset(table[r]) \in [DOMAIN Columns[table[r]] -> Rows \cup {NoRow}]
               /\ Unset(table[r]) \in AnyRefs /\ Fits(Unset(table[r]), table[r])
    <2>1. row[r] = [state |-> "absent", refs |-> Unset(table[r])]
      BY DEF CatalogInit
    <2>2. Unset(table[r]) \in [DOMAIN Columns[table[r]] -> Rows \cup {NoRow}]
      BY DEF Unset
    <2>3. Unset(table[r]) \in AnyRefs
      BY <1>1, <2>2 DEF AnyRefs
    <2>4. Fits(Unset(table[r]), table[r])
      BY DEF Fits, Unset
    <2> QED
      BY <2>1, <2>2, <2>3, <2>4
  <1>3. RowsTyped
    <2>1. \A r \in Rows : Fits(row[r].refs, table[r])
      BY <1>2
    <2>2. \A r \in Rows : row[r] \in [state : States, refs : AnyRefs]
      <3> TAKE r \in Rows
      <3>1. row[r] = [state |-> "absent", refs |-> Unset(table[r])] /\ Unset(table[r]) \in AnyRefs
        BY <1>2
      <3> QED
        BY <3>1 DEF States
    <2>3. row \in [Rows -> [state : States, refs : AnyRefs]]
      BY <2>2 DEF CatalogInit
    <2> QED
      BY <1>1, <2>1, <2>3 DEF CatalogInit, RowsTyped
  <1>4. EditorsTyped
    BY NoEditorTyped DEF CatalogInit, EditorsTyped, NoEditor
  <1>5. DeletedIsLetGo
    BY <1>2 DEF DeletedIsLetGo, Live
  <1> QED
    BY <1>3, <1>4, <1>5 DEF Catalog, TypeInv

LEMMA CatalogStep == Catalog /\ PanesTyped /\ [CatalogNext]_catalogVars => Catalog'
  <1> SUFFICES ASSUME Catalog, PanesTyped, [CatalogNext]_catalogVars PROVE Catalog'
    OBVIOUS
  <1>1. ASSUME NEW w \in Windows,
               \/ \E r \in Rows : OpenEditor(w, r)
               \/ ChooseReference(w) \/ CloseEditor(w)
        PROVE  Catalog'
    BY <1>1, EditorStep
  <1>2. ASSUME NEW w \in Windows, SaveOfRow(w) PROVE Catalog'
    BY <1>2, SaveOfRowStep
  <1>3. ASSUME NEW w \in Windows, save_host(w) \/ replace_host_tags(w) PROVE Catalog'
    BY <1>3, SaveHostStep, ReplaceTagsStep
  <1>4. ASSUME NEW w \in Windows, save_snippet(w) PROVE Catalog'
    BY <1>4, SaveSnippetStep
  <1>5. ASSUME NEW r \in Rows, Deletion(r) PROVE Catalog'
    BY <1>5, DeletionStep
  <1>6. ASSUME NEW p \in Panes,
               \/ \E h \in Rows : loadRemoteSftpFavorites(p, h)
               \/ save_sftp_favorite_path(p) \/ delete_sftp_favorite_path_by_target(p)
        PROVE  Catalog'
    BY <1>6, LoadFavoritesStep, AddFavoriteStep, RemoveFavoriteStep
  <1>7. CASE UNCHANGED catalogVars
    <2>1. UNCHANGED <<table, row, linked, editor, stamped, outdated>>
      BY <1>7 DEF catalogVars
    <2>2. RowsTyped' /\ DeletedIsLetGo'
      BY <2>1, RowsStay DEF Catalog, TypeInv, RowsTyped
    <2>3. EditorsTyped'
      BY <2>1 DEF Catalog, TypeInv, EditorsTyped, Fits, Of, Pair
    <2> QED
      BY <2>2, <2>3 DEF Catalog, TypeInv
  <1> QED
    BY <1>1, <1>2, <1>3, <1>4, <1>5, <1>6, <1>7 DEF CatalogNext, SaveOfRow, Deletion

LEMMA PanesStep == PanesTyped /\ [CatalogNext]_catalogVars => PanesTyped'
  <1> SUFFICES ASSUME PanesTyped, [CatalogNext]_catalogVars PROVE PanesTyped'
    OBVIOUS
  <1>1. UNCHANGED table => Of("hosts")' = Of("hosts")
    BY DEF Of
  <1>2. ASSUME NEW p \in Panes, NEW h \in Rows, loadRemoteSftpFavorites(p, h) PROVE PanesTyped'
    <2>1. /\ UNCHANGED table /\ h \in Of("hosts") /\ overtaken' \subseteq Panes
          /\ pane' = [pane EXCEPT ![p] = [host |-> h, favorite |-> LiveFavorites(h) # {}]]
      BY <1>2 DEF loadRemoteSftpFavorites, PanesTyped, Of
    <2> QED
      BY <1>1, <2>1 DEF PanesTyped
  <1>3. ASSUME NEW p \in Panes,
               save_sftp_favorite_path(p) \/ delete_sftp_favorite_path_by_target(p)
        PROVE  PanesTyped'
    <2>1. PICK shows \in BOOLEAN :
            /\ UNCHANGED table /\ overtaken' \subseteq Panes
            /\ pane' = [pane EXCEPT ![p].favorite = shows]
      BY <1>3 DEF save_sftp_favorite_path, delete_sftp_favorite_path_by_target, Switched,
                  PanesTyped
    <2> QED
      BY <1>1, <2>1 DEF PanesTyped
  <1>4. CASE UNCHANGED <<table, pane>> /\ overtaken' \subseteq Panes
    BY <1>1, <1>4 DEF PanesTyped
  <1>5. ASSUME NEW r \in Rows, Deletion(r)
        PROVE  UNCHANGED <<table, pane>> /\ overtaken' \subseteq Panes
    BY <1>5 DEF Deletion, delete_group, delete_key, delete_identity, delete_tag, delete_host,
                delete_port_forward, delete_proxy, delete_snippet_package, delete_snippet,
                DeleteRow, PanesTyped
  <1>6. ASSUME NEW w \in Windows,
               \/ \E r \in Rows : OpenEditor(w, r)
               \/ ChooseReference(w) \/ CloseEditor(w)
               \/ SaveOfRow(w) \/ save_host(w) \/ replace_host_tags(w) \/ save_snippet(w)
        PROVE  UNCHANGED <<table, panes>>
    BY <1>6 DEF OpenEditor, ChooseReference, CloseEditor, SaveOfRow, save_group, save_key,
                save_identity, save_tag, save_port_forward, save_proxy, save_snippet_package,
                SaveEdited, save_host, replace_host_tags, save_snippet
  <1>7. CASE UNCHANGED <<table, panes>>
    BY <1>4, <1>7 DEF panes, PanesTyped
  <1>8. CASE UNCHANGED catalogVars
    BY <1>7, <1>8 DEF catalogVars, panes
  <1> QED
    BY <1>2, <1>3, <1>4, <1>5, <1>6, <1>7, <1>8 DEF CatalogNext, SaveOfRow, Deletion

LEMMA PanesStart == CatalogInit => PanesTyped
  BY DEF CatalogInit, PanesTyped

LEMMA CatalogAlways == CatalogSpec => [](Catalog /\ PanesTyped)
  BY CatalogStart, CatalogStep, PanesStart, PanesStep, PTL DEF CatalogSpec

(* The rows, links, editors and panes stay what the tables allow.            *)
THEOREM TypeCorrect == CatalogSpec => []CatalogTypeOK
  <1>1. Catalog /\ PanesTyped => CatalogTypeOK
    BY DEF Catalog, TypeInv, RowsTyped, EditorsTyped, PanesTyped, CatalogTypeOK, Fits, Pair,
           States
  <1> QED
    BY <1>1, CatalogAlways, PTL

(* No live row refers to a deleted one, by a column or a link, unless an     *)
(* editor opened before the deletion saved it afterwards.                    *)
THEOREM DeletionsLetGo == CatalogSpec => []DeletedIsLetGo
  <1>1. Catalog => DeletedIsLetGo
    BY DEF Catalog
  <1> QED
    BY <1>1, CatalogAlways, PTL

-----------------------------------------------------------------------------
(* What is shown as a favorite.                                              *)

ShownFor(h) == LiveFavorites(h) # {}
FavoritesInv ==
  \A p \in Panes \ overtaken : \A h \in Of("hosts") :
    pane[p].host = h => (pane[p].favorite <=> ShownFor(h))

(* The favorites of a host are the same as long as none comes and none goes. *)
LEMMA FavoritesHold ==
  ASSUME UNCHANGED table, NEW h,
         \A f \in Of("favorites") : row'[f].refs = row[f].refs,
         \A f \in FavoritesOf(h) : Live(f)' <=> Live(f)
  PROVE  ShownFor(h)' <=> ShownFor(h)
  <1>1. \A f : f \in FavoritesOf(h)' <=> f \in FavoritesOf(h)
    BY DEF FavoritesOf, Of, Refers
  <1>2. \A f : f \in LiveFavorites(h)' <=> f \in LiveFavorites(h)
    BY <1>1 DEF LiveFavorites
  <1> QED
    BY <1>2 DEF ShownFor

(* The favorites in the database and in the panes stay as they are.          *)
LEMMA FavoritesStay ==
  ASSUME FavoritesInv, UNCHANGED <<table, panes>>,
         \A f \in Of("favorites") : row'[f].refs = row[f].refs /\ row'[f].state = row[f].state
  PROVE  FavoritesInv'
  <1>1. ASSUME NEW h PROVE ShownFor(h)' <=> ShownFor(h)
    BY FavoritesHold DEF Live, FavoritesOf
  <1>2. UNCHANGED <<pane, overtaken>> /\ Of("hosts")' = Of("hosts")
    BY DEF panes, Of
  <1> QED
    BY <1>1, <1>2 DEF FavoritesInv

LEMMA FavoritesUncleared ==
  ASSUME RowsTyped, NEW r \in Rows, NEW columns, <<"favorites", "host">> \notin columns,
         NEW f \in Of("favorites")
  PROVE  Cleared(r, columns)[f].refs = row[f].refs /\ Cleared(r, columns)[f].state = row[f].state
  <1>1. f \in Rows /\ table[f] = "favorites" /\ DOMAIN row[f].refs = {"host"}
    BY FavoritesReferToHosts DEF Of, RowsTyped, Fits
  <1>2. row[f].refs \in AnyRefs
    BY <1>1 DEF RowsTyped
  <1>3. row[f].refs = [c \in {"host"} |-> row[f].refs[c]]
    BY <1>1, <1>2 DEF AnyRefs
  <1>4. Cleared(r, columns)[f].refs = [c \in {"host"} |-> row[f].refs[c]]
    BY <1>1 DEF Cleared
  <1> QED
    BY <1>1, <1>3, <1>4 DEF Cleared

(* Editors never save a favorite, and a save takes none away.                *)
LEMMA EditorsKeepFavorites ==
  ASSUME Catalog, FavoritesInv, NEW w \in Windows,
         \/ \E r \in Rows : OpenEditor(w, r)
         \/ ChooseReference(w) \/ CloseEditor(w)
         \/ SaveOfRow(w) \/ save_host(w) \/ replace_host_tags(w) \/ save_snippet(w)
  PROVE  FavoritesInv'
  <1> DEFINE r == editor[w].row
  <1>1. UNCHANGED <<table, panes>>
    BY DEF OpenEditor, ChooseReference, CloseEditor, SaveOfRow, save_group, save_key,
           save_identity, save_tag, save_port_forward, save_proxy, save_snippet_package,
           SaveEdited, save_host, replace_host_tags, save_snippet
  <1>2. RowsTyped
    BY DEF Catalog, TypeInv
  <1>3. CASE UNCHANGED row
    BY <1>1, <1>3, FavoritesStay
  <1>4. CASE /\ editor[w].pc = "editing"
             /\ row' = [row EXCEPT ![r] = EditedRow(w)]
    <2>1. r \in Rows /\ table[r] # "favorites"
      BY <1>4, EditedFits DEF Catalog
    <2>2. \A f \in Of("favorites") : row'[f] = row[f]
      BY <1>2, <1>4, <2>1 DEF RowsTyped, Of
    <2> QED
      BY <1>1, <2>2, FavoritesStay
  <1>5. CASE save_snippet(w)
    <2>1. r \in Rows /\ table[r] # "favorites"
      BY <1>5, EditedFits DEF Catalog, save_snippet
    <2>2. \A f \in Of("favorites") : row'[f] = Cleared(r, StartupSnippets)[f]
      BY <1>5, <2>1 DEF save_snippet, Cleared, Of
    <2>3. <<"favorites", "host">> \notin StartupSnippets
      BY DEF StartupSnippets
    <2> HIDE DEF r
    <2>4. \A f \in Of("favorites") : row'[f].refs = row[f].refs /\ row'[f].state = row[f].state
      BY <1>2, <2>1, <2>2, <2>3, FavoritesUncleared
    <2> QED
      BY <1>1, <2>4, FavoritesStay
  <1>6. UNCHANGED row \/ (editor[w].pc = "editing" /\ row' = [row EXCEPT ![r] = EditedRow(w)])
          \/ save_snippet(w)
    BY DEF OpenEditor, ChooseReference, CloseEditor, SaveOfRow, save_group, save_key,
           save_identity, save_tag, save_port_forward, save_proxy, save_snippet_package,
           SaveEdited, save_host, replace_host_tags
  <1> QED
    BY <1>3, <1>4, <1>5, <1>6

LEMMA DeletedFavorites ==
  ASSUME RowsTyped, NEW r \in Rows, NEW columns, <<"favorites", "host">> \notin columns,
         NEW gone, row' = Deleted(Cleared(r, columns), gone), NEW f \in Of("favorites")
  PROVE  /\ row'[f].refs = row[f].refs
         /\ row'[f].state = IF f \in gone THEN "deleted" ELSE row[f].state
  <1>1. f \in Rows
    BY DEF Of
  <1>2. /\ row'[f].refs = Cleared(r, columns)[f].refs
        /\ row'[f].state = IF f \in gone THEN "deleted" ELSE Cleared(r, columns)[f].state
    BY <1>1 DEF Deleted
  <1> QED
    BY <1>2, FavoritesUncleared

(* A deletion that takes a favorite along overtakes the panes of its host.   *)
LEMMA DeletionKeepsFavorites ==
  ASSUME RowsTyped, FavoritesInv, NEW r \in Rows, NEW t, NEW columns, NEW owned, NEW unlinked,
         NEW touched, DeleteRow(r, t, columns, owned, unlinked, touched),
         <<"favorites", "host">> \notin columns
  PROVE  FavoritesInv'
  <1> DEFINE gone == {o \in owned \cup {r} : Live(o)}
  <1>1. /\ row' = Deleted(Cleared(r, columns), gone) /\ UNCHANGED <<table, pane>>
        /\ overtaken' = overtaken \cup {p \in Panes : FavoritesOf(pane[p].host) \cap gone # {}}
    BY DEF DeleteRow
  <1> HIDE DEF gone
  <1>2. \A f \in Of("favorites") :
          /\ row'[f].refs = row[f].refs
          /\ row'[f].state = IF f \in gone THEN "deleted" ELSE row[f].state
    BY <1>1, DeletedFavorites
  <1>3. ASSUME NEW p \in Panes \ overtaken', NEW h \in Of("hosts"), pane[p].host = h
        PROVE  p \notin overtaken /\ (ShownFor(h)' <=> ShownFor(h))
    <2>1. p \notin overtaken /\ \A f \in FavoritesOf(h) : f \notin gone
      BY <1>1, <1>3
    <2>2. \A f \in FavoritesOf(h) : Live(f)' <=> Live(f)
      BY <1>2, <2>1 DEF FavoritesOf, Live
    <2> QED
      BY <1>1, <1>2, <2>1, <2>2, FavoritesHold
  <1>4. Of("hosts")' = Of("hosts")
    BY <1>1 DEF Of
  <1> QED
    BY <1>1, <1>3, <1>4 DEF FavoritesInv

LEMMA DeletionsKeepFavorites ==
  ASSUME Catalog, FavoritesInv, NEW r \in Rows, Deletion(r)
  PROVE  FavoritesInv'
  <1> USE DeletionKeepsFavorites
  <1>0. RowsTyped
    BY DEF Catalog, TypeInv
  <1>1. CASE delete_group(r)
    BY <1>0, <1>1 DEF delete_group
  <1>2. CASE delete_key(r)
    BY <1>0, <1>2 DEF delete_key
  <1>3. CASE delete_identity(r)
    BY <1>0, <1>3 DEF delete_identity
  <1>4. CASE delete_tag(r)
    BY <1>0, <1>4 DEF delete_tag
  <1>5. CASE delete_host(r)
    BY <1>0, <1>5 DEF delete_host
  <1>6. CASE delete_port_forward(r)
    BY <1>0, <1>6 DEF delete_port_forward
  <1>7. CASE delete_proxy(r)
    BY <1>0, <1>7 DEF delete_proxy
  <1>8. CASE delete_snippet_package(r)
    BY <1>0, <1>8 DEF delete_snippet_package
  <1>9. CASE delete_snippet(r)
    BY <1>0, <1>9 DEF delete_snippet
  <1> QED
    BY <1>1, <1>2, <1>3, <1>4, <1>5, <1>6, <1>7, <1>8, <1>9 DEF Deletion

(* A pane that has read what its host has agrees with the database.          *)
LEMMA LoadedFavorites ==
  ASSUME PanesTyped, FavoritesInv, NEW p \in Panes, NEW h \in Rows, loadRemoteSftpFavorites(p, h)
  PROVE  FavoritesInv'
  <1>1. /\ UNCHANGED <<table, row>> /\ overtaken' = overtaken \ {p}
        /\ pane' = [pane EXCEPT ![p] = [host |-> h, favorite |-> LiveFavorites(h) # {}]]
    BY DEF loadRemoteSftpFavorites
  <1>2. /\ pane'[p].host = h /\ (pane'[p].favorite <=> ShownFor(h))
        /\ \A q \in Panes \ {p} : pane'[q] = pane[q]
    BY <1>1 DEF PanesTyped, ShownFor
  <1>3. ASSUME NEW k PROVE ShownFor(k)' <=> ShownFor(k)
    BY <1>1, FavoritesHold DEF Live
  <1>4. Of("hosts")' = Of("hosts")
    BY <1>1 DEF Of
  <1>5. ShownFor(h)' <=> ShownFor(h)
    BY <1>3
  <1> SUFFICES ASSUME NEW q \in Panes \ overtaken', NEW k \in Of("hosts"), pane'[q].host = k
               PROVE  pane'[q].favorite <=> ShownFor(k)'
    BY <1>4 DEF FavoritesInv
  <1>6. CASE q = p
    BY <1>2, <1>5, <1>6
  <1>7. CASE q # p
    <2>1. pane[q].favorite <=> ShownFor(k)
      BY <1>1, <1>2, <1>7 DEF FavoritesInv
    <2> QED
      BY <1>2, <1>3, <1>7, <2>1
  <1> QED
    BY <1>6, <1>7

(* A pane that switches knows what its host has then, and overtakes the      *)
(* other panes of the host when the database changes.                        *)
LEMMA SwitchedFavorite ==
  ASSUME PanesTyped, FavoritesInv, UNCHANGED table, NEW p \in Panes, NEW h, pane[p].host = h,
         NEW shows \in BOOLEAN, NEW changes \in BOOLEAN, Switched(p, shows, changes),
         ShownFor(h)' <=> shows, ~ changes => (ShownFor(h)' <=> ShownFor(h)),
         \A k \in Of("hosts") \ {h} : ShownFor(k)' <=> ShownFor(k)
  PROVE  FavoritesInv'
  <1>1. /\ pane' = [pane EXCEPT ![p].favorite = shows]
        /\ overtaken' = (overtaken \ {p})
             \cup {q \in Panes \ {p} : changes /\ pane[q].host = pane[p].host}
        /\ Of("hosts")' = Of("hosts")
    BY DEF Switched, Of
  <1>2. /\ pane'[p].host = h /\ pane'[p].favorite = shows
        /\ \A q \in Panes \ {p} : pane'[q] = pane[q]
    BY <1>1 DEF PanesTyped
  <1> SUFFICES ASSUME NEW q \in Panes \ overtaken', NEW k \in Of("hosts"), pane'[q].host = k
               PROVE  pane'[q].favorite <=> ShownFor(k)'
    BY <1>1 DEF FavoritesInv
  <1>3. CASE q = p
    BY <1>2, <1>3
  <1>4. CASE q # p
    <2>1. pane'[q] = pane[q] /\ q \notin overtaken /\ (k = h => ~ changes)
      BY <1>1, <1>2, <1>4
    <2>2. pane[q].favorite <=> ShownFor(k)
      BY <2>1 DEF FavoritesInv
    <2>3. ShownFor(k)' <=> ShownFor(k)
      BY <2>1
    <2> QED
      BY <2>1, <2>2, <2>3
  <1> QED
    BY <1>3, <1>4

(* A new favorite is one of its host and of no other.                        *)
LEMMA FavoriteComes ==
  ASSUME RowsTyped, UNCHANGED table, NEW h \in Of("hosts"), NEW f \in Rows, NewFavorite(f, h)
  PROVE  /\ ShownFor(h)'
         /\ \A k \in Of("hosts") \ {h} : ShownFor(k)' <=> ShownFor(k)
  <1>1. /\ f \in Of("favorites") /\ ~ Live(f)
        /\ row'[f] = [state |-> "live", refs |-> [host |-> h]]
        /\ \A g \in Rows \ {f} : row'[g] = row[g]
    BY DEF NewFavorite, RowsTyped, Live
  <1>2. Of("favorites")' = Of("favorites")
    BY DEF Of
  <1>3. f \in LiveFavorites(h)'
    BY <1>1, <1>2 DEF LiveFavorites, FavoritesOf, Refers, Live
  <1>4. ASSUME NEW k \in Of("hosts") \ {h} PROVE ShownFor(k)' <=> ShownFor(k)
    <2>1. f \notin LiveFavorites(k)' /\ f \notin LiveFavorites(k)
      BY <1>1, <1>4 DEF LiveFavorites, FavoritesOf, Refers
    <2>2. \A g \in Of("favorites") \ {f} : g \in LiveFavorites(k)' <=> g \in LiveFavorites(k)
      BY <1>1, <1>2 DEF LiveFavorites, FavoritesOf, Refers, Live, Of
    <2>3. LiveFavorites(k)' \subseteq Of("favorites") /\ LiveFavorites(k) \subseteq Of("favorites")
      BY <1>2 DEF LiveFavorites, FavoritesOf
    <2> QED
      BY <2>1, <2>2, <2>3 DEF ShownFor
  <1> QED
    BY <1>3, <1>4 DEF ShownFor

LEMMA AddedFavorite ==
  ASSUME RowsTyped, PanesTyped, FavoritesInv, NEW p \in Panes, save_sftp_favorite_path(p)
  PROVE  FavoritesInv'
  <1>1. PICK h \in Of("hosts") : pane[p].host = h
    BY DEF save_sftp_favorite_path, PanesTyped
  <1>2. UNCHANGED table /\ Switched(p, TRUE, ~ ShownFor(h))
    BY <1>1 DEF save_sftp_favorite_path, ShownFor
  <1>3. CASE ~ ShownFor(h)
    <2>1. PICK f \in Rows : NewFavorite(f, h)
      BY <1>1, <1>3 DEF save_sftp_favorite_path, ShownFor
    <2>2. /\ ShownFor(h)'
          /\ \A k \in Of("hosts") \ {h} : ShownFor(k)' <=> ShownFor(k)
      BY <1>2, <2>1, FavoriteComes
    <2>3. Switched(p, TRUE, TRUE)
      BY <1>2, <1>3 DEF Switched
    <2> QED
      BY <1>1, <1>2, <2>2, <2>3, SwitchedFavorite
  <1>4. CASE ShownFor(h)
    <2>1. UNCHANGED row
      BY <1>1, <1>4 DEF save_sftp_favorite_path, ShownFor
    <2>2. ASSUME NEW k PROVE ShownFor(k)' <=> ShownFor(k)
      BY <1>2, <2>1, FavoritesHold DEF Live
    <2>3. Switched(p, TRUE, FALSE)
      BY <1>2, <1>4 DEF Switched
    <2>4. ShownFor(h)' /\ \A k \in Of("hosts") \ {h} : ShownFor(k)' <=> ShownFor(k)
      BY <1>4, <2>2
    <2> QED
      BY <1>1, <1>2, <1>4, <2>3, <2>4, SwitchedFavorite
  <1> QED
    BY <1>3, <1>4

LEMMA RemovedFavorite ==
  ASSUME PanesTyped, FavoritesInv, NEW p \in Panes, delete_sftp_favorite_path_by_target(p)
  PROVE  FavoritesInv'
  <1>1. PICK h \in Of("hosts") : pane[p].host = h
    BY DEF delete_sftp_favorite_path_by_target, PanesTyped
  <1>2. /\ UNCHANGED table /\ row' = Deleted(row, LiveFavorites(h))
        /\ Switched(p, FALSE, ShownFor(h))
    BY <1>1 DEF delete_sftp_favorite_path_by_target, ShownFor
  <1>3. \A f \in Of("favorites") :
          /\ row'[f].refs = row[f].refs
          /\ row'[f].state = IF f \in LiveFavorites(h) THEN "deleted" ELSE row[f].state
    BY <1>2 DEF Deleted, Of
  <1>4. ~ ShownFor(h)'
    <2>1. ASSUME NEW f, f \in LiveFavorites(h)' PROVE FALSE
      <3>1. f \in Of("favorites") /\ Refers(f, "host", h)' /\ row'[f].state = "live"
        BY <1>2, <2>1 DEF LiveFavorites, FavoritesOf, Of, Live
      <3>2. f \in LiveFavorites(h)
        BY <1>3, <3>1 DEF LiveFavorites, FavoritesOf, Refers, Live
      <3> QED
        BY <1>3, <3>1, <3>2
    <2> QED
      BY <2>1 DEF ShownFor
  <1>5. ASSUME NEW k \in Of("hosts") \ {h} PROVE ShownFor(k)' <=> ShownFor(k)
    <2>1. \A f \in FavoritesOf(k) : f \in Of("favorites") /\ f \notin LiveFavorites(h)
      BY DEF LiveFavorites, FavoritesOf, Refers
    <2>2. \A f \in FavoritesOf(k) : Live(f)' <=> Live(f)
      BY <1>3, <2>1 DEF Live
    <2> QED
      BY <1>2, <1>3, <2>2, FavoritesHold
  <1>6. CASE ShownFor(h)
    <2>1. Switched(p, FALSE, TRUE)
      BY <1>2, <1>6 DEF Switched
    <2> QED
      BY <1>1, <1>2, <1>4, <1>5, <2>1, SwitchedFavorite
  <1>7. CASE ~ ShownFor(h)
    <2>1. Switched(p, FALSE, FALSE)
      BY <1>2, <1>7 DEF Switched
    <2> QED
      BY <1>1, <1>2, <1>4, <1>5, <1>7, <2>1, SwitchedFavorite
  <1> QED
    BY <1>6, <1>7

LEMMA FavoritesStep ==
  Catalog /\ PanesTyped /\ FavoritesInv /\ [CatalogNext]_catalogVars => FavoritesInv'
  <1> SUFFICES ASSUME Catalog, PanesTyped, FavoritesInv, [CatalogNext]_catalogVars
               PROVE  FavoritesInv'
    OBVIOUS
  <1>0. RowsTyped
    BY DEF Catalog, TypeInv
  <1>1. ASSUME NEW w \in Windows,
               \/ \E r \in Rows : OpenEditor(w, r)
               \/ ChooseReference(w) \/ CloseEditor(w)
               \/ SaveOfRow(w) \/ save_host(w) \/ replace_host_tags(w) \/ save_snippet(w)
        PROVE  FavoritesInv'
    BY <1>1, EditorsKeepFavorites
  <1>2. ASSUME NEW r \in Rows, Deletion(r) PROVE FavoritesInv'
    BY <1>2, DeletionsKeepFavorites
  <1>3. ASSUME NEW p \in Panes,
               \/ \E h \in Rows : loadRemoteSftpFavorites(p, h)
               \/ save_sftp_favorite_path(p) \/ delete_sftp_favorite_path_by_target(p)
        PROVE  FavoritesInv'
    BY <1>0, <1>3, LoadedFavorites, AddedFavorite, RemovedFavorite
  <1>4. CASE UNCHANGED catalogVars
    BY <1>4, FavoritesStay DEF catalogVars, panes
  <1> QED
    BY <1>1, <1>2, <1>3, <1>4 DEF CatalogNext, SaveOfRow, Deletion

LEMMA FavoritesStart == CatalogInit => FavoritesInv
  BY CatalogAssumption DEF CatalogInit, FavoritesInv, Of

LEMMA FavoritesAlways == CatalogSpec => []FavoritesInv
  BY FavoritesStart, FavoritesStep, CatalogAlways, PTL DEF CatalogSpec

(* What a pane shows as a favorite of its host is a live favorite of the     *)
(* database, and the other way round, for any number of panes until another  *)
(* pane or a deletion changes the database: also after a favorite that was   *)
(* removed is added again and the second statement of that save fails.       *)
THEOREM FavoritesShown == CatalogSpec => []FavoritesAsShown
  <1>1. PanesTyped /\ FavoritesInv => FavoritesAsShown
    BY DEF PanesTyped, FavoritesInv, FavoritesAsShown, ShownFor
  <1> QED
    BY <1>1, CatalogAlways, FavoritesAlways, PTL

-----------------------------------------------------------------------------
(* What a merge must carry gets a new stamp.                                 *)

Stamping ==
  /\ \A r \in Rows : row[r] # row'[r] => r \in stamped'
  /\ \A l \in linked \ linked' :
       table[l[1]] = "hosts" => \/ l[1] \in stamped'
                                \/ \E w \in Windows : editor[w].row = l[1] /\ editor[w].pc = "tags"

LEMMA UnreferringStay ==
  ASSUME RowsTyped, NEW r \in Rows, NEW columns, NEW o \in Rows, o \notin Referring(r, columns)
  PROVE  Cleared(r, columns)[o] = row[o]
  <1>1. row[o] \in [state : States, refs : AnyRefs]
    BY DEF RowsTyped
  <1>2. row[o].refs = [c \in DOMAIN row[o].refs |-> row[o].refs[c]]
    BY <1>1 DEF AnyRefs
  <1>3. \A c \in DOMAIN row[o].refs : ~ (<<table[o], c>> \in columns /\ row[o].refs[c] = r)
    BY DEF Referring, Refers
  <1>4. [c \in DOMAIN row[o].refs |->
           IF <<table[o], c>> \in columns /\ row[o].refs[c] = r THEN NoRow
           ELSE row[o].refs[c]] = [c \in DOMAIN row[o].refs |-> row[o].refs[c]]
    BY <1>3
  <1>5. Cleared(r, columns)[o] = [state |-> row[o].state, refs |-> row[o].refs]
    BY <1>2, <1>4 DEF Cleared
  <1> QED
    BY <1>1, <1>5

LEMMA DeletionStamped ==
  ASSUME RowsTyped, NEW r \in Rows, NEW t, NEW columns, NEW owned, NEW unlinked, NEW touched,
         DeleteRow(r, t, columns, owned, unlinked, touched),
         \A l \in unlinked : table[l[1]] = "hosts" => l[1] \in touched
  PROVE  Stamping
  <1> DEFINE gone == {o \in owned \cup {r} : Live(o)}
  <1>1. /\ row' = Deleted(Cleared(r, columns), gone) /\ linked' = linked \ unlinked
        /\ stamped' = gone \cup Referring(r, columns) \cup touched
    BY DEF DeleteRow
  <1> HIDE DEF gone
  <1>2. ASSUME NEW o \in Rows, o \notin stamped' PROVE row'[o] = row[o]
    <2>1. Cleared(r, columns)[o] = row[o]
      BY <1>1, <1>2, UnreferringStay
    <2>2. row'[o] = [state |-> row[o].state, refs |-> row[o].refs]
      BY <1>1, <1>2, <2>1 DEF Deleted
    <2> QED
      BY <2>2 DEF RowsTyped
  <1> QED
    BY <1>1, <1>2 DEF Stamping

LEMMA EditorsStamp ==
  ASSUME Catalog, NEW w \in Windows,
         \/ \E r \in Rows : OpenEditor(w, r)
         \/ ChooseReference(w) \/ CloseEditor(w)
         \/ SaveOfRow(w) \/ save_host(w) \/ replace_host_tags(w) \/ save_snippet(w)
  PROVE  Stamping
  <1> DEFINE r == editor[w].row
  <1>1. RowsTyped
    BY DEF Catalog, TypeInv
  <1>2. CASE UNCHANGED <<row, linked>>
    BY <1>2 DEF Stamping
  <1>3. CASE row' = [row EXCEPT ![r] = EditedRow(w)] /\ stamped' = {r} /\ UNCHANGED linked
    BY <1>1, <1>3 DEF Stamping, RowsTyped
  <1>4. CASE replace_host_tags(w)
    BY <1>4 DEF replace_host_tags, LinksOf, Stamping
  <1>5. CASE save_snippet(w)
    <2>1. r \in Rows /\ table[r] = "snippets"
      BY <1>5, EditedFits DEF Catalog, save_snippet
    <2>2. ASSUME NEW o \in Rows, o \notin stamped' PROVE row'[o] = row[o]
      <3>1. row'[o] = Cleared(r, StartupSnippets)[o] /\ o \notin Referring(r, StartupSnippets)
        BY <1>5, <2>2 DEF save_snippet, Cleared
      <3> HIDE DEF r
      <3> QED
        BY <1>1, <2>1, <3>1, UnreferringStay
    <2>3. \A l \in linked \ linked' : table[l[1]] # "hosts"
      BY <1>5, <2>1 DEF save_snippet, LinksOf
    <2> QED
      BY <2>2, <2>3 DEF Stamping
  <1>6. \/ UNCHANGED <<row, linked>>
        \/ row' = [row EXCEPT ![r] = EditedRow(w)] /\ stamped' = {r} /\ UNCHANGED linked
        \/ replace_host_tags(w) \/ save_snippet(w)
    BY DEF OpenEditor, ChooseReference, CloseEditor, SaveOfRow, save_group, save_key,
           save_identity, save_tag, save_port_forward, save_proxy, save_snippet_package,
           SaveEdited, save_host
  <1> QED
    BY <1>2, <1>3, <1>4, <1>5, <1>6

LEMMA DeletionsStamp ==
  ASSUME RowsTyped, NEW r \in Rows, Deletion(r)
  PROVE  Stamping
  <1>0. \A l \in Targeting(r) : table[l[1]] # "hosts"
    BY DEF Targeting
  <1>1. CASE delete_group(r)
    BY <1>0, <1>1, DeletionStamped DEF delete_group
  <1>2. CASE delete_key(r)
    BY <1>2, DeletionStamped DEF delete_key
  <1>3. CASE delete_identity(r)
    BY <1>3, DeletionStamped DEF delete_identity
  <1>4. CASE delete_tag(r)
    BY <1>4, DeletionStamped DEF delete_tag
  <1>5. CASE delete_host(r)
    BY <1>0, <1>5, DeletionStamped DEF delete_host
  <1>6. CASE delete_port_forward(r)
    BY <1>6, DeletionStamped DEF delete_port_forward
  <1>7. CASE delete_proxy(r)
    BY <1>7, DeletionStamped DEF delete_proxy
  <1>8. CASE delete_snippet_package(r)
    BY <1>8, DeletionStamped DEF delete_snippet_package
  <1>9. CASE delete_snippet(r)
    <2>1. \A l \in LinksOf(r) : table[l[1]] # "hosts"
      BY <1>9 DEF delete_snippet, DeleteRow, LinksOf
    <2> QED
      BY <1>9, <2>1, DeletionStamped DEF delete_snippet
  <1> QED
    BY <1>1, <1>2, <1>3, <1>4, <1>5, <1>6, <1>7, <1>8, <1>9 DEF Deletion

(* A favorite gets a new stamp with each change.                             *)
LEMMA FavoritesStamp ==
  ASSUME RowsTyped, NEW p \in Panes,
         \/ \E h \in Rows : loadRemoteSftpFavorites(p, h)
         \/ save_sftp_favorite_path(p) \/ delete_sftp_favorite_path_by_target(p)
  PROVE  Stamping
  <1>1. CASE save_sftp_favorite_path(p)
    <2>1. CASE UNCHANGED <<row, linked>>
      BY <2>1 DEF Stamping
    <2>2. CASE \E f \in Rows : NewFavorite(f, pane[p].host)
      <3>1. PICK f \in Rows :
              /\ row' = [row EXCEPT ![f] = [state |-> "live", refs |-> [host |-> pane[p].host]]]
              /\ stamped' = {f}
        BY <2>2 DEF NewFavorite
      <3> QED
        BY <1>1, <3>1 DEF Stamping, RowsTyped, save_sftp_favorite_path
    <2> QED
      BY <1>1, <2>1, <2>2 DEF save_sftp_favorite_path
  <1>2. CASE delete_sftp_favorite_path_by_target(p)
    <2>1. PICK shown : row' = Deleted(row, shown) /\ stamped' = shown /\ UNCHANGED linked
      BY <1>2 DEF delete_sftp_favorite_path_by_target
    <2>2. ASSUME NEW o \in Rows, o \notin shown PROVE row'[o] = row[o]
      BY <2>1, <2>2 DEF Deleted, RowsTyped
    <2> QED
      BY <2>1, <2>2 DEF Stamping
  <1>3. CASE \E h \in Rows : loadRemoteSftpFavorites(p, h)
    BY <1>3 DEF loadRemoteSftpFavorites, Stamping
  <1> QED
    BY <1>1, <1>2, <1>3

(* Every row that a save or a delete changes, and every host whose tags a    *)
(* delete takes away, gets a new stamp in that statement or transaction.     *)
THEOREM ChangesStamped == CatalogSpec => ChangesAreStamped
  <1>1. Catalog /\ [CatalogNext]_catalogVars => [Stamping]_catalogVars
    <2> SUFFICES ASSUME Catalog, CatalogNext PROVE Stamping
      OBVIOUS
    <2>1. RowsTyped
      BY DEF Catalog, TypeInv
    <2>2. ASSUME NEW w \in Windows,
                 \/ \E r \in Rows : OpenEditor(w, r)
                 \/ ChooseReference(w) \/ CloseEditor(w)
                 \/ SaveOfRow(w) \/ save_host(w) \/ replace_host_tags(w) \/ save_snippet(w)
          PROVE  Stamping
      BY <2>2, EditorsStamp
    <2>3. ASSUME NEW r \in Rows, Deletion(r) PROVE Stamping
      BY <2>1, <2>3, DeletionsStamp
    <2>4. ASSUME NEW p \in Panes,
                 \/ \E h \in Rows : loadRemoteSftpFavorites(p, h)
                 \/ save_sftp_favorite_path(p) \/ delete_sftp_favorite_path_by_target(p)
          PROVE  Stamping
      BY <2>1, <2>4, FavoritesStamp
    <2> QED
      BY <2>2, <2>3, <2>4 DEF CatalogNext, SaveOfRow, Deletion
  <1> QED
    BY <1>1, CatalogAlways, PTL DEF CatalogSpec, ChangesAreStamped, Stamping


-----------------------------------------------------------------------------
(* Output of a session.                                                    *)

-----------------------------------------------------------------------------
(* The least and the largest member of a set of numbers.                   *)

LEMMA MinIs ==
  ASSUME NEW T, T \subseteq Nat, T # {}
  PROVE  Min(T) \in T /\ \A y \in T : Min(T) <= y
<1> DEFINE A == {n \in Nat : \A m \in 0 .. n : m \notin T}
<1>1. PICK x \in T : \A y \in T : x <= y
  <2> SUFFICES ASSUME \A x \in T : \E y \in T : ~ (x <= y) PROVE FALSE
    OBVIOUS
  <2>1. 0 \in A
    <3>1. 0 \in T => FALSE
      OBVIOUS
    <3> QED
      BY <3>1
  <2>2. ASSUME NEW n \in Nat, n \in A PROVE n + 1 \in A
    <3>1. n + 1 \in T => FALSE
      BY <2>2
    <3>2. \A m \in 0 .. n + 1 : m = n + 1 \/ m \in 0 .. n
      OBVIOUS
    <3> QED
      BY <2>2, <3>1, <3>2
  <2> HIDE DEF A
  <2>3. \A n \in Nat : n \in A
    BY <2>1, <2>2, SetInduction
  <2>4. PICK t : t \in T
    OBVIOUS
  <2>5. t \in A /\ t \in 0 .. t
    BY <2>3, <2>4
  <2> QED
    BY <2>4, <2>5 DEF A
<1> QED
  BY <1>1, Zenon DEF Min

LEMMA MaxIs ==
  ASSUME NEW n \in Nat, NEW T, T \subseteq 1 .. n, T # {}
  PROVE  Max(T) \in T /\ \A y \in T : y <= Max(T)
<1> DEFINE U == {n - x : x \in T}
<1>1. U \subseteq Nat /\ U # {}
  <2>1. \A x \in T : n - x \in Nat
    OBVIOUS
  <2> QED
    BY <2>1
<1>2. Min(U) \in U /\ \A y \in U : Min(U) <= y
  <2> HIDE DEF U
  <2> QED
    BY <1>1, MinIs
<1>3. PICK x \in T : Min(U) = n - x
  BY <1>2
<1>4. \A y \in T : y <= x
  <2> TAKE y \in T
  <2>1. n - x <= n - y
    BY <1>2, <1>3
  <2> QED
    BY <2>1
<1> QED
  BY <1>4, Zenon DEF Max

-----------------------------------------------------------------------------
(* Where one stream occurs in another.                                     *)

Stream == Seq(Bytes)

Occurs(s, p, i) ==
  /\ i \in Nat /\ i + Len(p) <= Len(s)
  /\ \A k \in 1 .. Len(p) : s[i + k] = p[k]
FoundAt(s, p, f) ==
  \/ f = -1 /\ \A i \in Nat : ~ Occurs(s, p, i)
  \/ Occurs(s, p, f) /\ \A i \in Nat : i < f => ~ Occurs(s, p, i)

LEMMA OccursIs ==
  ASSUME NEW s \in Stream, NEW p \in Stream, NEW i \in Nat
  PROVE  Occurs(s, p, i) <=> i \in 0 .. Len(s) - Len(p) /\ SubSeq(s, i + 1, i + Len(p)) = p
<1>1. Len(s) \in Nat /\ Len(p) \in Nat
  BY DEF Stream
<1>2. i \in 0 .. Len(s) - Len(p) <=> i + Len(p) <= Len(s)
  BY <1>1
<1>3. ASSUME i + Len(p) <= Len(s)
      PROVE  SubSeq(s, i + 1, i + Len(p)) = p <=> \A k \in 1 .. Len(p) : s[i + k] = p[k]
  <2> DEFINE w == SubSeq(s, i + 1, i + Len(p))
  <2>1. w \in Stream /\ Len(w) = Len(p) /\ \A k \in 1 .. Len(p) : w[k] = s[i + k]
    BY <1>1, <1>3 DEF Stream
  <2> HIDE DEF w
  <2>2. w = p <=> \A k \in 1 .. Len(p) : w[k] = p[k]
    BY <2>1, SeqEqual DEF Stream
  <2> QED
    BY <2>1, <2>2 DEF w
<1> QED
  BY <1>2, <1>3 DEF Occurs

LEMMA FindIs ==
  ASSUME NEW s \in Stream, NEW p \in Stream
  PROVE  FoundAt(s, p, FindBytes(s, p))
<1> DEFINE at == {i \in 0 .. Len(s) - Len(p) : SubSeq(s, i + 1, i + Len(p)) = p}
<1>1. FindBytes(s, p) = IF at = {} THEN -1 ELSE Min(at)
  BY DEF FindBytes
<1>2. \A i \in Nat : i \in at <=> Occurs(s, p, i)
  BY OccursIs
<1>3. at \subseteq Nat
  BY DEF Stream
<1> HIDE DEF at
<1>4. CASE at = {}
  BY <1>1, <1>2, <1>4 DEF FoundAt
<1>5. CASE at # {}
  <2>1. Min(at) \in at /\ \A y \in at : Min(at) <= y
    BY <1>3, <1>5, MinIs
  <2>2. \A i \in Nat : i < Min(at) => i \notin at
    <3> DEFINE m == Min(at)
    <3>1. m \in Nat /\ \A y \in at : m <= y
      BY <1>3, <2>1
    <3> HIDE DEF m
    <3>2. \A i \in Nat : i < m => i \notin at
      BY <3>1
    <3> QED
      BY <3>2 DEF m
  <2> QED
    BY <1>1, <1>2, <1>3, <1>5, <2>1, <2>2 DEF FoundAt
<1> QED
  BY <1>4, <1>5

LEMMA FoundOnce ==
  ASSUME NEW s, NEW p, NEW f, NEW g, FoundAt(s, p, f), FoundAt(s, p, g)
  PROVE  f = g
<1>1. \A i : Occurs(s, p, i) => i \in Nat
  BY DEF Occurs
<1>2. ASSUME f # -1, g # -1 PROVE f = g
  <2>1. f \in Nat /\ g \in Nat /\ ~ (f < g) /\ ~ (g < f)
    BY <1>1, <1>2 DEF FoundAt
  <2> QED
    BY <2>1
<1> QED
  BY <1>1, <1>2 DEF FoundAt

\* What is found, and where it lies.
LEMMA FindRange ==
  ASSUME NEW s \in Stream, NEW p \in Stream, Len(p) > 0
  PROVE  /\ FindBytes(s, p) \in Int /\ FindBytes(s, p) >= -1
         /\ FindBytes(s, p) # -1 =>
              /\ FindBytes(s, p) \in 0 .. Len(s) /\ FindBytes(s, p) + Len(p) <= Len(s)
              /\ \A k \in 1 .. Len(p) : s[FindBytes(s, p) + k] = p[k]
<1> DEFINE f == FindBytes(s, p)
<1>1. FoundAt(s, p, f)
  BY FindIs
<1> HIDE DEF f
<1>2. Len(s) \in Nat /\ Len(p) \in Nat
  BY DEF Stream
<1>3. f # -1 => Occurs(s, p, f)
  BY <1>1 DEF FoundAt
<1>4. /\ f \in Int /\ f >= -1
      /\ f # -1 => /\ f \in 0 .. Len(s) /\ f + Len(p) <= Len(s)
                   /\ \A k \in 1 .. Len(p) : s[f + k] = p[k]
  BY <1>2, <1>3 DEF Occurs
<1> QED
  BY <1>4 DEF f

LEMMA ConcatIs ==
  ASSUME NEW S, NEW s \in Seq(S), NEW v \in Seq(S)
  PROVE  /\ s \o v \in Seq(S) /\ Len(s \o v) = Len(s) + Len(v) /\ Len(s) \in Nat /\ Len(v) \in Nat
         /\ \A i \in 1 .. Len(s) : (s \o v)[i] = s[i]
         /\ \A i \in 1 .. Len(v) : (s \o v)[Len(s) + i] = v[i]
OBVIOUS

LEMMA OccursInConcat ==
  ASSUME NEW s \in Stream, NEW v \in Stream, NEW p \in Stream, NEW i \in Nat
  PROVE  /\ i + Len(p) <= Len(s) => (Occurs(s \o v, p, i) <=> Occurs(s, p, i))
         /\ Occurs(s \o v, p, Len(s) + i) <=> Occurs(v, p, i)
<1> DEFINE u == s \o v
           l == Len(s)
           m == Len(v)
           n == Len(p)
<1>1. /\ Len(u) = l + m /\ l \in Nat /\ m \in Nat /\ n \in Nat
      /\ \A k \in 1 .. l : u[k] = s[k]
      /\ \A k \in 1 .. m : u[l + k] = v[k]
  BY ConcatIs DEF Stream
<1> HIDE DEF u
<1>2. ASSUME i + n <= l PROVE Occurs(u, p, i) <=> Occurs(s, p, i)
  <2>1. \A k \in 1 .. n : i + k \in 1 .. l
    BY <1>1, <1>2
  <2>2. \A k \in 1 .. n : u[i + k] = s[i + k]
    BY <1>1, <2>1
  <2> QED
    BY <1>1, <1>2, <2>2 DEF Occurs
<1>3. Occurs(u, p, l + i) <=> Occurs(v, p, i)
  <2>1. l + i \in Nat /\ (l + i + n <= Len(u) <=> i + n <= m)
    BY <1>1
  <2>2. ASSUME i + n <= m
        PROVE  (\A k \in 1 .. n : u[l + i + k] = p[k]) <=> (\A k \in 1 .. n : v[i + k] = p[k])
    <3>1. \A k \in 1 .. n : i + k \in 1 .. m /\ l + i + k = l + (i + k)
      BY <1>1, <2>2
    <3>2. \A k \in 1 .. n : u[l + i + k] = v[i + k]
      BY <1>1, <3>1
    <3> QED
      BY <3>2
  <2> QED
    BY <2>1, <2>2 DEF Occurs
<1> QED
  BY <1>2, <1>3 DEF u

LEMMA FindKeeps ==
  ASSUME NEW s \in Stream, NEW v \in Stream, NEW p \in Stream, FindBytes(s, p) # -1
  PROVE  FindBytes(s \o v, p) = FindBytes(s, p)
<1> DEFINE f == FindBytes(s, p)
           u == s \o v
<1>1. FoundAt(s, p, f) /\ FoundAt(u, p, FindBytes(u, p)) /\ u \in Stream
  <2>1. u \in Stream
    BY ConcatIs DEF Stream
  <2> QED
    BY <2>1, FindIs
<1>2. Occurs(s, p, f) /\ \A i \in Nat : i < f => ~ Occurs(s, p, i)
  BY <1>1 DEF FoundAt
<1>3. f \in Nat /\ f + Len(p) <= Len(s) /\ Len(p) \in Nat /\ Len(s) \in Nat
  BY <1>2 DEF Occurs, Stream
<1>4. \A i \in Nat : i <= f => (Occurs(u, p, i) <=> Occurs(s, p, i))
  <2> TAKE i \in Nat
  <2> HAVE i <= f
  <2>1. i + Len(p) <= Len(s)
    BY <1>3
  <2> QED
    BY <2>1, OccursInConcat
<1> HIDE DEF f, u
<1>5. FoundAt(u, p, f)
  BY <1>2, <1>3, <1>4 DEF FoundAt
<1>6. f = FindBytes(u, p)
  BY <1>1, <1>5, FoundOnce
<1> QED
  BY <1>6 DEF f, u

LEMMA FindSkips ==
  ASSUME NEW x \in Stream, NEW y \in Stream, NEW p \in Stream,
         \A i \in Nat : i < Len(x) => ~ Occurs(x \o y, p, i)
  PROVE  FindBytes(x \o y, p) = IF FindBytes(y, p) = -1 THEN -1 ELSE Len(x) + FindBytes(y, p)
<1> DEFINE f == FindBytes(y, p)
           u == x \o y
           l == Len(x)
<1>1. FoundAt(y, p, f) /\ FoundAt(u, p, FindBytes(u, p)) /\ l \in Nat
  <2>1. u \in Stream /\ l \in Nat
    BY ConcatIs DEF Stream
  <2> QED
    BY <2>1, FindIs
<1>2. \A i \in Nat : Occurs(u, p, l + i) <=> Occurs(y, p, i)
  BY OccursInConcat
<1>3. \A i \in Nat : i < l => ~ Occurs(u, p, i)
  OBVIOUS
<1> HIDE DEF f, u, l
<1>4. \A i \in Nat : i >= l => i - l \in Nat /\ i = l + (i - l)
  BY <1>1
<1>5. CASE f = -1
  <2>1. \A i \in Nat : ~ Occurs(u, p, i)
    <3> TAKE i \in Nat
    <3>1. CASE i < l
      BY <1>3, <3>1
    <3>2. CASE i >= l
      <4>1. i - l \in Nat /\ i = l + (i - l)
        BY <1>4, <3>2
      <4>2. ~ Occurs(y, p, -1) /\ \A k \in Nat : ~ Occurs(y, p, k)
        BY <1>1, <1>5 DEF FoundAt, Occurs
      <4> QED
        BY <1>2, <4>1, <4>2
    <3> QED
      BY <1>1, <3>1, <3>2
  <2>2. FoundAt(u, p, -1)
    BY <2>1 DEF FoundAt
  <2>3. -1 = FindBytes(u, p)
    BY <1>1, <2>2, FoundOnce
  <2> QED
    BY <1>5, <2>3 DEF f, u
<1>6. CASE f # -1
  <2>1. Occurs(y, p, f) /\ f \in Nat /\ \A i \in Nat : i < f => ~ Occurs(y, p, i)
    BY <1>1, <1>6 DEF FoundAt, Occurs
  <2>2. Occurs(u, p, l + f)
    BY <1>2, <2>1
  <2>3. \A i \in Nat : i < l + f => ~ Occurs(u, p, i)
    <3> TAKE i \in Nat
    <3> HAVE i < l + f
    <3>1. CASE i < l
      BY <1>3, <3>1
    <3>2. CASE i >= l
      <4>1. i - l \in Nat /\ i = l + (i - l) /\ i - l < f
        BY <1>1, <1>4, <2>1, <3>2
      <4> QED
        BY <1>2, <2>1, <4>1
    <3> QED
      BY <1>1, <3>1, <3>2
  <2>4. FoundAt(u, p, l + f)
    BY <2>2, <2>3 DEF FoundAt
  <2>5. l + f = FindBytes(u, p)
    BY <1>1, <2>4, FoundOnce
  <2> QED
    BY <1>6, <2>5 DEF f, u, l
<1> QED
  BY <1>5, <1>6

Opening == <<"esc", "]">>
Bell == <<"bel">>
Closing == <<"esc", "\\">>

LEMMA MarksAre ==
  /\ Opening \in Stream /\ Bell \in Stream /\ Closing \in Stream
  /\ Len(Opening) = 2 /\ Len(Bell) = 1 /\ Len(Closing) = 2
  /\ Opening[1] = "esc" /\ Opening[2] = "]"
<1>1. "esc" \in Bytes /\ "]" \in Bytes /\ "bel" \in Bytes /\ "\\" \in Bytes
  BY OutputAssumption
<1> QED
  BY <1>1 DEF Opening, Bell, Closing, Stream

\* Where a mark is found.
LEMMA FindMarks ==
  ASSUME NEW s \in Stream
  PROVE  LET start == FindBytes(s, Opening)
             bell == FindBytes(s, Bell)
             string == FindBytes(s, Closing)
         IN /\ Len(s) \in Nat
            /\ start \in Int /\ start >= -1 /\ (start # -1 => start \in Nat /\ start + 2 <= Len(s))
            /\ bell \in Int /\ bell >= -1 /\ (bell # -1 => bell \in Nat /\ bell + 1 <= Len(s))
            /\ string \in Int /\ string >= -1
            /\ string # -1 => string \in Nat /\ string + 2 <= Len(s)
<1>1. ASSUME NEW p \in Stream, NEW n \in {1, 2}, Len(p) = n
      PROVE  /\ FindBytes(s, p) \in Int /\ FindBytes(s, p) >= -1
             /\ FindBytes(s, p) # -1 => FindBytes(s, p) \in Nat /\ FindBytes(s, p) + n <= Len(s)
  BY <1>1, FindRange
<1>2. Opening \in Stream /\ Len(Opening) = 2 /\ Bell \in Stream /\ Len(Bell) = 1
      /\ Closing \in Stream /\ Len(Closing) = 2 /\ Len(s) \in Nat
  BY MarksAre DEF Stream
<1>2a. 1 \in {1, 2} /\ 2 \in {1, 2}
  OBVIOUS
<1>3. /\ FindBytes(s, Opening) \in Int /\ FindBytes(s, Opening) >= -1
      /\ FindBytes(s, Opening) # -1 =>
           FindBytes(s, Opening) \in Nat /\ FindBytes(s, Opening) + 2 <= Len(s)
  BY <1>1, <1>2, <1>2a, Zenon
<1>4. /\ FindBytes(s, Bell) \in Int /\ FindBytes(s, Bell) >= -1
      /\ FindBytes(s, Bell) # -1 =>
           FindBytes(s, Bell) \in Nat /\ FindBytes(s, Bell) + 1 <= Len(s)
  BY <1>1, <1>2, <1>2a, Zenon
<1>5. /\ FindBytes(s, Closing) \in Int /\ FindBytes(s, Closing) >= -1
      /\ FindBytes(s, Closing) # -1 =>
           FindBytes(s, Closing) \in Nat /\ FindBytes(s, Closing) + 2 <= Len(s)
  BY <1>1, <1>2, <1>2a, Zenon
<1> QED
  BY <1>2, <1>3, <1>4, <1>5

LEMMA FromIs ==
  ASSUME NEW S, NEW s \in Seq(S), NEW i \in 0 .. Len(s)
  PROVE  /\ From(s, i) \in Seq(S) /\ Len(From(s, i)) = Len(s) - i
         /\ \A k \in 1 .. Len(s) - i : From(s, i)[k] = s[i + k]
         /\ SubSeq(s, 1, i) \in Seq(S) /\ Len(SubSeq(s, 1, i)) = i
         /\ \A k \in 1 .. i : SubSeq(s, 1, i)[k] = s[k]
         /\ s = SubSeq(s, 1, i) \o From(s, i)
         /\ From(s, 0) = s
<1>1. /\ From(s, i) \in Seq(S) /\ Len(From(s, i)) = Len(s) - i
      /\ \A k \in 1 .. Len(s) - i : From(s, i)[k] = s[i + k]
  BY DEF From
<1>2. /\ SubSeq(s, 1, i) \in Seq(S) /\ Len(SubSeq(s, 1, i)) = i
      /\ \A k \in 1 .. i : SubSeq(s, 1, i)[k] = s[k]
  OBVIOUS
<1>3. s = SubSeq(s, 1, i) \o From(s, i)
  <2> DEFINE x == SubSeq(s, 1, i)
             y == From(s, i)
  <2>1. /\ x \o y \in Seq(S) /\ Len(x \o y) = Len(s)
        /\ \A k \in 1 .. i : (x \o y)[k] = s[k]
        /\ \A k \in 1 .. Len(s) - i : (x \o y)[i + k] = s[i + k]
    <3> HIDE DEF x, y
    <3>1. /\ x \in Seq(S) /\ Len(x) = i /\ y \in Seq(S) /\ Len(y) = Len(s) - i /\ Len(s) \in Nat
          /\ \A k \in 1 .. i : x[k] = s[k]
          /\ \A k \in 1 .. Len(s) - i : y[k] = s[i + k]
      BY <1>1, <1>2 DEF x, y
    <3> QED
      BY <3>1, ConcatIs
  <2> HIDE DEF x, y
  <2>2. \A k \in 1 .. Len(s) : (x \o y)[k] = s[k]
    <3> TAKE k \in 1 .. Len(s)
    <3>1. k \in 1 .. i \/ (k - i \in 1 .. Len(s) - i /\ k = i + (k - i))
      OBVIOUS
    <3> QED
      BY <2>1, <3>1
  <2> QED
    BY <2>1, <2>2, SeqEqual DEF x, y
<1>4. From(s, 0) = s
  BY SubSeqFull DEF From
<1> QED
  BY <1>1, <1>2, <1>3, <1>4

-----------------------------------------------------------------------------
(* One turn of the loop.                                                   *)

LEMMA TerminatorIs ==
  ASSUME NEW s \in Stream, FindBytes(s, Opening) = 0
  PROVE  LET bell == FindBytes(From(s, 2), Bell)
             string == FindBytes(From(s, 2), Closing)
         IN /\ From(s, 2) \in Stream /\ Len(From(s, 2)) = Len(s) - 2 /\ Len(s) >= 2
            /\ bell = -1 /\ string = -1 => Terminator(s)[1] = -1
            /\ bell # -1 /\ (string = -1 \/ bell < string) =>
                 Terminator(s)[1] = bell + 2 /\ Terminator(s)[2] = 1
            /\ string # -1 /\ (bell = -1 \/ ~ (bell < string)) =>
                 Terminator(s)[1] = string + 2 /\ Terminator(s)[2] = 2
            /\ Terminator(s)[1] # -1 =>
                 /\ Terminator(s)[1] \in 2 .. Len(s) /\ Terminator(s)[2] \in {1, 2}
                 /\ Terminator(s)[1] + Terminator(s)[2] \in 3 .. Len(s)
<1> DEFINE t == From(s, 2)
           bell == FindBytes(t, Bell)
           string == FindBytes(t, Closing)
           e == Terminator(s)
<1>1. Len(s) \in Nat /\ Len(s) >= 2
  BY FindMarks
<1>2. t \in Stream /\ Len(t) = Len(s) - 2
  <2>1. 2 \in 0 .. Len(s)
    BY <1>1
  <2> QED
    BY <2>1, FromIs DEF Stream
<1>3. /\ bell \in Int /\ bell >= -1 /\ string \in Int /\ string >= -1
      /\ bell # -1 => bell \in Nat /\ bell + 1 <= Len(t)
      /\ string # -1 => string \in Nat /\ string + 2 <= Len(t)
  BY <1>2, FindMarks
<1>4. e = CASE bell = -1 /\ string = -1 -> <<-1, 0>>
            [] bell # -1 /\ (string = -1 \/ bell < string) -> <<bell + 2, 1>>
            [] OTHER -> <<string + 2, 2>>
  BY DEF Terminator, Bell, Closing
<1> HIDE DEF t, bell, string, e
<1>5. bell = -1 /\ string = -1 => e[1] = -1
  <2> HAVE bell = -1 /\ string = -1
  <2>1. e = <<-1, 0>>
    BY <1>4
  <2> QED
    BY <2>1
<1>6. bell # -1 /\ (string = -1 \/ bell < string) => e[1] = bell + 2 /\ e[2] = 1
  BY <1>4
<1>7. string # -1 /\ (bell = -1 \/ ~ (bell < string)) => e[1] = string + 2 /\ e[2] = 2
  BY <1>4
<1>8. e[1] # -1 => e[1] \in 2 .. Len(s) /\ e[2] \in {1, 2} /\ e[1] + e[2] \in 3 .. Len(s)
  <2>1. CASE bell = -1 /\ string = -1
    BY <1>5, <2>1
  <2>2. CASE bell # -1 /\ (string = -1 \/ bell < string)
    BY <1>1, <1>2, <1>3, <1>6, <2>2
  <2>3. CASE string # -1 /\ (bell = -1 \/ ~ (bell < string))
    BY <1>1, <1>2, <1>3, <1>7, <2>3
  <2> QED
    BY <2>1, <2>2, <2>3
<1> QED
  BY <1>1, <1>2, <1>5, <1>6, <1>7, <1>8 DEF t, bell, string, e

\* Where a turn leaves the rest to the next.
Goes(s) ==
  LET start == FindBytes(s, Opening)
      end == Terminator(s)
  IN IF start = 0 THEN end[1] + end[2] ELSE start
Takes(s) ==
  LET start == FindBytes(s, Opening)
  IN IF start = 0 THEN Osc(s, Terminator(s)[1], Terminator(s)[2]) ELSE Text(SubSeq(s, 1, start))
Stops(s) == FindBytes(s, Opening) = -1 \/ (FindBytes(s, Opening) = 0 /\ Terminator(s)[1] = -1)

LEMMA KeepsAre ==
  ASSUME NEW s \in Stream
  PROVE  /\ Retained(s) \in {0, 1} /\ Retained(s) <= Len(s)
         /\ Retained(s) = 1 <=> Len(s) > 0 /\ s[Len(s)] = "esc"
         /\ Len(s) - Retained(s) \in 0 .. Len(s)
<1>1. Len(s) \in Nat /\ (s = <<>> <=> Len(s) = 0)
  BY DEF Stream
<1> QED
  BY <1>1 DEF Retained, EscapeAtEnd, Last

LEMMA TurnIs ==
  ASSUME NEW s \in Stream, NEW f
  PROVE  /\ Stops(s) =>
              /\ FindBytes(s, Opening) = -1 =>
                   CutFirst(f, s) =
                     [pieces |-> IF Len(s) = Retained(s) THEN <<>>
                                 ELSE <<Text(SubSeq(s, 1, Len(s) - Retained(s)))>>,
                      rest |-> From(s, Len(s) - Retained(s))]
              /\ FindBytes(s, Opening) = 0 => CutFirst(f, s) = [pieces |-> <<>>, rest |-> s]
         /\ ~ Stops(s) =>
              /\ Goes(s) \in 1 .. Len(s)
              /\ From(s, Goes(s)) \in Stream /\ Len(From(s, Goes(s))) < Len(s)
              /\ CutFirst(f, s) = [f[From(s, Goes(s))] EXCEPT !.pieces = <<Takes(s)>> \o @]
<1> DEFINE start == FindBytes(s, Opening)
           end == Terminator(s)
           keep == Retained(s)
           whole == [pieces |-> IF Len(s) = keep THEN <<>> ELSE <<Text(SubSeq(s, 1, Len(s) - keep))>>,
                     rest |-> From(s, Len(s) - keep)]
           waits == [pieces |-> <<>>, rest |-> s]
           text == [f[From(s, start)] EXCEPT !.pieces = <<Text(SubSeq(s, 1, start))>> \o @]
           osc == [f[From(s, end[1] + end[2])] EXCEPT !.pieces = <<Osc(s, end[1], end[2])>> \o @]
<1>1. CutFirst(f, s) = CASE start = -1 -> whole
                         [] start > 0 -> text
                         [] start = 0 /\ end[1] = -1 -> waits
                         [] start = 0 /\ end[1] # -1 -> osc
  BY Zenon DEF CutFirst, Opening
<1>2. /\ start \in Int /\ start >= -1
      /\ start # -1 => start \in 0 .. Len(s)
      /\ Len(s) \in Nat
      /\ start = 0 /\ end[1] # -1 => end[1] + end[2] \in 3 .. Len(s)
  <2>1. /\ start \in Int /\ start >= -1 /\ Len(s) \in Nat
        /\ start # -1 => start \in Nat /\ start + 2 <= Len(s)
    BY FindMarks
  <2>2. ASSUME start = 0, end[1] # -1 PROVE end[1] + end[2] \in 3 .. Len(s)
    BY <2>2, TerminatorIs
  <2> HIDE DEF start, end
  <2> QED
    BY <2>1, <2>2
<1>3. \A i \in 1 .. Len(s) : From(s, i) \in Stream /\ Len(From(s, i)) < Len(s)
  BY FromIs DEF Stream
<1>4. Stops(s) <=> start = -1 \/ (start = 0 /\ end[1] = -1)
  BY DEF Stops
<1>5. Goes(s) = (IF start = 0 THEN end[1] + end[2] ELSE start)
      /\ Takes(s) = (IF start = 0 THEN Osc(s, end[1], end[2]) ELSE Text(SubSeq(s, 1, start)))
  BY DEF Goes, Takes
<1> HIDE DEF start, end, keep, whole, waits, text, osc
<1>6. CASE start = -1
  <2>1. CutFirst(f, s) = whole
    BY <1>1, <1>6
  <2> QED
    BY <1>4, <1>6, <2>1 DEF whole, start, keep
<1>7. CASE start = 0 /\ end[1] = -1
  <2>1. CutFirst(f, s) = waits
    BY <1>1, <1>7
  <2> QED
    BY <1>4, <1>7, <2>1 DEF waits, start
<1>8. CASE start = 0 /\ end[1] # -1
  <2>1. CutFirst(f, s) = osc
    BY <1>1, <1>8
  <2>2. ~ Stops(s) /\ Goes(s) = end[1] + end[2] /\ Takes(s) = Osc(s, end[1], end[2])
    BY <1>4, <1>5, <1>8
  <2>3. Goes(s) \in 1 .. Len(s)
    BY <1>2, <1>8, <2>2
  <2> QED
    BY <1>3, <2>1, <2>2, <2>3 DEF osc
<1>9. CASE start > 0
  <2>1. CutFirst(f, s) = text
    BY <1>1, <1>9
  <2>2. ~ Stops(s) /\ Goes(s) = start /\ Takes(s) = Text(SubSeq(s, 1, start))
    BY <1>4, <1>5, <1>9
  <2>3. Goes(s) \in 1 .. Len(s)
    BY <1>2, <1>9, <2>2
  <2> QED
    BY <1>3, <2>1, <2>2, <2>3 DEF text
<1> QED
  BY <1>2, <1>6, <1>7, <1>8, <1>9

\* A turn depends on what shorter streams are cut into.
LEMMA TurnAgrees ==
  ASSUME NEW s \in Stream, NEW f, NEW g,
         \A t \in Stream : Len(t) < Len(s) => f[t] = g[t]
  PROVE  CutFirst(f, s) = CutFirst(g, s)
<1>1. CASE Stops(s)
  <2>1. CASE FindBytes(s, Opening) = -1
    BY <1>1, <2>1, TurnIs
  <2>2. CASE FindBytes(s, Opening) = 0
    BY <1>1, <2>2, TurnIs
  <2> QED
    BY <1>1, <2>1, <2>2 DEF Stops
<1>2. CASE ~ Stops(s)
  <2>1. f[From(s, Goes(s))] = g[From(s, Goes(s))]
    BY <1>2, TurnIs
  <2>2. \A h : CutFirst(h, s) = [h[From(s, Goes(s))] EXCEPT !.pieces = <<Takes(s)>> \o @]
    BY <1>2, TurnIs, Zenon
  <2> QED
    BY <2>1, <2>2, Zenon
<1> QED
  BY <1>1, <1>2

-----------------------------------------------------------------------------
(* The loop, by induction on the length of the stream.                     *)

UpTo(n) == {s \in Stream : Len(s) <= n}
CutsUpTo(g, n) == g = [s \in UpTo(n) |-> CutFirst(g, s)]

LEMMA CutsAt ==
  ASSUME NEW n \in Nat, NEW g, CutsUpTo(g, n), NEW s \in Stream, Len(s) <= n
  PROVE  g[s] = CutFirst(g, s)
<1> DEFINE e(t) == CutFirst(g, t)
<1>1. g = [t \in UpTo(n) |-> e(t)] /\ s \in UpTo(n)
  BY DEF CutsUpTo, UpTo
<1> HIDE DEF e
<1>2. g[s] = e(s)
  BY <1>1
<1> QED
  BY <1>2 DEF e

LEMMA CutsExist ==
  ASSUME NEW n \in Nat
  PROVE  \E g : CutsUpTo(g, n)
<1> DEFINE A == {m \in Nat : \E g : CutsUpTo(g, m)}
<1>0. \A s \in Stream : Len(s) \in Nat
  BY DEF Stream
<1>1. 0 \in A
  <2> DEFINE h == [s \in UpTo(0) |-> CutFirst(<<>>, s)]
  <2>1. \A s \in UpTo(0) : h[s] = CutFirst(h, s)
    <3> TAKE s \in UpTo(0)
    <3>1. s \in Stream /\ \A t \in Stream : ~ (Len(t) < Len(s))
      BY <1>0 DEF UpTo
    <3>2. CutFirst(<<>>, s) = CutFirst(h, s)
      <4> HIDE DEF h
      <4> QED
        BY <3>1, TurnAgrees
    <3> QED
      BY <3>2
  <2>2. h = [s \in UpTo(0) |-> h[s]]
    OBVIOUS
  <2> HIDE DEF h
  <2>3. CutsUpTo(h, 0)
    BY <2>1, <2>2, Zenon DEF CutsUpTo
  <2> QED
    BY <2>3
<1>2. ASSUME NEW m \in Nat, m \in A PROVE m + 1 \in A
  <2>1. PICK g : CutsUpTo(g, m)
    BY <1>2
  <2> DEFINE h == [s \in UpTo(m + 1) |-> CutFirst(g, s)]
  <2>2. \A t \in Stream : Len(t) <= m => h[t] = g[t]
    <3> TAKE t \in Stream
    <3> HAVE Len(t) <= m
    <3>1. g[t] = CutFirst(g, t)
      BY <2>1, CutsAt
    <3>2. t \in UpTo(m + 1)
      BY <1>0 DEF UpTo
    <3> QED
      BY <3>1, <3>2
  <2>3. \A s \in UpTo(m + 1) : h[s] = CutFirst(h, s)
    <3> TAKE s \in UpTo(m + 1)
    <3>1. s \in Stream /\ \A t \in Stream : Len(t) < Len(s) => Len(t) <= m
      BY <1>0 DEF UpTo
    <3>2. CutFirst(g, s) = CutFirst(h, s)
      <4> HIDE DEF h
      <4> QED
        BY <2>2, <3>1, TurnAgrees
    <3> QED
      BY <3>2
  <2>4. h = [s \in UpTo(m + 1) |-> h[s]]
    OBVIOUS
  <2> HIDE DEF h
  <2>5. CutsUpTo(h, m + 1)
    BY <2>3, <2>4, Zenon DEF CutsUpTo
  <2> QED
    BY <2>5
<1> HIDE DEF A
<1>3. n \in A
  BY <1>1, <1>2, SetInduction
<1> QED
  BY <1>3 DEF A

LEMMA CutsAgree ==
  ASSUME NEW m \in Nat, NEW n \in Nat, NEW g, NEW h, CutsUpTo(g, m), CutsUpTo(h, n)
  PROVE  \A s \in Stream : Len(s) <= m /\ Len(s) <= n => g[s] = h[s]
<1> DEFINE A == {l \in Nat : \A s \in Stream :
                   Len(s) <= l /\ Len(s) <= m /\ Len(s) <= n => g[s] = h[s]}
<1>0. \A s \in Stream : Len(s) \in Nat
  BY DEF Stream
<1>1. ASSUME NEW s \in Stream, Len(s) <= m, Len(s) <= n,
             \A t \in Stream : Len(t) < Len(s) => g[t] = h[t]
      PROVE  g[s] = h[s]
  <2>1. g[s] = CutFirst(g, s) /\ h[s] = CutFirst(h, s)
    BY <1>1, CutsAt
  <2>2. CutFirst(g, s) = CutFirst(h, s)
    BY <1>1, TurnAgrees
  <2> QED
    BY <2>1, <2>2
<1>2. 0 \in A
  <2> SUFFICES ASSUME NEW s \in Stream, Len(s) <= 0, Len(s) <= m, Len(s) <= n PROVE g[s] = h[s]
    OBVIOUS
  <2>1. \A t \in Stream : ~ (Len(t) < Len(s))
    BY <1>0
  <2> QED
    BY <1>1, <2>1
<1>3. ASSUME NEW l \in Nat, l \in A PROVE l + 1 \in A
  <2> SUFFICES ASSUME NEW s \in Stream, Len(s) <= l + 1, Len(s) <= m, Len(s) <= n
               PROVE  g[s] = h[s]
    OBVIOUS
  <2>1. \A t \in Stream : Len(t) < Len(s) => Len(t) <= l /\ Len(t) <= m /\ Len(t) <= n
    BY <1>0
  <2>2. \A t \in Stream : Len(t) < Len(s) => g[t] = h[t]
    BY <1>3, <2>1
  <2> QED
    BY <1>1, <2>2
<1>4. \A l \in Nat : l \in A
  <2> HIDE DEF A
  <2> QED
    BY <1>2, <1>3, SetInduction
<1> QED
  BY <1>0, <1>4

LEMMA CutIs ==
  \A s \in Stream : Cut[s] = CutFirst(Cut, s)
<1> DEFINE G(n) == CHOOSE g : CutsUpTo(g, n)
           F == [s \in Stream |-> G(Len(s))[s]]
<1>0. \A s \in Stream : Len(s) \in Nat
  BY DEF Stream
<1>1. \A n \in Nat : CutsUpTo(G(n), n)
  BY CutsExist, Zenon
<1> HIDE DEF G
<1>2. \A s \in Stream : F[s] = CutFirst(F, s)
  <2> TAKE s \in Stream
  <2> DEFINE n == Len(s)
  <2>1. F[s] = G(n)[s] /\ n \in Nat /\ CutsUpTo(G(n), n)
    BY <1>0, <1>1
  <2>2. G(n)[s] = CutFirst(G(n), s)
    BY <2>1, CutsAt
  <2>3. \A t \in Stream : Len(t) < Len(s) => G(n)[t] = F[t]
    <3> TAKE t \in Stream
    <3> HAVE Len(t) < Len(s)
    <3>1. F[t] = G(Len(t))[t] /\ Len(t) \in Nat /\ CutsUpTo(G(Len(t)), Len(t))
      BY <1>0, <1>1
    <3> QED
      BY <2>1, <3>1, CutsAgree
  <2> HIDE DEF F, n
  <2>4. CutFirst(G(n), s) = CutFirst(F, s)
    BY <2>3, TurnAgrees
  <2> QED
    BY <2>1, <2>2, <2>4
<1>3. F = [s \in Stream |-> F[s]]
  OBVIOUS
<1> HIDE DEF F
<1>4. F = [s \in Stream |-> CutFirst(F, s)]
  BY <1>2, <1>3, Zenon
<1>5. Cut = [s \in Stream |-> CutFirst(Cut, s)]
  <2>1. Cut = CHOOSE f : f = [s \in Stream |-> CutFirst(f, s)]
    BY Zenon DEF Cut, Stream
  <2> QED
    BY <1>4, <2>1, Zenon
<1> DEFINE e(s) == CutFirst(Cut, s)
<1>6. Cut = [s \in Stream |-> e(s)]
  BY <1>5
<1> HIDE DEF e
<1>7. \A s \in Stream : Cut[s] = e(s)
  BY <1>6
<1> QED
  BY <1>7 DEF e

-----------------------------------------------------------------------------
(* The screen.                                                             *)

Words == Bytes \cup {"none"}
ScreenBlocks == [id : Nat, at : Nat, directory : Words, command : Words, exit : Words]
Screens ==
  [bytes : Stream, alternate : BOOLEAN, directory : Words, blocks : Seq(ScreenBlocks), id : Nat]
Numbered(bs, n) ==
  /\ Len(bs) <= MaxBlocks /\ (n > 0 => Len(bs) > 0)
  /\ \A i \in 1 .. Len(bs) : bs[i].id = n - Len(bs) + i
ScreenOK(sc) == sc \in Screens /\ Numbered(sc.blocks, sc.id)
ShownPieces == [bytes : Stream, payload : Stream]

\* Whether the alternate screen is shown after some bytes.
Switches(bytes) == {i \in DOMAIN bytes : bytes[i] \in {"alt", "main"}}
Alternate(a, bytes) ==
  IF Switches(bytes) = {} THEN a ELSE bytes[Max(Switches(bytes))] = "alt"

LEMMA AdvanceDef ==
  ASSUME NEW sc, NEW x
  PROVE  advance_terminal_bytes(sc, x) =
           [sc EXCEPT !.bytes = @ \o x, !.alternate = Alternate(@, x)]
BY Zenon DEF advance_terminal_bytes, Alternate, Switches

LEMMA MaxOne ==
  ASSUME NEW m, NEW n, NEW T, m \in T, n \in T, T \subseteq Nat,
         \A y \in T : y <= m, \A y \in T : y <= n
  PROVE  m = n
<1>1. m <= n /\ n <= m /\ m \in Nat /\ n \in Nat
  OBVIOUS
<1> QED
  BY <1>1

LEMMA AlternateNot ==
  ASSUME NEW a \in BOOLEAN
  PROVE  Alternate(a, <<>>) = a
<1>1. Switches(<<>>) = {}
  BY DEF Switches
<1> QED
  BY <1>1, Zenon DEF Alternate

LEMMA AlternateType ==
  ASSUME NEW a \in BOOLEAN, NEW x
  PROVE  Alternate(a, x) \in BOOLEAN
BY Zenon DEF Alternate

LEMMA AlternateTwice ==
  ASSUME NEW x \in Stream, NEW y \in Stream, NEW a \in BOOLEAN
  PROVE  Alternate(Alternate(a, x), y) = Alternate(a, x \o y)
<1> DEFINE u == x \o y
           l == Len(x)
           m == Len(y)
           X == Switches(x)
           Y == Switches(y)
           U == Switches(u)
<1>1. /\ u \in Stream /\ Len(u) = l + m /\ l \in Nat /\ m \in Nat
      /\ \A i \in 1 .. l : u[i] = x[i]
      /\ \A i \in 1 .. m : u[l + i] = y[i]
  BY ConcatIs DEF Stream
<1>2. DOMAIN x = 1 .. l /\ DOMAIN y = 1 .. m /\ DOMAIN u = 1 .. l + m
  BY <1>1 DEF Stream
<1> HIDE DEF u, l, m
<1>3. /\ X = {i \in 1 .. l : x[i] \in {"alt", "main"}}
      /\ Y = {i \in 1 .. m : y[i] \in {"alt", "main"}}
      /\ U = {i \in 1 .. l + m : u[i] \in {"alt", "main"}}
  BY <1>2, Zenon DEF Switches
<1>4. X \subseteq 1 .. l /\ Y \subseteq 1 .. m /\ U \subseteq 1 .. l + m
  BY <1>3, Zenon
<1> HIDE DEF X, Y, U
<1>5. \A i \in 1 .. l : i \in U <=> i \in X
  <2>1. \A i \in 1 .. l : i \in 1 .. l + m
    BY <1>1
  <2> QED
    BY <1>1, <1>3, <2>1, Zenon
<1>6. \A i \in 1 .. m : l + i \in U <=> i \in Y
  <2>1. \A i \in 1 .. m : l + i \in 1 .. l + m
    BY <1>1
  <2> QED
    BY <1>1, <1>3, <2>1, Zenon
<1>7. \A i \in U : i \in 1 .. l \/ (i - l \in 1 .. m /\ i = l + (i - l))
  BY <1>1, <1>4
<1>8. CASE Y # {}
  <2>1. Max(Y) \in Y /\ \A i \in Y : i <= Max(Y)
    BY <1>1, <1>4, <1>8, MaxIs
  <2>2. l + Max(Y) \in U
    BY <1>4, <1>6, <2>1
  <2>3. \A i \in U : i <= l + Max(Y)
    <3> TAKE i \in U
    <3> DEFINE M == Max(Y)
    <3>1. M \in 1 .. m
      BY <1>4, <2>1
    <3>2. i \in 1 .. l => i <= l + M
      <4> HIDE DEF M
      <4> QED
        BY <1>1, <3>1
    <3>3. i - l \in 1 .. m => i - l \in Y
      <4> HAVE i - l \in 1 .. m
      <4>1. i = l + (i - l)
        BY <1>1, <1>4
      <4> QED
        BY <1>6, <4>1
    <3>4. i - l \in 1 .. m => i <= l + M
      <4> HAVE i - l \in 1 .. m
      <4>1. i - l <= M
        BY <2>1, <3>3
      <4> HIDE DEF M
      <4> QED
        BY <1>1, <1>4, <3>1, <4>1
    <3> QED
      BY <1>7, <3>2, <3>4
  <2>4. Max(U) \in U /\ \A i \in U : i <= Max(U)
    <3>1. l + m \in Nat /\ U # {}
      BY <1>1, <2>2
    <3> QED
      BY <1>4, <3>1, MaxIs
  <2>5. Max(U) = l + Max(Y)
    <3>1. U \subseteq Nat
      BY <1>1, <1>4
    <3> QED
      BY <2>2, <2>3, <2>4, <3>1, MaxOne
  <2>6. u[Max(U)] = y[Max(Y)]
    BY <1>1, <1>4, <2>1, <2>5
  <2>7. U # {}
    BY <2>2
  <2> QED
    BY <1>8, <2>6, <2>7, Zenon DEF Alternate, X, Y, U, u
<1>9. CASE Y = {} /\ X # {}
  <2>1. U = X
    <3>1. \A i \in U : i \in X
      BY <1>5, <1>6, <1>7, <1>9
    <3>2. \A i \in X : i \in U
      BY <1>4, <1>5
    <3> QED
      BY <3>1, <3>2
  <2>2. Max(X) \in X
    BY <1>1, <1>4, <1>9, MaxIs
  <2>3. u[Max(U)] = x[Max(X)]
    BY <1>1, <1>4, <2>1, <2>2
  <2> QED
    BY <1>9, <2>1, <2>3, Zenon DEF Alternate, X, Y, U, u
<1>10. CASE Y = {} /\ X = {}
  <2>1. U = {}
    BY <1>5, <1>6, <1>7, <1>10
  <2> QED
    BY <1>10, <2>1, Zenon DEF Alternate, X, Y, U, u
<1> QED
  BY <1>8, <1>9, <1>10

\* A step of the screen that leaves the blocks alone.
LEMMA AdvanceFields ==
  ASSUME NEW sc, ScreenOK(sc), NEW x \in Stream
  PROVE  LET t == advance_terminal_bytes(sc, x) IN
         /\ ScreenOK(t)
         /\ t.bytes = sc.bytes \o x /\ t.alternate = Alternate(sc.alternate, x)
         /\ t.directory = sc.directory /\ t.blocks = sc.blocks /\ t.id = sc.id
<1> DEFINE b == sc.bytes \o x
           a == Alternate(sc.alternate, x)
           t == [sc EXCEPT !.bytes = b, !.alternate = a]
<1>1. advance_terminal_bytes(sc, x) = t
  BY AdvanceDef, Zenon
<1>2. sc \in Screens
  BY DEF ScreenOK
<1>3. b \in Stream
  BY <1>2, ConcatIs DEF Screens, Stream
<1>4. a \in BOOLEAN
  BY <1>2, AlternateType DEF Screens
<1> HIDE DEF b, a
<1>5. t \in Screens
  BY <1>2, <1>3, <1>4 DEF Screens
<1>6. t.bytes = b /\ t.alternate = a /\ t.directory = sc.directory /\ t.blocks = sc.blocks /\ t.id = sc.id
  BY <1>2 DEF Screens
<1> HIDE DEF t
<1>7. ScreenOK(t)
  BY <1>5, <1>6, Zenon DEF ScreenOK
<1> QED
  BY <1>1, <1>6, <1>7, Zenon DEF b, a

LEMMA SameScreen ==
  ASSUME NEW sc \in Screens, NEW t \in Screens, sc.bytes = t.bytes, sc.alternate = t.alternate,
         sc.directory = t.directory, sc.blocks = t.blocks, sc.id = t.id
  PROVE  sc = t
BY DEF Screens

LEMMA StreamsJoin ==
  ASSUME NEW s \in Stream, NEW x \in Stream, NEW y \in Stream
  PROVE  (s \o x) \o y = s \o (x \o y)
<1>1. /\ s \o x \in Stream /\ x \o y \in Stream /\ (s \o x) \o y \in Stream /\ s \o (x \o y) \in Stream
      /\ Len((s \o x) \o y) = Len(s) + Len(x) + Len(y) /\ Len(s \o (x \o y)) = Len(s) + Len(x) + Len(y)
  BY DEF Stream
<1>2. \A i \in 1 .. Len(s) + Len(x) + Len(y) : ((s \o x) \o y)[i] = (s \o (x \o y))[i]
  BY DEF Stream
<1> QED
  BY <1>1, <1>2, SeqEqual DEF Stream

LEMMA AdvanceTwice ==
  ASSUME NEW sc, ScreenOK(sc), NEW x \in Stream, NEW y \in Stream
  PROVE  advance_terminal_bytes(advance_terminal_bytes(sc, x), y) = advance_terminal_bytes(sc, x \o y)
<1> DEFINE t == advance_terminal_bytes(sc, x)
           u == advance_terminal_bytes(t, y)
           w == advance_terminal_bytes(sc, x \o y)
<1>1. x \o y \in Stream
  BY ConcatIs DEF Stream
<1>2. /\ ScreenOK(t) /\ t.bytes = sc.bytes \o x /\ t.alternate = Alternate(sc.alternate, x)
      /\ t.directory = sc.directory /\ t.blocks = sc.blocks /\ t.id = sc.id
  BY AdvanceFields, Zenon
<1>3. /\ ScreenOK(u) /\ u.bytes = t.bytes \o y /\ u.alternate = Alternate(t.alternate, y)
      /\ u.directory = t.directory /\ u.blocks = t.blocks /\ u.id = t.id
  <2> HIDE DEF t
  <2> QED
    BY <1>2, AdvanceFields, Zenon
<1>4. /\ ScreenOK(w) /\ w.bytes = sc.bytes \o (x \o y) /\ w.alternate = Alternate(sc.alternate, x \o y)
      /\ w.directory = sc.directory /\ w.blocks = sc.blocks /\ w.id = sc.id
  BY <1>1, AdvanceFields, Zenon
<1> HIDE DEF t, u, w
<1>5. sc.bytes \in Stream /\ sc.alternate \in BOOLEAN
  BY DEF ScreenOK, Screens
<1>6. (sc.bytes \o x) \o y = sc.bytes \o (x \o y)
  BY <1>5, StreamsJoin
<1>7. u.bytes = w.bytes /\ u.alternate = w.alternate
  BY <1>2, <1>3, <1>4, <1>5, <1>6, AlternateTwice, Zenon
<1>8. u = w
  <2>1. u \in Screens /\ w \in Screens
    BY <1>3, <1>4, Zenon DEF ScreenOK
  <2>2. u.directory = w.directory /\ u.blocks = w.blocks /\ u.id = w.id
    BY <1>2, <1>3, <1>4, Zenon
  <2> QED
    BY <1>7, <2>1, <2>2, SameScreen, Zenon
<1> QED
  BY <1>8 DEF t, u, w

LEMMA AdvanceNot ==
  ASSUME NEW sc, ScreenOK(sc)
  PROVE  advance_terminal_bytes(sc, <<>>) = sc
<1> DEFINE t == advance_terminal_bytes(sc, <<>>)
<1>1. <<>> \in Stream
  BY DEF Stream
<1>2. /\ ScreenOK(t) /\ t.bytes = sc.bytes \o <<>> /\ t.alternate = Alternate(sc.alternate, <<>>)
      /\ t.directory = sc.directory /\ t.blocks = sc.blocks /\ t.id = sc.id
  BY <1>1, AdvanceFields, Zenon
<1> HIDE DEF t
<1>3. sc.bytes \in Stream /\ sc.alternate \in BOOLEAN /\ sc \in Screens /\ t \in Screens
  BY <1>2 DEF ScreenOK, Screens
<1>4. sc.bytes \o <<>> = sc.bytes
  BY <1>3 DEF Stream
<1>5. t = sc
  BY <1>2, <1>3, <1>4, AlternateNot, SameScreen, Zenon
<1> QED
  BY <1>5 DEF t

LEMMA Renumber == \A a, b, c \in Int : a - (b + 1) + (c + 1) = a - b + c
OBVIOUS

\* The shell integration keeps the screen well formed.
LEMMA ShellKeeps ==
  ASSUME NEW sc, ScreenOK(sc), NEW payload \in Stream
  PROVE  ScreenOK(handle_shell_integration_osc(sc, payload))
<1> DEFINE Says(kind) == Len(payload) = 2 /\ payload[1] = kind
           current == Last(sc.blocks)
           w == payload[2]
           n == Len(sc.blocks)
           dir == [sc EXCEPT !.directory = w]
           started == InBlock(sc, [current EXCEPT !.command = w])
           exited == InBlock(sc, [current EXCEPT !.exit = w])
           mark == mark_command_block_start(sc)
<1>0. "none" \in Words /\ \A i \in 1 .. Len(payload) : payload[i] \in Words
  BY DEF Words, Stream
<1>1. handle_shell_integration_osc(sc, payload) \in {dir, started, exited, mark, sc}
  BY Zenon DEF handle_shell_integration_osc
<1>2. /\ sc \in Screens /\ Numbered(sc.blocks, sc.id)
      /\ sc.bytes \in Stream /\ sc.alternate \in BOOLEAN /\ sc.directory \in Words
      /\ sc.blocks \in Seq(ScreenBlocks) /\ sc.id \in Nat /\ n \in Nat
      /\ sc.id > 0 => n > 0
  BY DEF ScreenOK, Screens, Numbered
<1>3. ASSUME Says("dir") \/ Says("started") \/ Says("exited") PROVE w \in Words
  BY <1>0, <1>3
<1>4. ASSUME w \in Words PROVE ScreenOK(dir)
  <2>1. dir \in Screens /\ dir.blocks = sc.blocks /\ dir.id = sc.id
    BY <1>2, <1>4 DEF Screens
  <2> HIDE DEF dir
  <2> QED
    BY <1>2, <2>1, Zenon DEF ScreenOK
<1>5. ASSUME NEW b \in ScreenBlocks, n > 0, b.id = sc.blocks[n].id
      PROVE  ScreenOK(InBlock(sc, b))
  <2> DEFINE bs == [sc.blocks EXCEPT ![n] = b]
             t == [sc EXCEPT !.blocks = bs]
  <2>1. InBlock(sc, b) = t
    BY <1>2 DEF InBlock, Screens
  <2>2. n \in 1 .. n /\ DOMAIN sc.blocks = 1 .. n
    BY <1>2, <1>5
  <2>3. /\ bs \in Seq(ScreenBlocks) /\ Len(bs) = n
        /\ \A i \in 1 .. n : bs[i].id = sc.blocks[i].id
    <3>1. \A i \in 1 .. n : bs[i] = IF i = n THEN b ELSE sc.blocks[i]
      BY <2>2
    <3>2. bs \in Seq(ScreenBlocks) /\ Len(bs) = n
      BY <1>2, <2>2
    <3> HIDE DEF bs
    <3> QED
      BY <1>5, <3>1, <3>2
  <2> HIDE DEF bs
  <2>4. t \in Screens /\ t.blocks = bs /\ t.id = sc.id
    BY <1>2, <2>3 DEF Screens
  <2>5. Numbered(bs, sc.id)
    BY <1>2, <2>3 DEF Numbered
  <2> HIDE DEF t
  <2> QED
    BY <2>1, <2>4, <2>5, Zenon DEF ScreenOK
<1>6. ASSUME n > 0 PROVE current = sc.blocks[n] /\ current \in ScreenBlocks
  BY <1>2, <1>6 DEF Last
<1>7. ASSUME sc.id > 0, w \in Words PROVE ScreenOK(started) /\ ScreenOK(exited)
  <2>1. n > 0
    BY <1>2, <1>7
  <2> DEFINE c == [current EXCEPT !.command = w]
             e == [current EXCEPT !.exit = w]
  <2>2. c \in ScreenBlocks /\ c.id = sc.blocks[n].id /\ e \in ScreenBlocks /\ e.id = sc.blocks[n].id
    <3>1. current \in ScreenBlocks /\ current = sc.blocks[n]
      BY <1>6, <2>1
    <3> HIDE DEF current
    <3> QED
      BY <1>7, <3>1 DEF ScreenBlocks
  <2> HIDE DEF c, e, n
  <2>3. ScreenOK(InBlock(sc, c)) /\ ScreenOK(InBlock(sc, e))
    BY <1>5, <2>1, <2>2
  <2> QED
    BY <2>3 DEF c, e
<1>8. ScreenOK(mark)
  <2> DEFINE new == [id |-> sc.id + 1, at |-> Len(sc.bytes), directory |-> sc.directory,
                     command |-> "none", exit |-> "none"]
             long == Append(sc.blocks, new)
             bs == NewestBlocks(long)
             id == sc.id + 1
             t == [sc EXCEPT !.id = id, !.blocks = bs]
  <2>1. mark = t
    BY Zenon DEF mark_command_block_start
  <2>2. new \in ScreenBlocks /\ new.id = id /\ id \in Nat /\ id > 0
    <3>1. Len(sc.bytes) \in Nat
      BY <1>2 DEF Stream
    <3> QED
      BY <1>0, <1>2, <3>1 DEF ScreenBlocks
  <2> HIDE DEF new
  <2>3. /\ long \in Seq(ScreenBlocks) /\ Len(long) = n + 1
        /\ \A i \in 1 .. n + 1 : long[i].id = id - (n + 1) + i
    <3>1. /\ long \in Seq(ScreenBlocks) /\ Len(long) = n + 1 /\ long[n + 1] = new
          /\ \A i \in 1 .. n : long[i] = sc.blocks[i]
      BY <1>2, <2>2
    <3>2. \A i \in 1 .. n : sc.blocks[i].id = sc.id - n + i
      BY <1>2 DEF Numbered
    <3> HIDE DEF long, n
    <3>3. \A i \in 1 .. n : long[i].id = id - (n + 1) + i
      <4> TAKE i \in 1 .. n
      <4>1. long[i].id = sc.id - n + i
        BY <3>1, <3>2
      <4> QED
        BY <1>2, <4>1
    <3>4. long[n + 1].id = id - (n + 1) + (n + 1)
      BY <1>2, <2>2, <3>1
    <3>5. \A i \in 1 .. n + 1 : i = n + 1 \/ i \in 1 .. n
      BY <1>2
    <3> QED
      BY <3>1, <3>3, <3>4, <3>5
  <2>4. bs \in Seq(ScreenBlocks) /\ Numbered(bs, id)
    <3>1. n <= MaxBlocks /\ MaxBlocks \in Nat /\ MaxBlocks > 0
      BY <1>2, OutputAssumption DEF Numbered
    <3> HIDE DEF long, n
    <3>2. CASE n + 1 > MaxBlocks
      <4>1. bs = Tail(long)
        BY <2>3, <3>2 DEF NewestBlocks
      <4>2. /\ bs \in Seq(ScreenBlocks) /\ Len(bs) = n
            /\ \A i \in 1 .. n : bs[i] = long[i + 1]
        BY <1>2, <2>3, <4>1
      <4> HIDE DEF bs
      <4>3. \A i \in 1 .. n : bs[i].id = id - n + i
        <5> TAKE i \in 1 .. n
        <5>1. i + 1 \in 1 .. n + 1
          BY <1>2
        <5>2. bs[i].id = id - (n + 1) + (i + 1)
          BY <2>3, <4>2, <5>1
        <5>3. id - (n + 1) + (i + 1) = id - n + i
          <6>1. id \in Int /\ n \in Int /\ i \in Int
            BY <1>2, <2>2
          <6> QED
            BY <6>1, Renumber, Zenon
        <5> QED
          BY <5>2, <5>3
      <4> QED
        BY <1>2, <3>1, <3>2, <4>2, <4>3 DEF Numbered
    <3>3. CASE ~ (n + 1 > MaxBlocks)
      <4>1. bs = long
        BY <2>3, <3>3 DEF NewestBlocks
      <4> HIDE DEF bs
      <4> QED
        BY <1>2, <2>3, <3>1, <3>3, <4>1 DEF Numbered
    <3> QED
      BY <3>2, <3>3
  <2> HIDE DEF bs, id
  <2>5. t \in Screens /\ t.blocks = bs /\ t.id = id
    BY <1>2, <2>2, <2>4 DEF Screens
  <2> HIDE DEF t
  <2> QED
    BY <2>1, <2>4, <2>5, Zenon DEF ScreenOK
<1> HIDE DEF dir, started, exited, mark
<1>9. handle_shell_integration_osc(sc, payload) \in {mark, sc} \/ w \in Words
  BY <1>3, Zenon DEF handle_shell_integration_osc, mark
<1>10. handle_shell_integration_osc(sc, payload) \in {dir, mark, sc} \/ sc.id > 0
  BY Zenon DEF handle_shell_integration_osc, mark, dir
<1> QED
  BY <1>1, <1>4, <1>7, <1>8, <1>9, <1>10, Zenon

LEMMA PieceKeeps ==
  ASSUME NEW sc, ScreenOK(sc), NEW p \in ShownPieces
  PROVE  ScreenOK(ShownPiece(sc, p))
<1> DEFINE t == advance_terminal_bytes(sc, p.bytes)
<1>1. p.bytes \in Stream /\ p.payload \in Stream
  BY DEF ShownPieces
<1>2. ScreenOK(t)
  BY <1>1, AdvanceFields, Zenon
<1> HIDE DEF t
<1>3. ScreenOK(handle_shell_integration_osc(t, p.payload))
  BY <1>1, <1>2, ShellKeeps
<1> QED
  BY <1>2, <1>3, Zenon DEF ShownPiece, t

-----------------------------------------------------------------------------
(* The screen after some pieces.                                           *)

Shows(g, sc, ps, n) ==
  g = [i \in 0 .. n |-> IF i = 0 THEN sc ELSE ShownPiece(g[i - 1], ps[i])]

LEMMA ShowsAt ==
  ASSUME NEW g, NEW sc, NEW ps, NEW n \in Nat, Shows(g, sc, ps, n)
  PROVE  g[0] = sc /\ \A i \in 0 .. n : i # 0 => g[i] = ShownPiece(g[i - 1], ps[i])
<1> DEFINE e(i) == IF i = 0 THEN sc ELSE ShownPiece(g[i - 1], ps[i])
<1>1. g = [i \in 0 .. n |-> e(i)]
  BY DEF Shows
<1> HIDE DEF e
<1>2. \A i \in 0 .. n : g[i] = e(i)
  BY <1>1
<1>3. 0 \in 0 .. n
  OBVIOUS
<1> QED
  BY <1>2, <1>3, Zenon DEF e

LEMMA ShowsIs ==
  ASSUME NEW g, NEW sc, NEW ps, NEW n \in Nat, g = [i \in 0 .. n |-> g[i]], g[0] = sc,
         \A i \in 1 .. n : g[i] = ShownPiece(g[i - 1], ps[i])
  PROVE  Shows(g, sc, ps, n)
<1> DEFINE e(i) == IF i = 0 THEN sc ELSE ShownPiece(g[i - 1], ps[i])
<1>1. \A i \in 0 .. n : i = 0 \/ i \in 1 .. n
  OBVIOUS
<1>2. \A i \in 0 .. n : g[i] = e(i)
  <2> TAKE i \in 0 .. n
  <2>1. CASE i = 0
    BY <2>1
  <2>2. CASE i # 0
    BY <1>1, <2>2, Zenon
  <2> QED
    BY <2>1, <2>2
<1> HIDE DEF e
<1>3. g = [i \in 0 .. n |-> e(i)]
  BY <1>2, Zenon
<1> QED
  BY <1>3 DEF Shows, e

LEMMA ShowsExist ==
  ASSUME NEW sc, NEW ps, NEW n \in Nat
  PROVE  \E g : Shows(g, sc, ps, n)
<1> DEFINE A == {m \in Nat : \E g : Shows(g, sc, ps, m)}
<1>1. 0 \in A
  <2> DEFINE g == [i \in 0 .. 0 |-> sc]
  <2>1. g = [i \in 0 .. 0 |-> g[i]] /\ g[0] = sc
    OBVIOUS
  <2>2. \A i \in 1 .. 0 : g[i] = ShownPiece(g[i - 1], ps[i])
    OBVIOUS
  <2> HIDE DEF g
  <2>3. Shows(g, sc, ps, 0)
    BY <2>1, <2>2, ShowsIs
  <2> QED
    BY <2>3
<1>2. ASSUME NEW m \in Nat, m \in A PROVE m + 1 \in A
  <2>1. PICK g : Shows(g, sc, ps, m)
    BY <1>2
  <2> DEFINE h == [i \in 0 .. m + 1 |-> IF i = m + 1 THEN ShownPiece(g[m], ps[m + 1]) ELSE g[i]]
  <2>2. \A i \in 0 .. m : h[i] = g[i]
    OBVIOUS
  <2>3. g[0] = sc /\ \A i \in 0 .. m : i # 0 => g[i] = ShownPiece(g[i - 1], ps[i])
    BY <2>1, ShowsAt
  <2>4. h = [i \in 0 .. m + 1 |-> h[i]] /\ h[m + 1] = ShownPiece(g[m], ps[m + 1])
    OBVIOUS
  <2> HIDE DEF h
  <2>5. h[0] = sc
    BY <2>2, <2>3
  <2>6. \A i \in 1 .. m + 1 : h[i] = ShownPiece(h[i - 1], ps[i])
    <3> TAKE i \in 1 .. m + 1
    <3>1. CASE i = m + 1
      <4>1. i - 1 = m /\ m \in 0 .. m
        BY <3>1
      <4> QED
        BY <2>2, <2>4, <3>1, <4>1
    <3>2. CASE i # m + 1
      <4>1. i \in 0 .. m /\ i - 1 \in 0 .. m /\ i # 0
        BY <3>2
      <4> QED
        BY <2>2, <2>3, <4>1
    <3> QED
      BY <3>1, <3>2
  <2>7. Shows(h, sc, ps, m + 1)
    <3>1. m + 1 \in Nat
      OBVIOUS
    <3> QED
      BY <2>4, <2>5, <2>6, <3>1, ShowsIs
  <2> QED
    BY <2>7
<1> HIDE DEF A
<1>3. n \in A
  BY <1>1, <1>2, SetInduction
<1> QED
  BY <1>3 DEF A

LEMMA ShowsAgree ==
  ASSUME NEW sc, NEW ps, NEW n \in Nat, NEW g, NEW h, Shows(g, sc, ps, n), Shows(h, sc, ps, n)
  PROVE  g[n] = h[n]
<1> DEFINE A == {i \in Nat : i <= n => g[i] = h[i]}
<1>1. /\ g[0] = sc /\ \A i \in 0 .. n : i # 0 => g[i] = ShownPiece(g[i - 1], ps[i])
      /\ h[0] = sc /\ \A i \in 0 .. n : i # 0 => h[i] = ShownPiece(h[i - 1], ps[i])
  BY ShowsAt
<1>2. 0 \in A
  BY <1>1
<1>3. ASSUME NEW i \in Nat, i \in A PROVE i + 1 \in A
  <2> SUFFICES ASSUME i + 1 <= n PROVE g[i + 1] = h[i + 1]
    OBVIOUS
  <2>1. i + 1 \in 0 .. n /\ i + 1 # 0 /\ (i + 1) - 1 = i
    OBVIOUS
  <2>2. g[i] = h[i]
    BY <1>3
  <2>3. g[i + 1] = ShownPiece(g[i], ps[i + 1]) /\ h[i + 1] = ShownPiece(h[i], ps[i + 1])
    BY <1>1, <2>1
  <2> QED
    BY <2>2, <2>3
<1> HIDE DEF A
<1>4. n \in A
  BY <1>2, <1>3, SetInduction
<1> QED
  BY <1>4 DEF A

LEMMA ShownIs ==
  ASSUME NEW sc, NEW ps, NEW n \in Nat, Len(ps) = n, NEW g, Shows(g, sc, ps, n)
  PROVE  Shown(sc, ps) = g[n]
<1> DEFINE f == CHOOSE f : Shows(f, sc, ps, n)
<1>1. Shows(f, sc, ps, n)
  BY Zenon
<1>2. Shown(sc, ps) = f[n]
  BY Zenon DEF Shown, Shows
<1> HIDE DEF f
<1> QED
  BY <1>1, <1>2, ShowsAgree

LEMMA ShownNothing ==
  ASSUME NEW sc
  PROVE  Shown(sc, <<>>) = sc
<1>1. PICK g : Shows(g, sc, <<>>, 0)
  BY ShowsExist
<1>2. Shown(sc, <<>>) = g[0] /\ g[0] = sc
  <2>1. Len(<<>>) = 0 /\ 0 \in Nat
    OBVIOUS
  <2> QED
    BY <1>1, <2>1, ShownIs, ShowsAt
<1> QED
  BY <1>2

LEMMA ShownFirst ==
  ASSUME NEW sc, NEW S, NEW p \in S, NEW ps \in Seq(S)
  PROVE  Shown(sc, <<p>> \o ps) = Shown(ShownPiece(sc, p), ps)
<1> DEFINE n == Len(ps)
           t == ShownPiece(sc, p)
           qs == <<p>> \o ps
<1>1. n \in Nat /\ n + 1 \in Nat /\ Len(qs) = n + 1 /\ qs[1] = p /\ \A i \in 1 .. n : qs[i + 1] = ps[i]
  OBVIOUS
<1>1a. Len(ps) = n
  OBVIOUS
<1> HIDE DEF n, t, qs
<1>2. PICK g : Shows(g, t, ps, n)
  BY <1>1, ShowsExist
<1>3. g[0] = t /\ \A i \in 0 .. n : i # 0 => g[i] = ShownPiece(g[i - 1], ps[i])
  BY <1>1, <1>2, ShowsAt
<1> DEFINE h == [i \in 0 .. n + 1 |-> IF i = 0 THEN sc ELSE g[i - 1]]
<1>4. /\ h = [i \in 0 .. n + 1 |-> h[i]]
      /\ \A i \in 0 .. n + 1 : h[i] = IF i = 0 THEN sc ELSE g[i - 1]
  OBVIOUS
<1> HIDE DEF h
<1>5. h[0] = sc
  BY <1>1, <1>4
<1>6. \A i \in 1 .. n + 1 : h[i] = ShownPiece(h[i - 1], qs[i])
  <2> TAKE i \in 1 .. n + 1
  <2>1. i \in 0 .. n + 1 /\ i # 0 /\ i - 1 \in 0 .. n + 1
    BY <1>1
  <2>2. h[i] = g[i - 1] /\ h[i - 1] = IF i - 1 = 0 THEN sc ELSE g[i - 1 - 1]
    BY <1>4, <2>1
  <2>3. CASE i = 1
    <3>1. h[i] = t /\ h[i - 1] = sc /\ qs[i] = p
      BY <1>1, <1>3, <2>2, <2>3
    <3> QED
      BY <3>1, Zenon DEF t
  <2>4. CASE i # 1
    <3>1. i - 1 \in 0 .. n /\ i - 1 # 0 /\ i - 1 \in 1 .. n /\ (i - 1) + 1 = i
      BY <1>1, <2>4
    <3>2. g[i - 1] = ShownPiece(g[i - 1 - 1], ps[i - 1])
      BY <1>3, <3>1
    <3>3. qs[i] = ps[i - 1]
      BY <1>1, <3>1
    <3> QED
      BY <2>2, <3>1, <3>2, <3>3
  <2> QED
    BY <2>3, <2>4
<1>7. Shows(h, sc, qs, n + 1)
  BY <1>1, <1>4, <1>5, <1>6, ShowsIs
<1>8. Shown(sc, qs) = h[n + 1]
  BY <1>1, <1>7, ShownIs
<1>9. Shown(t, ps) = g[n]
  BY <1>1, <1>1a, <1>2, ShownIs
<1>10. h[n + 1] = g[n]
  <2>1. n + 1 \in 0 .. n + 1 /\ n + 1 # 0 /\ (n + 1) - 1 = n
    BY <1>1
  <2> QED
    BY <1>4, <2>1
<1> QED
  BY <1>8, <1>9, <1>10 DEF t, qs

-----------------------------------------------------------------------------
(* What a stream is cut into, shown on a screen.                           *)

ShownOf(sc, s) == Shown(sc, Cut[s].pieces)
RestOf(s) == Cut[s].rest

LEMMA ShownHead ==
  ASSUME NEW sc, NEW p \in ShownPieces, NEW ps \in Seq(ShownPieces)
  PROVE  Shown(sc, <<p>> \o ps) = Shown(ShownPiece(sc, p), ps)
BY ShownFirst

\* A turn takes a piece.
LEMMA TakesType ==
  ASSUME NEW s \in Stream, ~ Stops(s)
  PROVE  /\ Takes(s) \in ShownPieces
         /\ FindBytes(s, Opening) > 0 =>
              Takes(s) = Text(SubSeq(s, 1, FindBytes(s, Opening)))
<1>1. \A i \in 0 .. Len(s) : SubSeq(s, 1, i) \in Stream
  BY FromIs DEF Stream
<1>2. \A i, j \in Nat : i <= j /\ j <= Len(s) => SubSeq(s, 3, i) \in Stream
  BY DEF Stream
<1>3. <<>> \in Stream
  BY DEF Stream
<1>4. \A x \in Stream : Text(x) \in ShownPieces
  BY <1>3 DEF Text, ShownPieces
<1> DEFINE start == FindBytes(s, Opening)
<1>5. start \in Int /\ start >= -1 /\ (start # -1 => start \in 0 .. Len(s)) /\ Len(s) \in Nat
  BY FindMarks
<1>6. CASE start = 0
  <2> DEFINE a == Terminator(s)[1]
             n == Terminator(s)[2]
  <2>1. a \in 2 .. Len(s) /\ n \in {1, 2} /\ a + n \in 3 .. Len(s)
    BY <1>6, TerminatorIs DEF Stops
  <2>2. Takes(s) = Osc(s, a, n)
    BY <1>6 DEF Takes
  <2> HIDE DEF a, n
  <2>3. SubSeq(s, 1, a + n) \in Stream /\ SubSeq(s, 3, a) \in Stream
    <3>1. a + n \in 0 .. Len(s) /\ a \in Nat /\ a <= Len(s)
      BY <1>5, <2>1
    <3> QED
      BY <1>1, <1>2, <3>1
  <2>4. Osc(s, a, n) \in ShownPieces
    BY <2>3 DEF Osc, ShownPieces
  <2> QED
    BY <1>6, <2>2, <2>4
<1>7. CASE start # 0
  <2>1. start \in 0 .. Len(s)
    BY <1>5 DEF Stops
  <2>2. Takes(s) = Text(SubSeq(s, 1, start))
    BY <1>7 DEF Takes
  <2> HIDE DEF start
  <2>3. Takes(s) \in ShownPieces
    BY <1>1, <1>4, <2>1, <2>2
  <2> QED
    BY <2>2, <2>3 DEF start
<1> QED
  BY <1>6, <1>7

LEMMA CutType ==
  ASSUME NEW s \in Stream
  PROVE  Cut[s] \in [pieces : Seq(ShownPieces), rest : Stream]
<1> DEFINE C == [pieces : Seq(ShownPieces), rest : Stream]
           A == {n \in Nat : \A t \in Stream : Len(t) <= n => Cut[t] \in C}
<1>0. \A t \in Stream : Len(t) \in Nat
  BY DEF Stream
<1>1. ASSUME NEW t \in Stream, \A u \in Stream : Len(u) < Len(t) => Cut[u] \in C
      PROVE  Cut[t] \in C
  <2>0. Cut[t] = CutFirst(Cut, t)
    BY CutIs
  <2>1. CASE FindBytes(t, Opening) = -1
    <3> DEFINE x == SubSeq(t, 1, Len(t) - Retained(t))
               y == From(t, Len(t) - Retained(t))
               ps == IF Len(t) = Retained(t) THEN <<>> ELSE <<Text(x)>>
    <3>1. x \in Stream /\ y \in Stream /\ <<>> \in Stream
      <4>1. Len(t) - Retained(t) \in 0 .. Len(t)
        BY KeepsAre
      <4> QED
        BY <4>1, FromIs DEF Stream
    <3>2. Cut[t] = [pieces |-> ps, rest |-> y]
      BY <2>0, <2>1, TurnIs DEF Stops
    <3> HIDE DEF x, y
    <3>3. ps \in Seq(ShownPieces)
      <4>1. Text(x) \in ShownPieces
        BY <3>1 DEF Text, ShownPieces
      <4> QED
        BY <4>1
    <3> HIDE DEF ps
    <3> QED
      BY <3>1, <3>2, <3>3
  <2>2. CASE Stops(t) /\ FindBytes(t, Opening) = 0
    <3>1. Cut[t] = [pieces |-> <<>>, rest |-> t]
      BY <2>0, <2>2, TurnIs
    <3> QED
      BY <3>1
  <2>3. CASE ~ Stops(t)
    <3> DEFINE u == From(t, Goes(t))
               p == Takes(t)
    <3>1. u \in Stream /\ Len(u) < Len(t) /\ Cut[t] = [Cut[u] EXCEPT !.pieces = <<p>> \o @]
      BY <2>0, <2>3, TurnIs, Zenon
    <3>2. p \in ShownPieces
      BY <2>3, TakesType
    <3> HIDE DEF u, p
    <3>3. Cut[u] \in C
      BY <1>1, <3>1
    <3> DEFINE c == Cut[u]
               qs == <<p>> \o c.pieces
               d == [c EXCEPT !.pieces = qs]
    <3>4. c.pieces \in Seq(ShownPieces)
      BY <3>3
    <3>5. qs \in Seq(ShownPieces)
      BY <3>2, <3>4
    <3>6. Cut[t] = d
      BY <3>1, Zenon
    <3> HIDE DEF qs
    <3>7. d \in C
      BY <3>3, <3>5
    <3> QED
      BY <3>6, <3>7, Zenon
  <2>4. Stops(t) => FindBytes(t, Opening) = -1 \/ FindBytes(t, Opening) = 0
    BY DEF Stops
  <2> HIDE DEF C
  <2> QED
    BY <2>1, <2>2, <2>3, <2>4, Zenon
<1>2. 0 \in A
  <2> SUFFICES ASSUME NEW t \in Stream, Len(t) <= 0 PROVE Cut[t] \in C
    OBVIOUS
  <2>1. \A u \in Stream : ~ (Len(u) < Len(t))
    BY <1>0
  <2> QED
    BY <1>1, <2>1
<1>3. ASSUME NEW n \in Nat, n \in A PROVE n + 1 \in A
  <2> SUFFICES ASSUME NEW t \in Stream, Len(t) <= n + 1 PROVE Cut[t] \in C
    OBVIOUS
  <2>1. \A u \in Stream : Len(u) < Len(t) => Len(u) <= n
    BY <1>0
  <2> QED
    BY <1>1, <1>3, <2>1
<1>4. \A n \in Nat : n \in A
  <2> HIDE DEF A
  <2> QED
    BY <1>2, <1>3, SetInduction
<1> QED
  BY <1>0, <1>4

\* The turn that leaves a start without its end.
LEMMA WaitsForEnd ==
  ASSUME NEW s \in Stream, NEW sc, Stops(s), FindBytes(s, Opening) = 0
  PROVE  RestOf(s) = s /\ ShownOf(sc, s) = sc
<1>1. Cut[s] = [pieces |-> <<>>, rest |-> s]
  BY CutIs, TurnIs
<1>2. Cut[s].pieces = <<>> /\ Cut[s].rest = s
  BY <1>1
<1> QED
  BY <1>2, ShownNothing, Zenon DEF RestOf, ShownOf

\* Text alone: all of it is shown, except an escape at its end.
LEMMA TextAlone ==
  ASSUME NEW s \in Stream, NEW sc, ScreenOK(sc), FindBytes(s, Opening) = -1
  PROVE  LET n == Len(s) - Retained(s) IN
         /\ RestOf(s) = From(s, n)
         /\ ShownOf(sc, s) = advance_terminal_bytes(sc, SubSeq(s, 1, n))
<1> DEFINE n == Len(s) - Retained(s)
           x == SubSeq(s, 1, n)
           y == From(s, n)
           ps == IF Len(s) = Retained(s) THEN <<>> ELSE <<Text(x)>>
<1>1. Cut[s] = [pieces |-> ps, rest |-> y]
  BY CutIs, TurnIs DEF Stops
<1>2. Len(s) \in Nat /\ Retained(s) \in {0, 1} /\ n \in 0 .. Len(s)
  BY KeepsAre DEF Stream
<1>3. x \in Stream /\ Len(x) = n
  BY <1>2, FromIs DEF Stream
<1>4. CASE Len(s) = Retained(s)
  <2>1. Cut[s].pieces = <<>> /\ Cut[s].rest = y
    BY <1>1, <1>4
  <2>2. x = <<>>
    <3>1. n = 0
      BY <1>2, <1>4
    <3> HIDE DEF n
    <3> QED
      BY <3>1
  <2> HIDE DEF n, x, y, ps
  <2>3. Shown(sc, <<>>) = advance_terminal_bytes(sc, x)
    BY <2>2, AdvanceNot, ShownNothing, Zenon
  <2> QED
    BY <2>1, <2>3, Zenon DEF RestOf, ShownOf, n, x, y
<1>5. CASE Len(s) # Retained(s)
  <2>1. Cut[s].pieces = <<Text(x)>> /\ Cut[s].rest = y
    BY <1>1, <1>5
  <2> HIDE DEF n, x, y, ps
  <2>2. Text(x) \in ShownPieces /\ <<Text(x)>> = <<Text(x)>> \o <<>> /\ <<>> \in Seq(ShownPieces)
    <3>1. <<>> \in Stream
      BY DEF Stream
    <3>2. Text(x) \in ShownPieces
      BY <1>3, <3>1 DEF Text, ShownPieces
    <3> QED
      BY <3>2
  <2>3. Shown(sc, <<Text(x)>> \o <<>>) = ShownPiece(sc, Text(x))
    BY <2>2, ShownHead, ShownNothing, Zenon
  <2>4. ShownPiece(sc, Text(x)) = advance_terminal_bytes(sc, x)
    <3>1. Text(x).bytes = x /\ Text(x).payload = <<>>
      BY DEF Text
    <3> QED
      BY <3>1, Zenon DEF ShownPiece
  <2> QED
    BY <2>1, <2>2, <2>3, <2>4, Zenon DEF RestOf, ShownOf, n, x, y
<1> QED
  BY <1>4, <1>5

\* The turn that takes a piece.
LEMMA TakesOne ==
  ASSUME NEW s \in Stream, NEW sc, ~ Stops(s)
  PROVE  /\ RestOf(s) = RestOf(From(s, Goes(s)))
         /\ ShownOf(sc, s) = ShownOf(ShownPiece(sc, Takes(s)), From(s, Goes(s)))
<1> DEFINE u == From(s, Goes(s))
           p == Takes(s)
<1>1. u \in Stream /\ Cut[s] = [Cut[u] EXCEPT !.pieces = <<p>> \o @]
  BY CutIs, TurnIs, Zenon
<1>2. p \in ShownPieces
  BY TakesType
<1>3. Cut[u] \in [pieces : Seq(ShownPieces), rest : Stream]
  BY <1>1, CutType, Zenon
<1> HIDE DEF u, p
<1>4. /\ Cut[s].rest = Cut[u].rest /\ Cut[s].pieces = <<p>> \o Cut[u].pieces
      /\ Cut[u].pieces \in Seq(ShownPieces)
  BY <1>1, <1>3
<1> QED
  BY <1>2, <1>4, ShownHead, Zenon DEF RestOf, ShownOf, u, p

LEMMA ShownKeeps ==
  ASSUME NEW s \in Stream, NEW sc, ScreenOK(sc)
  PROVE  ScreenOK(ShownOf(sc, s))
<1> DEFINE A == {n \in Nat : \A ps \in Seq(ShownPieces) : \A t :
                   Len(ps) = n /\ ScreenOK(t) => ScreenOK(Shown(t, ps))}
<1>1. 0 \in A
  <2>1. \A ps \in Seq(ShownPieces) : Len(ps) = 0 => ps = <<>>
    OBVIOUS
  <2>2. \A t : Shown(t, <<>>) = t
    BY ShownNothing
  <2> QED
    BY <2>1, <2>2
<1>2. ASSUME NEW n \in Nat, n \in A PROVE n + 1 \in A
  <2> SUFFICES ASSUME NEW ps \in Seq(ShownPieces), NEW t, Len(ps) = n + 1, ScreenOK(t)
               PROVE  ScreenOK(Shown(t, ps))
    OBVIOUS
  <2>1. /\ Head(ps) \in ShownPieces /\ Tail(ps) \in Seq(ShownPieces) /\ Len(Tail(ps)) = n
        /\ ps = <<Head(ps)>> \o Tail(ps)
    OBVIOUS
  <2>2. ScreenOK(ShownPiece(t, Head(ps)))
    BY <2>1, PieceKeeps, Zenon
  <2>3. ScreenOK(Shown(ShownPiece(t, Head(ps)), Tail(ps)))
    BY <1>2, <2>1, <2>2
  <2>4. Shown(t, <<Head(ps)>> \o Tail(ps)) = Shown(ShownPiece(t, Head(ps)), Tail(ps))
    BY <2>1, ShownHead, Zenon
  <2> QED
    BY <2>1, <2>3, <2>4, Zenon
<1>3. \A n \in Nat : n \in A
  <2> HIDE DEF A
  <2> QED
    BY <1>1, <1>2, SetInduction
<1>4. Cut[s].pieces \in Seq(ShownPieces) /\ Len(Cut[s].pieces) \in Nat
  <2>1. Cut[s] \in [pieces : Seq(ShownPieces), rest : Stream]
    BY CutType
  <2>2. Cut[s].pieces \in Seq(ShownPieces)
    BY <2>1
  <2> QED
    BY <2>2
<1> QED
  BY <1>3, <1>4 DEF ShownOf

LEMMA RestType ==
  ASSUME NEW s \in Stream
  PROVE  RestOf(s) \in Stream
<1>1. Cut[s] \in [pieces : Seq(ShownPieces), rest : Stream]
  BY CutType
<1> QED
  BY <1>1 DEF RestOf

-----------------------------------------------------------------------------
(* Two pieces of output.                                                   *)

LEMMA Joins ==
  ASSUME NEW s \in Stream, NEW v \in Stream
  PROVE  /\ s \o v \in Stream /\ Len(s \o v) = Len(s) + Len(v) /\ Len(s) \in Nat /\ Len(v) \in Nat
         /\ \A i \in 1 .. Len(s) : (s \o v)[i] = s[i]
         /\ \A i \in 1 .. Len(v) : (s \o v)[Len(s) + i] = v[i]
BY ConcatIs DEF Stream

LEMMA PartsOf ==
  ASSUME NEW s \in Stream, NEW i \in 0 .. Len(s)
  PROVE  /\ From(s, i) \in Stream /\ Len(From(s, i)) = Len(s) - i
         /\ \A k \in 1 .. Len(s) - i : From(s, i)[k] = s[i + k]
         /\ SubSeq(s, 1, i) \in Stream /\ Len(SubSeq(s, 1, i)) = i
         /\ \A k \in 1 .. i : SubSeq(s, 1, i)[k] = s[k]
         /\ s = SubSeq(s, 1, i) \o From(s, i)
         /\ From(s, 0) = s
BY FromIs DEF Stream

LEMMA FromConcat ==
  ASSUME NEW x \in Stream, NEW w \in Stream, NEW i \in 0 .. Len(w)
  PROVE  /\ From(x \o w, Len(x) + i) = From(w, i)
         /\ SubSeq(x \o w, 1, Len(x) + i) = x \o SubSeq(w, 1, i)
<1> DEFINE u == x \o w
           l == Len(x)
           m == Len(w)
           a == From(u, l + i)
           b == From(w, i)
           c == SubSeq(u, 1, l + i)
           d == SubSeq(w, 1, i)
<1>1. /\ u \in Stream /\ Len(u) = l + m /\ l \in Nat /\ m \in Nat
      /\ \A k \in 1 .. l : u[k] = x[k]
      /\ \A k \in 1 .. m : u[l + k] = w[k]
  BY ConcatIs DEF Stream
<1>2. l + i \in 0 .. Len(u) /\ i \in 0 .. m /\ Len(u) - (l + i) = m - i
  BY <1>1
<1> HIDE DEF u, l, m
<1>3. /\ b \in Stream /\ Len(b) = m - i
      /\ \A k \in 1 .. m - i : b[k] = w[i + k]
      /\ d \in Stream /\ Len(d) = i
      /\ \A k \in 1 .. i : d[k] = w[k]
  BY <1>2, FromIs DEF Stream, m
<1>4. /\ a \in Stream /\ Len(a) = m - i
      /\ \A k \in 1 .. m - i : a[k] = u[l + i + k]
      /\ c \in Stream /\ Len(c) = l + i
      /\ \A k \in 1 .. l + i : c[k] = u[k]
  <2>1. /\ a \in Stream /\ Len(a) = Len(u) - (l + i)
        /\ \A k \in 1 .. Len(u) - (l + i) : a[k] = u[l + i + k]
        /\ c \in Stream /\ Len(c) = l + i
        /\ \A k \in 1 .. l + i : c[k] = u[k]
    BY <1>1, <1>2, PartsOf
  <2> HIDE DEF a, c
  <2> QED
    BY <1>2, <2>1, Zenon
<1> HIDE DEF a, b, c, d
<1>5. a = b
  <2>1. \A k \in 1 .. m - i : i + k \in 1 .. m /\ l + i + k = l + (i + k)
    BY <1>1, <1>2
  <2>2. \A k \in 1 .. m - i : a[k] = b[k]
    BY <1>1, <1>3, <1>4, <2>1
  <2> QED
    BY <1>3, <1>4, <2>2, SeqEqual DEF Stream
<1>6. c = x \o d
  <2> DEFINE e == x \o d
  <2>1. /\ e \in Stream /\ Len(e) = l + i
        /\ \A k \in 1 .. l : e[k] = x[k]
        /\ \A k \in 1 .. i : e[l + k] = d[k]
    <3>1. /\ e \in Stream /\ Len(e) = Len(x) + Len(d)
          /\ \A k \in 1 .. Len(x) : e[k] = x[k]
          /\ \A k \in 1 .. Len(d) : e[Len(x) + k] = d[k]
      BY <1>3, Joins, Zenon
    <3>2. Len(x) = l
      BY DEF l
    <3> HIDE DEF e
    <3> QED
      BY <1>3, <3>1, <3>2, Zenon
  <2> HIDE DEF e
  <2>2. \A k \in 1 .. l + i : c[k] = e[k]
    <3> TAKE k \in 1 .. l + i
    <3>1. CASE k \in 1 .. l
      BY <1>1, <1>4, <2>1, <3>1
    <3>2. CASE k \notin 1 .. l
      <4> DEFINE j == k - l
      <4>1. j \in 1 .. i /\ j \in 1 .. m /\ k = l + j
        BY <1>1, <1>2, <3>2
      <4> HIDE DEF j
      <4> QED
        <5>1. c[k] = u[l + j] /\ u[l + j] = w[j]
          BY <1>1, <1>4, <4>1
        <5>2. d[j] = w[j] /\ e[l + j] = d[j]
          BY <1>3, <2>1, <4>1
        <5> QED
          BY <4>1, <5>1, <5>2
    <3> QED
      BY <3>1, <3>2
  <2> QED
    BY <1>4, <2>1, <2>2, SeqEqual DEF Stream, e
<1> QED
  BY <1>5, <1>6 DEF a, b, c, d, u, l

\* What is found only with the bytes after s reaches into them.
LEMMA FindLater ==
  ASSUME NEW s \in Stream, NEW v \in Stream, NEW p \in Stream, FindBytes(s, p) = -1,
         FindBytes(s \o v, p) # -1
  PROVE  FindBytes(s \o v, p) \in Nat /\ FindBytes(s \o v, p) + Len(p) > Len(s)
<1> DEFINE u == s \o v
           f == FindBytes(u, p)
<1>1. u \in Stream /\ Len(s) \in Nat /\ Len(p) \in Nat
  BY Joins DEF Stream
<1>2. FoundAt(u, p, f) /\ FoundAt(s, p, -1)
  BY <1>1, FindIs
<1> HIDE DEF u, f
<1>3. Occurs(u, p, f) /\ f \in Nat /\ \A i \in Nat : ~ Occurs(s, p, i)
  <2>1. f # -1 /\ ~ Occurs(s, p, -1)
    BY DEF f, u, Occurs
  <2> QED
    BY <1>2, <2>1 DEF FoundAt, Occurs
<1>4. f + Len(p) <= Len(s) => FALSE
  <2>1. f + Len(p) <= Len(s) => (Occurs(u, p, f) <=> Occurs(s, p, f))
    BY <1>3, OccursInConcat DEF u
  <2> QED
    BY <1>3, <2>1
<1> QED
  BY <1>1, <1>3, <1>4 DEF u, f

\* Bytes after the end of the piece do not change it.
LEMMA TakesFirst ==
  ASSUME NEW s \in Stream, NEW v \in Stream, ~ Stops(s)
  PROVE  /\ ~ Stops(s \o v) /\ Goes(s \o v) = Goes(s) /\ Takes(s \o v) = Takes(s)
         /\ From(s \o v, Goes(s)) = From(s, Goes(s)) \o v
<1> DEFINE u == s \o v
           start == FindBytes(s, Opening)
           e == Terminator(s)
           n == Goes(s)
<1>1. u \in Stream /\ Len(s) \in Nat /\ Len(v) \in Nat /\ Len(u) = Len(s) + Len(v)
  BY ConcatIs DEF Stream
<1>2. start # -1 /\ (start = 0 => e[1] # -1)
  BY DEF Stops
<1>3. FindBytes(u, Opening) = start
  BY <1>2, MarksAre, FindKeeps
<1>4. n \in 1 .. Len(s)
  BY TurnIs
<1>5. start \in 0 .. Len(s)
  BY <1>2, FindMarks
<1>6. \A i, j \in Nat : i >= 1 /\ j <= Len(s) => SubSeq(u, i, j) = SubSeq(s, i, j)
  <2> TAKE i, j \in Nat
  <2> HAVE i >= 1 /\ j <= Len(s)
  <2> DEFINE x == SubSeq(u, i, j)
             y == SubSeq(s, i, j)
  <2>1. /\ x \in Stream /\ y \in Stream /\ Len(x) = Len(y)
        /\ \A k \in 1 .. Len(y) : x[k] = u[i + k - 1] /\ y[k] = s[i + k - 1] /\ i + k - 1 \in 1 .. Len(s)
    <3> HIDE DEF u
    <3>1. Len(s) <= Len(u) /\ i \in Nat /\ j \in Nat /\ i >= 1 /\ j <= Len(s)
      BY <1>1
    <3>2. \A k \in i .. j : k \in 1 .. Len(s) /\ u[k] \in Bytes /\ s[k] \in Bytes
      BY <1>1, <3>1 DEF Stream
    <3>3. /\ x \in Seq(Bytes) /\ Len(x) = IF i <= j THEN j - i + 1 ELSE 0
          /\ \A k \in 1 .. j - i + 1 : x[k] = u[i + k - 1]
      BY <3>1, <3>2, SubSeqProperties
    <3>4. /\ y \in Seq(Bytes) /\ Len(y) = IF i <= j THEN j - i + 1 ELSE 0
          /\ \A k \in 1 .. j - i + 1 : y[k] = s[i + k - 1]
      BY <3>1, <3>2, SubSeqProperties
    <3> HIDE DEF x, y
    <3>5. ASSUME NEW k \in 1 .. Len(y)
          PROVE  k \in 1 .. j - i + 1 /\ i + k - 1 \in 1 .. Len(s)
      <4>1. Len(y) = IF i <= j THEN j - i + 1 ELSE 0
        BY <3>4
      <4> HIDE DEF start, e, n
      <4> QED
        BY <1>1, <3>1, <4>1
    <3>6. x \in Stream /\ y \in Stream /\ Len(x) = Len(y)
      BY <3>3, <3>4 DEF Stream
    <3>7. \A k \in 1 .. Len(y) : x[k] = u[i + k - 1] /\ y[k] = s[i + k - 1]
      BY <3>3, <3>4, <3>5, Zenon
    <3> QED
      BY <3>5, <3>6, <3>7, Zenon
  <2>2. \A k \in 1 .. Len(s) : u[k] = s[k]
    BY ConcatIs DEF Stream
  <2> HIDE DEF x, y, u
  <2>3. \A k \in 1 .. Len(y) : x[k] = y[k]
    BY <2>1, <2>2
  <2>4. x = y
    BY <2>1, <2>3, SeqEqual DEF Stream
  <2> QED
    BY <2>4 DEF x, y
<1>7. start = 0 => Terminator(u) = e
  <2> HAVE start = 0
  <2> DEFINE t == From(s, 2)
             w == From(u, 2)
  <2>1. Len(s) >= 2 /\ t \in Stream
    BY <1>5, TerminatorIs
  <2>2. w = t \o v
    <3>1. s = SubSeq(s, 1, 2) \o t /\ SubSeq(s, 1, 2) \in Stream /\ Len(SubSeq(s, 1, 2)) = 2
      <4>1. 2 \in 0 .. Len(s)
        BY <1>1, <2>1
      <4>2. /\ SubSeq(s, 1, 2) \in Stream /\ Len(SubSeq(s, 1, 2)) = 2
            /\ s = SubSeq(s, 1, 2) \o From(s, 2)
        BY <4>1, PartsOf
      <4> QED
        BY <4>2, Zenon
    <3> DEFINE x == SubSeq(s, 1, 2)
    <3>2. u = x \o (t \o v) /\ t \o v \in Stream
      <4>1. t \o v \in Stream
        BY <2>1, ConcatIs DEF Stream
      <4>2. (x \o t) \o v = x \o (t \o v)
        BY <2>1, <3>1, StreamsJoin
      <4> QED
        BY <3>1, <4>1, <4>2, Zenon
    <3> HIDE DEF x, t, u
    <3>3. From(x \o (t \o v), 2) = From(t \o v, 0)
      <4>1. 0 \in 0 .. Len(t \o v) /\ x \in Stream /\ Len(x) = 2 /\ Len(x) + 0 = 2
        BY <3>1, <3>2 DEF Stream, x
      <4>2. From(x \o (t \o v), Len(x) + 0) = From(t \o v, 0)
        BY <3>2, <4>1, FromConcat, Zenon
      <4> QED
        BY <4>1, <4>2
    <3>4. From(t \o v, 0) = t \o v
      <4>1. 0 \in 0 .. Len(t \o v)
        BY <3>2 DEF Stream
      <4> QED
        BY <3>2, <4>1, FromIs DEF Stream
    <3> QED
      BY <3>2, <3>3, <3>4
  <2>3. w \in Stream
    BY <2>1, <2>2, ConcatIs DEF Stream
  <2> DEFINE bell == FindBytes(t, Bell)
             string == FindBytes(t, Closing)
             bellAfter == FindBytes(w, Bell)
             stringAfter == FindBytes(w, Closing)
  <2>4. Bell \in Stream /\ Closing \in Stream /\ Len(Bell) = 1 /\ Len(Closing) = 2
        /\ Bell[1] = "bel" /\ Closing[1] = "esc"
    BY MarksAre DEF Bell, Closing
  <2>5. bell # -1 => bellAfter = bell
    <3>1. FindBytes(t, Bell) # -1 => FindBytes(t \o v, Bell) = FindBytes(t, Bell)
      <4> HIDE DEF t
      <4> QED
        BY <2>1, <2>4, FindKeeps
    <3> QED
      BY <2>2, <3>1, Zenon
  <2>6. string # -1 => stringAfter = string
    <3>1. FindBytes(t, Closing) # -1 => FindBytes(t \o v, Closing) = FindBytes(t, Closing)
      <4> HIDE DEF t
      <4> QED
        BY <2>1, <2>4, FindKeeps
    <3> QED
      BY <2>2, <3>1, Zenon
  <2>7. bell = -1 /\ bellAfter # -1 => bellAfter \in Nat /\ bellAfter + 1 > Len(t)
    BY <2>1, <2>2, <2>4, FindLater, Zenon
  <2>8. string = -1 /\ stringAfter # -1 => stringAfter \in Nat /\ stringAfter + 2 > Len(t)
    BY <2>1, <2>2, <2>4, FindLater, Zenon
  <2>9. /\ bell \in Int /\ bell >= -1 /\ string \in Int /\ string >= -1 /\ Len(t) \in Nat
        /\ (bell # -1 => bell \in Nat /\ bell + 1 <= Len(t))
        /\ (string # -1 => string \in Nat /\ string + 2 <= Len(t))
    BY <2>1, FindMarks
  <2>10. bell # -1 /\ string = -1 /\ stringAfter # -1 => stringAfter # bell
    <3> HAVE bell # -1 /\ string = -1 /\ stringAfter # -1
    <3>1. w[bell + 1] = "bel"
      <4>1. 1 \in 1 .. Len(Bell) /\ Len(Bell) > 0
        BY <2>4
      <4>2. w[bellAfter + 1] = Bell[1]
        BY <2>3, <2>4, <2>5, <4>1, FindRange
      <4> QED
        BY <2>4, <2>5, <4>2
    <3>2. w[stringAfter + 1] = "esc"
      <4>1. 1 \in 1 .. Len(Closing) /\ Len(Closing) > 0
        BY <2>4
      <4>2. w[stringAfter + 1] = Closing[1]
        BY <2>3, <2>4, <4>1, FindRange
      <4> QED
        BY <2>4, <4>2
    <3> QED
      BY <3>1, <3>2
  <2>11. Terminator(s) = CASE bell = -1 /\ string = -1 -> <<-1, 0>>
            [] bell # -1 /\ (string = -1 \/ bell < string) -> <<bell + 2, 1>>
            [] OTHER -> <<string + 2, 2>>
    BY DEF Terminator, Bell, Closing
  <2>12. Terminator(u) = CASE bellAfter = -1 /\ stringAfter = -1 -> <<-1, 0>>
            [] bellAfter # -1 /\ (stringAfter = -1 \/ bellAfter < stringAfter) -> <<bellAfter + 2, 1>>
            [] OTHER -> <<stringAfter + 2, 2>>
    BY DEF Terminator, Bell, Closing
  <2>13. bell # -1 \/ string # -1
    <3>1. bell = -1 /\ string = -1 => e[1] = -1
      BY <1>2, TerminatorIs
    <3> QED
      BY <1>2, <3>1
  <2> HIDE DEF bell, string, bellAfter, stringAfter, t, w, u
  <2>14. CASE bell # -1 /\ (string = -1 \/ bell < string)
    <3>1. bellAfter = bell /\ bellAfter # -1
      BY <2>5, <2>14
    <3>2. stringAfter = -1 \/ bellAfter < stringAfter
      BY <2>5, <2>6, <2>8, <2>9, <2>10, <2>14
    <3>3. Terminator(u) = <<bell + 2, 1>>
      BY <2>12, <3>1, <3>2
    <3>4. Terminator(s) = <<bell + 2, 1>>
      BY <2>11, <2>14
    <3> QED
      BY <3>3, <3>4
  <2>15. CASE ~ (bell # -1 /\ (string = -1 \/ bell < string))
    <3>1. string # -1 /\ stringAfter = string
      BY <2>6, <2>13, <2>15
    <3>2. ~ (bellAfter # -1 /\ (stringAfter = -1 \/ bellAfter < stringAfter))
      BY <2>5, <2>7, <2>9, <2>15, <3>1
    <3>3. Terminator(u) = <<string + 2, 2>>
      BY <2>12, <3>1, <3>2
    <3>4. Terminator(s) = <<string + 2, 2>>
      BY <2>11, <2>15, <3>1
    <3> QED
      BY <3>3, <3>4
  <2> QED
    BY <2>14, <2>15
<1>8. ~ Stops(u) /\ Goes(u) = n
  BY <1>2, <1>3, <1>7 DEF Stops, Goes
<1>9. Takes(u) = Takes(s)
  <2>1. CASE start = 0
    <3> DEFINE a == e[1]
               k == e[2]
    <3>1. Takes(u) = Osc(u, a, k) /\ Takes(s) = Osc(s, a, k)
      BY <1>3, <1>7, <2>1 DEF Takes
    <3>2. a \in 2 .. Len(s) /\ k \in {1, 2} /\ a + k \in 3 .. Len(s)
      BY <1>2, <2>1, TerminatorIs
    <3> HIDE DEF a, k, u, e
    <3>3. /\ 1 \in Nat /\ 3 \in Nat /\ a \in Nat /\ a + k \in Nat /\ a <= Len(s) /\ a + k <= Len(s)
          /\ 1 >= 1 /\ 3 >= 1
      BY <1>1, <3>2
    <3>4. SubSeq(u, 1, a + k) = SubSeq(s, 1, a + k) /\ SubSeq(u, 3, a) = SubSeq(s, 3, a)
      BY <1>6, <3>3, Zenon
    <3> QED
      BY <3>1, <3>4, Zenon DEF Osc
  <2>2. CASE start # 0
    <3>1. Takes(u) = Text(SubSeq(u, 1, start)) /\ Takes(s) = Text(SubSeq(s, 1, start))
      BY <1>3, <2>2 DEF Takes
    <3> HIDE DEF start, u
    <3>2. 1 \in Nat /\ 1 >= 1 /\ start \in Nat /\ start <= Len(s)
      BY <1>5
    <3>3. SubSeq(u, 1, start) = SubSeq(s, 1, start)
      BY <1>6, <3>2, Zenon
    <3> QED
      BY <3>1, <3>3, Zenon
  <2> QED
    BY <2>1, <2>2
<1>10. From(u, n) = From(s, n) \o v
  <2> DEFINE x == SubSeq(s, 1, n)
             y == From(s, n)
  <2>1. x \in Stream /\ Len(x) = n /\ y \in Stream /\ s = x \o y
    <3>1. n \in 0 .. Len(s)
      BY <1>4
    <3> QED
      BY <3>1, FromIs DEF Stream
  <2> HIDE DEF x, y, n
  <2>2. u = x \o (y \o v) /\ y \o v \in Stream
    <3>1. y \o v \in Stream
      BY <2>1, Joins, Zenon
    <3>2. (x \o y) \o v = x \o (y \o v)
      BY <2>1, StreamsJoin, Zenon
    <3> QED
      BY <2>1, <3>1, <3>2, Zenon
  <2>3. 0 \in 0 .. Len(y \o v) /\ Len(x) + 0 = n /\ n \in Nat
    BY <1>4, <2>1, <2>2 DEF Stream
  <2>4. From(x \o (y \o v), Len(x) + 0) = From(y \o v, 0)
    BY <2>1, <2>2, <2>3, FromConcat, Zenon
  <2>5. From(y \o v, 0) = y \o v
    BY <2>2, <2>3, FromIs DEF Stream
  <2> QED
    BY <2>2, <2>3, <2>4, <2>5 DEF y
<1> QED
  BY <1>8, <1>9, <1>10

LEMMA ShownText ==
  ASSUME NEW sc, NEW x
  PROVE  ShownPiece(sc, Text(x)) = advance_terminal_bytes(sc, x)
<1>1. Text(x).bytes = x /\ Text(x).payload = <<>>
  BY DEF Text
<1> QED
  BY <1>1, Zenon DEF ShownPiece

\* Text at the start may be shown on its own, when no command starts in it.
LEMMA TextFirst ==
  ASSUME NEW x \in Stream, NEW w \in Stream, NEW sc, ScreenOK(sc),
         \A i \in Nat : i < Len(x) => ~ Occurs(x \o w, Opening, i),
         w = <<>> => Retained(x) = 0
  PROVE  /\ RestOf(x \o w) = RestOf(w)
         /\ ShownOf(sc, x \o w) = ShownOf(advance_terminal_bytes(sc, x), w)
<1> DEFINE u == x \o w
           g == FindBytes(w, Opening)
           f == FindBytes(u, Opening)
           t == advance_terminal_bytes(sc, x)
           l == Len(x)
<1>1. /\ u \in Stream /\ Len(u) = l + Len(w) /\ l \in Nat /\ Len(w) \in Nat
      /\ \A i \in 1 .. Len(w) : u[l + i] = w[i]
  BY Joins
<1>2. f = IF g = -1 THEN -1 ELSE l + g
  BY FindSkips, MarksAre
<1>3. g \in Int /\ g >= -1 /\ (g # -1 => g \in 0 .. Len(w))
  BY FindMarks
<1>4. ScreenOK(t)
  BY AdvanceFields, Zenon
<1> DEFINE k == Len(w) - Retained(w)
<1>5. CASE g = -1
  <2>1. k \in 0 .. Len(w) /\ Retained(w) \in {0, 1}
    BY KeepsAre
  <2>2. Retained(u) = Retained(w)
    <3>1. CASE w = <<>>
      <4>1. u = x
        BY <3>1 DEF Stream
      <4>2. Retained(x) = 0 /\ Retained(w) = 0
        <5>1. Retained(<<>>) = 0
          BY DEF Retained, EscapeAtEnd
        <5> QED
          BY <3>1, <5>1
      <4> QED
        BY <4>1, <4>2, Zenon
    <3>2. CASE w # <<>>
      <4>1. Len(w) > 0
        BY <1>1, <3>2 DEF Stream
      <4>2. u[Len(u)] = w[Len(w)] /\ Len(u) > 0
        BY <1>1, <4>1
      <4> HIDE DEF u
      <4>3. /\ Retained(u) \in {0, 1} /\ (Retained(u) = 1 <=> Len(u) > 0 /\ u[Len(u)] = "esc")
            /\ Retained(w) \in {0, 1} /\ (Retained(w) = 1 <=> Len(w) > 0 /\ w[Len(w)] = "esc")
        BY <1>1, KeepsAre
      <4> QED
        BY <4>1, <4>2, <4>3
    <3> QED
      BY <3>1, <3>2
  <2>3. Len(u) - Retained(u) = l + k
    <3> DEFINE a == Len(w)
               b == Retained(w)
    <3>1. \A p, q, r \in Int : p + q - r = p + (q - r)
      OBVIOUS
    <3>2. l \in Int /\ a \in Int /\ b \in Int /\ Len(u) = l + a /\ Retained(u) = b
      BY <1>1, <2>1, <2>2
    <3> HIDE DEF l, u, a, b
    <3>3. Len(u) - Retained(u) = l + (a - b)
      BY <3>1, <3>2
    <3> QED
      BY <3>3 DEF a, b
  <2>4. From(u, l + k) = From(w, k) /\ SubSeq(u, 1, l + k) = x \o SubSeq(w, 1, k)
    BY <2>1, FromConcat, Zenon
  <2>5. RestOf(u) = From(u, l + k) /\ ShownOf(sc, u) = advance_terminal_bytes(sc, SubSeq(u, 1, l + k))
    <3>1. f = -1
      BY <1>2, <1>5
    <3> HIDE DEF u
    <3>2. /\ RestOf(u) = From(u, Len(u) - Retained(u))
          /\ ShownOf(sc, u) = advance_terminal_bytes(sc, SubSeq(u, 1, Len(u) - Retained(u)))
      BY <1>1, <3>1, TextAlone, Zenon
    <3> QED
      BY <2>3, <3>2, Zenon
  <2>6. RestOf(w) = From(w, k) /\ ShownOf(t, w) = advance_terminal_bytes(t, SubSeq(w, 1, k))
    <3> HIDE DEF t
    <3> QED
      BY <1>4, <1>5, TextAlone, Zenon
  <2>7. SubSeq(w, 1, k) \in Stream
    BY <2>1, FromIs DEF Stream
  <2>8. advance_terminal_bytes(t, SubSeq(w, 1, k)) = advance_terminal_bytes(sc, x \o SubSeq(w, 1, k))
    BY <2>7, AdvanceTwice, Zenon
  <2> QED
    BY <2>4, <2>5, <2>6, <2>8, Zenon
<1>6. CASE l = 0
  <2>1. x = <<>> /\ u = w
    BY <1>6 DEF Stream
  <2>2. t = sc
    BY <2>1, AdvanceNot, Zenon
  <2> QED
    BY <2>1, <2>2, Zenon
<1>7. CASE g # -1 /\ l # 0
  <2>1. f = l + g /\ f > 0 /\ g \in 0 .. Len(w)
    BY <1>1, <1>2, <1>3, <1>7
  <2>2. ~ Stops(u) /\ Goes(u) = l + g
    BY <1>1, <2>1 DEF Stops, Goes
  <2>3. Takes(u) = Text(SubSeq(u, 1, l + g))
    <3>1. Takes(u) = Text(SubSeq(u, 1, f))
      BY <1>1, <2>1, <2>2, TakesType, Zenon
    <3> QED
      BY <2>1, <3>1, Zenon
  <2>4. From(u, l + g) = From(w, g) /\ SubSeq(u, 1, l + g) = x \o SubSeq(w, 1, g)
    BY <2>1, FromConcat, Zenon
  <2> DEFINE y == SubSeq(w, 1, g)
             r == From(w, g)
  <2>5. y \in Stream
    BY <2>1, FromIs DEF Stream
  <2>6. ShownPiece(sc, Takes(u)) = advance_terminal_bytes(t, y)
    <3>1. Takes(u) = Text(x \o y)
      BY <2>3, <2>4, Zenon
    <3>2. ShownPiece(sc, Text(x \o y)) = advance_terminal_bytes(sc, x \o y)
      BY ShownText, Zenon
    <3> HIDE DEF y
    <3>3. advance_terminal_bytes(t, y) = advance_terminal_bytes(sc, x \o y)
      BY <2>5, AdvanceTwice, Zenon
    <3> QED
      BY <3>1, <3>2, <3>3, Zenon
  <2>7. RestOf(u) = RestOf(r) /\ ShownOf(sc, u) = ShownOf(advance_terminal_bytes(t, y), r)
    <3>1. /\ RestOf(u) = RestOf(From(u, Goes(u)))
          /\ ShownOf(sc, u) = ShownOf(ShownPiece(sc, Takes(u)), From(u, Goes(u)))
      BY <1>1, <2>2, TakesOne, Zenon
    <3> QED
      BY <2>2, <2>4, <2>6, <3>1, Zenon
  <2>8. CASE g = 0
    <3>1. y = <<>> /\ r = w
      <4>1. 0 \in 0 .. Len(w)
        BY <1>1
      <4>2. From(w, 0) = w
        BY <4>1, FromIs DEF Stream
      <4>3. y = <<>>
        BY <2>8
      <4> QED
        BY <2>8, <4>2, <4>3, Zenon
    <3>2. advance_terminal_bytes(t, <<>>) = t
      BY <1>4, AdvanceNot, Zenon
    <3> QED
      BY <2>7, <3>1, <3>2, Zenon
  <2>9. CASE g # 0
    <3>1. ~ Stops(w) /\ Goes(w) = g
      BY <1>7, <2>9 DEF Stops, Goes
    <3>2. g > 0
      BY <2>1, <2>9
    <3>3. Takes(w) = Text(y)
      BY <3>1, <3>2, TakesType, Zenon
    <3>4. RestOf(w) = RestOf(r) /\ ShownOf(t, w) = ShownOf(ShownPiece(t, Takes(w)), r)
      BY <3>1, TakesOne, Zenon
    <3>5. ShownPiece(t, Takes(w)) = advance_terminal_bytes(t, y)
      BY <3>3, ShownText, Zenon
    <3> QED
      BY <2>7, <3>4, <3>5, Zenon
  <2> QED
    BY <2>8, <2>9
<1> QED
  BY <1>5, <1>6, <1>7

\* Nothing in s starts a command: what is shown of it may be shown first.
LEMMA TextJoins ==
  ASSUME NEW s \in Stream, NEW v \in Stream, NEW sc, ScreenOK(sc), FindBytes(s, Opening) = -1
  PROVE  /\ RestOf(RestOf(s) \o v) = RestOf(s \o v)
         /\ ShownOf(ShownOf(sc, s), RestOf(s) \o v) = ShownOf(sc, s \o v)
<1> DEFINE n == Len(s) - Retained(s)
           x == SubSeq(s, 1, n)
           y == From(s, n)
           w == y \o v
<1>1. /\ n \in 0 .. Len(s) /\ Len(s) \in Nat /\ Retained(s) \in {0, 1} /\ Retained(s) <= Len(s)
      /\ Retained(s) = 1 <=> Len(s) > 0 /\ s[Len(s)] = "esc"
  BY KeepsAre DEF Stream
<1>2. x \in Stream /\ Len(x) = n /\ y \in Stream /\ Len(y) = Retained(s) /\ s = x \o y
  <2>1. x \in Stream /\ Len(x) = n /\ y \in Stream /\ Len(y) = Len(s) - n /\ s = x \o y
    <3>1. s \in Seq(Bytes) /\ n \in 0 .. Len(s)
      BY <1>1 DEF Stream
    <3> HIDE DEF n
    <3>2. /\ y \in Seq(Bytes) /\ Len(y) = Len(s) - n /\ x \in Seq(Bytes) /\ Len(x) = n
          /\ s = x \o y
      BY <3>1, FromIs
    <3> QED
      BY <3>2 DEF Stream
  <2>2. Len(s) - n = Retained(s)
    BY <1>1
  <2> QED
    BY <2>1, <2>2
<1>3. RestOf(s) = y /\ ShownOf(sc, s) = advance_terminal_bytes(sc, x)
  BY TextAlone, Zenon
<1> HIDE DEF x, y
<1>4. w \in Stream /\ s \o v = x \o w /\ Len(w) = Len(y) + Len(v) /\ Len(v) \in Nat
  <2>1. (x \o y) \o v = x \o (y \o v)
    BY <1>2, StreamsJoin, Zenon
  <2>2. w \in Stream /\ Len(w) = Len(y) + Len(v) /\ Len(v) \in Nat
    BY <1>2, Joins, Zenon
  <2> QED
    BY <1>2, <2>1, <2>2, Zenon
<1>5. ASSUME NEW i \in Nat, i < Len(x) PROVE ~ Occurs(x \o w, Opening, i)
  <2>1. Opening \in Stream /\ Len(Opening) = 2 /\ Opening[1] = "esc"
    BY MarksAre
  <2>2. ~ Occurs(s, Opening, i)
    <3>1. FoundAt(s, Opening, -1)
      BY <2>1, FindIs
    <3>2. ~ Occurs(s, Opening, -1)
      BY DEF Occurs
    <3> QED
      BY <3>1, <3>2 DEF FoundAt
  <2>3. CASE i + 2 <= Len(s)
    <3>1. Occurs(s \o v, Opening, i) <=> Occurs(s, Opening, i)
      BY <2>1, <2>3, OccursInConcat
    <3> QED
      BY <1>4, <2>2, <3>1, Zenon
  <2>4. CASE i + 2 > Len(s)
    <3>1. Retained(s) = 0 /\ i + 1 = Len(s)
      BY <1>1, <1>2, <1>5, <2>4
    <3>2. s[i + 1] # "esc"
      BY <1>1, <3>1
    <3>3. (s \o v)[i + 1] = s[i + 1]
      <4>1. i + 1 \in 1 .. Len(s)
        BY <1>1, <3>1
      <4> QED
        BY <4>1, Joins
    <3>4. Occurs(s \o v, Opening, i) => (s \o v)[i + 1] = "esc"
      <4>1. 1 \in 1 .. Len(Opening)
        BY <2>1
      <4> QED
        BY <2>1, <4>1, Zenon DEF Occurs
    <3> QED
      BY <1>4, <3>2, <3>3, <3>4, Zenon
  <2> QED
    BY <1>1, <2>3, <2>4
<1>6. w = <<>> => Retained(x) = 0
  <2> HAVE w = <<>>
  <2>1. Len(w) = 0
    BY DEF w
  <2>2. Retained(s) = 0 /\ Len(y) = 0
    BY <1>1, <1>2, <1>4, <2>1
  <2>3. y = <<>>
    BY <1>2, <2>2 DEF Stream
  <2>4. x = s
    BY <1>2, <2>3 DEF Stream
  <2> QED
    BY <2>2, <2>4
<1> HIDE DEF w
<1>7. RestOf(x \o w) = RestOf(w) /\ ShownOf(sc, x \o w) = ShownOf(advance_terminal_bytes(sc, x), w)
  BY <1>2, <1>4, <1>5, <1>6, TextFirst
<1> QED
  BY <1>3, <1>4, <1>7, Zenon DEF w

\* What waits and the bytes after it make of the screen what the whole makes of it.
LEMMA PiecesJoin ==
  ASSUME NEW s \in Stream, NEW v \in Stream, NEW sc, ScreenOK(sc)
  PROVE  /\ RestOf(RestOf(s) \o v) = RestOf(s \o v)
         /\ ShownOf(ShownOf(sc, s), RestOf(s) \o v) = ShownOf(sc, s \o v)
<1> DEFINE J(d, t) == /\ RestOf(RestOf(t) \o v) = RestOf(t \o v)
                      /\ ShownOf(ShownOf(d, t), RestOf(t) \o v) = ShownOf(d, t \o v)
           A == {n \in Nat : \A t \in Stream : \A d : Len(t) <= n /\ ScreenOK(d) => J(d, t)}
<1>0. \A t \in Stream : Len(t) \in Nat
  BY DEF Stream
<1>1. ASSUME NEW t \in Stream, NEW d, ScreenOK(d),
             \A r \in Stream : \A e : Len(r) < Len(t) /\ ScreenOK(e) => J(e, r)
      PROVE  J(d, t)
  <2>1. CASE FindBytes(t, Opening) = -1
    BY <1>1, <2>1, TextJoins, Zenon
  <2>2. CASE Stops(t) /\ FindBytes(t, Opening) = 0
    <3>1. RestOf(t) = t /\ ShownOf(d, t) = d
      BY <2>2, WaitsForEnd, Zenon
    <3> QED
      BY <3>1, Zenon
  <2>3. CASE ~ Stops(t)
    <3> DEFINE r == From(t, Goes(t))
               p == Takes(t)
               e == ShownPiece(d, p)
               u == t \o v
    <3>1. RestOf(t) = RestOf(r) /\ ShownOf(d, t) = ShownOf(e, r)
      BY <2>3, TakesOne, Zenon
    <3>2. r \in Stream /\ Len(r) < Len(t)
      BY <2>3, TurnIs, Zenon
    <3>3. ScreenOK(e)
      <4>1. p \in ShownPieces
        BY <2>3, TakesType, Zenon
      <4> QED
        BY <1>1, <4>1, PieceKeeps, Zenon
    <3>4. ~ Stops(u) /\ Goes(u) = Goes(t) /\ Takes(u) = p /\ From(u, Goes(t)) = r \o v
      BY <2>3, TakesFirst, Zenon
    <3>5. RestOf(u) = RestOf(r \o v) /\ ShownOf(d, u) = ShownOf(e, r \o v)
      <4>1. u \in Stream
        BY Joins, Zenon
      <4>2. /\ RestOf(u) = RestOf(From(u, Goes(u)))
            /\ ShownOf(d, u) = ShownOf(ShownPiece(d, Takes(u)), From(u, Goes(u)))
        BY <3>4, <4>1, TakesOne, Zenon
      <4> QED
        BY <3>4, <4>2, Zenon
    <3> HIDE DEF r, e, u
    <3>6. J(e, r)
      BY <1>1, <3>2, <3>3
    <3> QED
      BY <3>1, <3>5, <3>6, Zenon DEF u
  <2>4. Stops(t) => FindBytes(t, Opening) = -1 \/ FindBytes(t, Opening) = 0
    BY DEF Stops
  <2> HIDE DEF J
  <2> QED
    BY <2>1, <2>2, <2>3, <2>4, Zenon
<1> HIDE DEF J
<1>2. 0 \in A
  <2> SUFFICES ASSUME NEW t \in Stream, NEW d, Len(t) <= 0, ScreenOK(d) PROVE J(d, t)
    OBVIOUS
  <2>1. \A r \in Stream : ~ (Len(r) < Len(t))
    BY <1>0
  <2> QED
    BY <1>1, <2>1
<1>3. ASSUME NEW n \in Nat, n \in A PROVE n + 1 \in A
  <2> SUFFICES ASSUME NEW t \in Stream, NEW d, Len(t) <= n + 1, ScreenOK(d) PROVE J(d, t)
    OBVIOUS
  <2>1. \A r \in Stream : Len(r) < Len(t) => Len(r) <= n
    BY <1>0
  <2>2. \A r \in Stream : \A e : Len(r) < Len(t) /\ ScreenOK(e) => J(e, r)
    BY <1>3, <2>1
  <2> QED
    BY <1>1, <2>2
<1>4. \A n \in Nat : n \in A
  <2> HIDE DEF A
  <2> QED
    BY <1>2, <1>3, SetInduction
<1>5. J(sc, s)
  <2>1. Len(s) \in Nat /\ Len(s) <= Len(s)
    BY <1>0
  <2> QED
    BY <1>4, <2>1
<1> QED
  BY <1>5, Zenon DEF J

-----------------------------------------------------------------------------
(* Hiding.  What waits is the end of what was hidden, all of it or as much *)
(* as the marker can still begin in.                                       *)

Waits(since, pending) ==
  /\ FindBytes(since, Marker) = -1 /\ Len(pending) < Len(Marker)
  /\ \E x \in Stream : /\ since = x \o pending
                       /\ x = <<>> \/ Len(pending) = Len(Marker) - 1
EndOf(all) == IF Len(all) > Len(Marker) - 1 THEN From(all, Len(all) - (Len(Marker) - 1)) ELSE all

LEMMA MarkerType == Marker \in Stream /\ Len(Marker) \in Nat \ {0}
<1>1. Marker \in Seq(Bytes) /\ Marker # <<>>
  BY OutputAssumption
<1>2. Len(Marker) \in Nat /\ Len(Marker) # 0
  BY <1>1
<1> QED
  BY <1>1, <1>2 DEF Stream

LEMMA EndIs ==
  ASSUME NEW all \in Stream
  PROVE  \E y \in Stream : /\ all = y \o EndOf(all) /\ EndOf(all) \in Stream
                           /\ Len(EndOf(all)) < Len(Marker) /\ Len(EndOf(all)) <= Len(all)
                           /\ y = <<>> \/ Len(EndOf(all)) = Len(Marker) - 1
<1> DEFINE m == Len(Marker)
           n == Len(all)
<1>1. m \in Nat /\ m > 0 /\ n \in Nat
  BY MarkerType DEF Stream
<1>2. CASE n > m - 1
  <2> DEFINE i == n - (m - 1)
             x == SubSeq(all, 1, i)
             y == From(all, i)
  <2>1. i \in 0 .. Len(all) /\ Len(all) - i = m - 1
    BY <1>1, <1>2
  <2>2. x \in Stream /\ y \in Stream /\ Len(y) = Len(all) - i /\ all = x \o y
    <3> HIDE DEF i
    <3> QED
      BY <2>1, FromIs DEF Stream
  <2>3. EndOf(all) = y
    BY <1>2 DEF EndOf
  <2> HIDE DEF x, y, i
  <2>4. Len(y) = m - 1 /\ Len(y) < m /\ Len(y) <= n
    BY <1>1, <1>2, <2>1, <2>2
  <2> QED
    BY <2>2, <2>3, <2>4
<1>3. CASE ~ (n > m - 1)
  <2>1. EndOf(all) = all /\ n < m
    BY <1>1, <1>3 DEF EndOf
  <2>2. <<>> \in Stream /\ all = <<>> \o all
    BY DEF Stream
  <2>3. n <= n
    BY <1>1
  <2> HIDE DEF n, m
  <2>4. /\ all = <<>> \o EndOf(all) /\ EndOf(all) \in Stream
        /\ Len(EndOf(all)) < Len(Marker) /\ Len(EndOf(all)) <= Len(all)
        /\ <<>> = <<>> \/ Len(EndOf(all)) = Len(Marker) - 1
    BY <2>1, <2>2, <2>3, Zenon DEF m, n
  <2> QED
    BY <2>2, <2>4, Zenon
<1> QED
  BY <1>2, <1>3

LEMMA HiddenFinds ==
  ASSUME NEW since \in Stream, NEW pending \in Stream, NEW bytes \in Stream, Waits(since, pending)
  PROVE  LET all == pending \o bytes
             whole == since \o bytes
             at == FindBytes(all, Marker)
             found == FindBytes(whole, Marker)
         IN /\ all \in Stream /\ whole \in Stream
            /\ at = -1 <=> found = -1
            /\ at # -1 => /\ From(whole, found + Len(Marker)) = From(all, at + Len(Marker))
                          /\ From(all, at + Len(Marker)) \in Stream
            /\ at = -1 => Waits(whole, EndOf(all)) /\ EndOf(all) \in Stream
<1> DEFINE all == pending \o bytes
           whole == since \o bytes
           at == FindBytes(all, Marker)
           found == FindBytes(whole, Marker)
           m == Len(Marker)
<1>1. PICK x \in Stream : since = x \o pending /\ (x = <<>> \/ Len(pending) = m - 1)
  BY DEF Waits
<1>2. FindBytes(since, Marker) = -1
  BY DEF Waits
<1>3. /\ all \in Stream /\ whole \in Stream /\ Len(whole) = Len(since) + Len(bytes)
      /\ Len(since) = Len(x) + Len(pending) /\ Len(x) \in Nat /\ Len(pending) \in Nat
      /\ Len(bytes) \in Nat /\ Len(since) \in Nat /\ Len(all) \in Nat
  <2>1. all \in Stream /\ whole \in Stream /\ Len(whole) = Len(since) + Len(bytes)
    BY Joins, Zenon
  <2>2. Len(since) = Len(x) + Len(pending)
    BY <1>1, Joins, Zenon
  <2>3. Len(all) \in Nat
    BY <2>1 DEF Stream
  <2> QED
    BY <2>1, <2>2, <2>3 DEF Stream
<1>4. m \in Nat /\ m > 0 /\ Marker \in Stream
  BY MarkerType
<1>5. whole = x \o all
  BY <1>1, StreamsJoin, Zenon
<1>6. ASSUME NEW i \in Nat, i < Len(x) PROVE ~ Occurs(x \o all, Marker, i)
  <2>1. i + m <= Len(since)
    <3>1. Len(x) # 0
      BY <1>6
    <3>2. x # <<>>
      BY <3>1
    <3>3. Len(pending) = m - 1
      BY <1>1, <3>2
    <3> HIDE DEF m
    <3> QED
      BY <1>3, <1>4, <1>6, <3>3
  <2>2. Occurs(since \o bytes, Marker, i) <=> Occurs(since, Marker, i)
    BY <1>4, <2>1, OccursInConcat
  <2>3. ~ Occurs(since, Marker, i)
    <3>1. FoundAt(since, Marker, -1)
      BY <1>2, <1>4, FindIs
    <3>2. ~ Occurs(since, Marker, -1)
      BY DEF Occurs
    <3> QED
      BY <3>1, <3>2 DEF FoundAt
  <2> QED
    BY <1>5, <2>2, <2>3, Zenon
<1> HIDE DEF whole
<1>7. found = IF at = -1 THEN -1 ELSE Len(x) + at
  <2>1. FindBytes(x \o all, Marker) =
          IF FindBytes(all, Marker) = -1 THEN -1 ELSE Len(x) + FindBytes(all, Marker)
    <3> HIDE DEF all
    <3> QED
      BY <1>3, <1>4, <1>6, FindSkips
  <2> QED
    BY <1>5, <2>1, Zenon
<1>8. at \in Int /\ at >= -1 /\ (at # -1 => at \in Nat /\ at + m <= Len(all))
  <2> HIDE DEF all
  <2> QED
    BY <1>3, <1>4, FindRange
<1>9. at = -1 <=> found = -1
  <2> HIDE DEF at, found
  <2> QED
    BY <1>3, <1>7, <1>8
<1>10. ASSUME at # -1
       PROVE  From(whole, found + m) = From(all, at + m) /\ From(all, at + m) \in Stream
  <2> DEFINE i == at + m
  <2>1. i \in 0 .. Len(all) /\ found + m = Len(x) + i
    <3> HIDE DEF at, found, m, all
    <3> QED
      BY <1>3, <1>4, <1>7, <1>8, <1>10
  <2> HIDE DEF i, all
  <2>2. From(x \o all, Len(x) + i) = From(all, i)
    BY <1>3, <2>1, FromConcat, Zenon
  <2>3. From(all, i) \in Stream
    BY <1>3, <2>1, FromIs DEF Stream
  <2> QED
    BY <1>5, <2>1, <2>2, <2>3, Zenon DEF i
<1>11. ASSUME at = -1
       PROVE  Waits(whole, EndOf(all)) /\ EndOf(all) \in Stream
  <2> HIDE DEF all
  <2>1. PICK y \in Stream : /\ all = y \o EndOf(all) /\ EndOf(all) \in Stream
                            /\ Len(EndOf(all)) < m /\ Len(EndOf(all)) <= Len(all)
                            /\ y = <<>> \/ Len(EndOf(all)) = m - 1
    BY <1>3, EndIs
  <2> DEFINE z == EndOf(all)
  <2>2. whole = (x \o y) \o z /\ x \o y \in Stream
    <3>1. x \o y \in Stream
      BY Joins, Zenon
    <3>2. (x \o y) \o z = x \o (y \o z)
      BY <2>1, StreamsJoin, Zenon
    <3> QED
      BY <1>5, <2>1, <3>1, <3>2, Zenon
  <2>3. x \o y = <<>> \/ Len(z) = m - 1
    <3>1. CASE y # <<>>
      BY <2>1, <3>1
    <3>2. CASE y = <<>> /\ x = <<>>
      BY <3>2
    <3>3. CASE y = <<>> /\ x # <<>>
      <4>1. Len(pending) = m - 1
        BY <1>1, <3>3
      <4>2. z = all
        BY <1>3, <2>1, <3>3 DEF Stream
      <4>3. Len(all) = Len(pending) + Len(bytes)
        BY Joins, Zenon DEF all
      <4>4. Len(z) < m
        BY <2>1, Zenon
      <4> HIDE DEF z, m
      <4> QED
        BY <1>3, <1>4, <4>1, <4>2, <4>3, <4>4
    <3> QED
      BY <3>1, <3>2, <3>3
  <2>4. FindBytes(whole, Marker) = -1
    BY <1>9, <1>11
  <2>5. Waits(whole, z)
    BY <2>1, <2>2, <2>3, <2>4, Zenon DEF Waits
  <2> QED
    BY <2>1, <2>5
<1> QED
  BY <1>3, <1>9, <1>10, <1>11 DEF whole

-----------------------------------------------------------------------------
(* The invariant.                                                          *)

StreamOK == stream \in [bytes : Stream, at : Nat] /\ stream.at <= Len(stream.bytes)
HidingOK ==
  /\ hiding \in [on : BOOLEAN, pending : Stream] /\ Len(hiding.pending) < Len(Marker)
  /\ unhidden \in [shown : Stream, since : Stream]
  /\ hiding.on => Waits(unhidden.since, hiding.pending)
  /\ ~ hiding.on => unhidden.since = <<>>
ScreenKept ==
  /\ oscPending \in Stream /\ Len(oscPending) <= MaxOsc
  /\ ScreenOK(screen) /\ overlong \in BOOLEAN
  /\ ~ overlong => /\ oscPending = RestOf(unhidden.shown)
                   /\ screen = ShownOf(Blank, unhidden.shown)
OutputInv == StreamOK /\ HidingOK /\ ScreenKept

LEMMA NothingHidden ==
  /\ <<>> \in Stream /\ Len(<<>>) < Len(Marker) /\ Waits(<<>>, <<>>)
<1>1. <<>> \in Stream /\ <<>> = <<>> \o <<>> /\ Len(<<>>) = 0
  BY DEF Stream
<1>2. Len(Marker) \in Nat /\ Len(Marker) > 0 /\ Marker \in Stream
  BY MarkerType
<1>3. FindBytes(<<>>, Marker) = -1
  <2>1. FindBytes(<<>>, Marker) # -1 => FindBytes(<<>>, Marker) \in Nat /\ FindBytes(<<>>, Marker) + Len(Marker) <= Len(<<>>)
    <3>1. FindBytes(<<>>, Marker) # -1 =>
            FindBytes(<<>>, Marker) \in 0 .. Len(<<>>) /\ FindBytes(<<>>, Marker) + Len(Marker) <= Len(<<>>)
      BY <1>1, <1>2, FindRange, Zenon
    <3> QED
      BY <1>1, <3>1
  <2> DEFINE f == FindBytes(<<>>, Marker)
             m == Len(Marker)
  <2>2. f # -1 => f \in Nat /\ f + m <= 0 /\ m \in Nat /\ m > 0
    BY <1>1, <1>2, <2>1
  <2> HIDE DEF f, m
  <2>3. f = -1
    BY <2>2
  <2> QED
    BY <2>3 DEF f
<1>4. Len(<<>>) < Len(Marker)
  BY <1>1, <1>2
<1> QED
  BY <1>1, <1>3, <1>4, Zenon DEF Waits

LEMMA BlankOK == ScreenOK(Blank)
<1>1. "none" \in Words /\ <<>> \in Stream
  BY DEF Words, Stream
<1>2. Blank \in Screens
  BY <1>1 DEF Blank, Screens
<1>3. Blank.blocks = <<>> /\ Blank.id = 0
  BY DEF Blank
<1>4. Numbered(<<>>, 0)
  BY OutputAssumption DEF Numbered
<1> QED
  BY <1>2, <1>3, <1>4, Zenon DEF ScreenOK

LEMMA NothingShown == RestOf(<<>>) = <<>> /\ ShownOf(Blank, <<>>) = Blank
<1>1. <<>> \in Stream /\ Len(<<>>) = 0
  BY DEF Stream
<1>2. FindBytes(<<>>, Opening) = -1
  <2> DEFINE f == FindBytes(<<>>, Opening)
             e == <<>>
  <2>1. f \in Int /\ (f # -1 => f \in Nat /\ f + 2 <= Len(e)) /\ Len(e) = 0
    BY <1>1, FindMarks, Zenon
  <2> HIDE DEF f, e
  <2>2. f = -1
    BY <2>1
  <2> QED
    BY <2>2 DEF f
<1>3. Retained(<<>>) = 0
  BY DEF Retained, EscapeAtEnd
<1>4. Len(<<>>) - Retained(<<>>) = 0
  BY <1>1, <1>3
<1>5. RestOf(<<>>) = From(<<>>, 0) /\ ShownOf(Blank, <<>>) = advance_terminal_bytes(Blank, SubSeq(<<>>, 1, 0))
  BY <1>1, <1>2, <1>4, BlankOK, TextAlone, Zenon
<1>6. From(<<>>, 0) = <<>> /\ SubSeq(<<>>, 1, 0) = <<>>
  BY DEF From
<1>7. advance_terminal_bytes(Blank, <<>>) = Blank
  BY BlankOK, AdvanceNot, Zenon
<1> QED
  BY <1>5, <1>6, <1>7, Zenon

LEMMA OutputStarts == OutputInit => OutputInv
<1> SUFFICES ASSUME OutputInit PROVE OutputInv
  OBVIOUS
<1>1. StreamOK
  <2>1. stream \in [bytes : OutputStreams, at : {0}]
    BY DEF OutputInit
  <2>2. OutputStreams \subseteq Stream
    BY OutputAssumption DEF Stream
  <2>3. stream \in [bytes : Stream, at : Nat] /\ stream.at = 0 /\ stream.bytes \in Stream
    BY <2>1, <2>2
  <2>4. Len(stream.bytes) \in Nat
    BY <2>3 DEF Stream
  <2> QED
    BY <2>3, <2>4 DEF StreamOK
<1>2. HidingOK
  <2>1. hiding = Off /\ unhidden = [shown |-> <<>>, since |-> <<>>]
    BY DEF OutputInit
  <2>2. hiding.on = FALSE /\ hiding.pending = <<>> /\ unhidden.since = <<>>
    BY <2>1 DEF Off
  <2>3. hiding \in [on : BOOLEAN, pending : Stream] /\ unhidden \in [shown : Stream, since : Stream]
    BY <2>1, NothingHidden DEF Off
  <2> QED
    BY <2>2, <2>3, NothingHidden DEF HidingOK
<1>3. ScreenKept
  <2>1. oscPending = <<>> /\ screen = Blank /\ overlong = FALSE /\ unhidden.shown = <<>>
    BY DEF OutputInit
  <2>2. Len(<<>>) <= MaxOsc
    BY OutputAssumption
  <2> QED
    BY <2>1, <2>2, NothingHidden, BlankOK, NothingShown, Zenon DEF ScreenKept
<1> QED
  BY <1>1, <1>2, <1>3 DEF OutputInv

\* What of the bytes goes on is what follows in the output that is not hidden.
LEMMA HidingStep ==
  ASSUME HidingOK, NEW bytes \in Stream, NEW f, f = filter_suppressed_output(bytes),
         hiding' = f.hiding, unhidden' = Unhidden(bytes)
  PROVE  /\ HidingOK' /\ f.visible \in Stream
         /\ unhidden.shown \in Stream /\ (unhidden').shown = unhidden.shown \o f.visible
<1> DEFINE all == hiding.pending \o bytes
           whole == unhidden.since \o bytes
           at == FindBytes(all, Marker)
           found == FindBytes(whole, Marker)
           m == Len(Marker)
<1>1. /\ hiding \in [on : BOOLEAN, pending : Stream] /\ Len(hiding.pending) < m
      /\ unhidden \in [shown : Stream, since : Stream]
      /\ hiding.pending \in Stream /\ unhidden.since \in Stream /\ unhidden.shown \in Stream
  BY DEF HidingOK
<1>2. <<>> \in Stream /\ Len(<<>>) < m
  BY NothingHidden
<1>3. \A g, u : (g \in [on : BOOLEAN, pending : Stream] /\ u \in [shown : Stream, since : Stream]
                  /\ g.on = FALSE /\ g.pending = <<>> /\ u.since = <<>> /\ hiding' = g /\ unhidden' = u)
                 => HidingOK'
  BY <1>2 DEF HidingOK
<1>4. Off \in [on : BOOLEAN, pending : Stream] /\ Off.on = FALSE /\ Off.pending = <<>>
  BY <1>2 DEF Off
<1>5. CASE ~ hiding.on
  <2>1. f = [visible |-> bytes, hiding |-> Off]
    BY <1>5 DEF filter_suppressed_output
  <2>2. Unhidden(bytes) = [unhidden EXCEPT !.shown = @ \o bytes]
    BY <1>5 DEF Unhidden
  <2> DEFINE b == unhidden.shown \o bytes
             u == [unhidden EXCEPT !.shown = b]
  <2>3. b \in Stream
    BY <1>1, Joins, Zenon
  <2>4. unhidden.since = <<>>
    BY <1>5 DEF HidingOK
  <2> HIDE DEF b
  <2>5. u \in [shown : Stream, since : Stream] /\ u.shown = b /\ u.since = <<>>
    BY <1>1, <2>3, <2>4
  <2>6. unhidden' = u
    BY <2>2, Zenon DEF b
  <2> HIDE DEF u
  <2>7. hiding' = Off /\ f.visible = bytes
    BY <2>1
  <2>8. HidingOK'
    BY <1>3, <1>4, <2>5, <2>6, <2>7, Zenon
  <2> QED
    BY <1>1, <2>5, <2>6, <2>7, <2>8, Zenon DEF b
<1>6. ASSUME hiding.on
      PROVE  /\ all \in Stream /\ whole \in Stream
             /\ at = -1 <=> found = -1
             /\ at # -1 => /\ From(whole, found + m) = From(all, at + m)
                           /\ From(all, at + m) \in Stream
             /\ at = -1 => Waits(whole, EndOf(all)) /\ EndOf(all) \in Stream
  <2>1. Waits(unhidden.since, hiding.pending)
    BY <1>6 DEF HidingOK
  <2> QED
    BY <1>1, <2>1, HiddenFinds, Zenon
<1>7. CASE hiding.on /\ at # -1
  <2> DEFINE v == From(all, at + m)
             b == unhidden.shown \o v
             u == [shown |-> b, since |-> <<>>]
  <2>1. f = [visible |-> v, hiding |-> Off]
    BY <1>7 DEF filter_suppressed_output
  <2>2. found # -1 /\ From(whole, found + m) = v /\ v \in Stream
    BY <1>6, <1>7, Zenon
  <2>3. Unhidden(bytes) = [shown |-> unhidden.shown \o From(whole, found + m), since |-> <<>>]
    BY <1>7, <2>2 DEF Unhidden
  <2>4. unhidden' = u
    BY <2>2, <2>3, Zenon
  <2> HIDE DEF v
  <2>5. b \in Stream
    BY <1>1, <2>2, Joins, Zenon
  <2> HIDE DEF b
  <2>6. u \in [shown : Stream, since : Stream] /\ u.shown = b /\ u.since = <<>>
    BY <1>2, <2>5
  <2> HIDE DEF u
  <2>7. hiding' = Off /\ f.visible = v
    BY <2>1
  <2>8. HidingOK'
    BY <1>3, <1>4, <2>4, <2>6, <2>7, Zenon
  <2> QED
    BY <1>1, <2>2, <2>4, <2>6, <2>7, <2>8, Zenon DEF b
<1>8. CASE hiding.on /\ at = -1
  <2> DEFINE z == EndOf(all)
             h == [on |-> TRUE, pending |-> z]
             u == [unhidden EXCEPT !.since = whole]
  <2>1. f = [visible |-> <<>>, hiding |-> h]
    BY <1>8 DEF filter_suppressed_output, EndOf
  <2>2. found = -1 /\ Waits(whole, z) /\ z \in Stream /\ whole \in Stream
    BY <1>6, <1>8, Zenon
  <2>3. Unhidden(bytes) = u
    BY <1>8, <2>2 DEF Unhidden
  <2> HIDE DEF z, whole
  <2>4. u \in [shown : Stream, since : Stream] /\ u.shown = unhidden.shown /\ u.since = whole
    BY <1>1, <2>2
  <2>5. h \in [on : BOOLEAN, pending : Stream] /\ h.on = TRUE /\ h.pending = z
    BY <2>2
  <2>6. hiding' = h /\ f.visible = <<>> /\ unhidden' = u
    BY <2>1, <2>3
  <2> HIDE DEF h, u
  <2>7. Len(z) < m
    BY <2>2 DEF Waits
  <2>8. HidingOK'
    <3>1. /\ hiding' \in [on : BOOLEAN, pending : Stream] /\ (hiding').on /\ (hiding').pending = z
          /\ unhidden' \in [shown : Stream, since : Stream] /\ (unhidden').since = whole
      BY <2>4, <2>5, <2>6
    <3> QED
      BY <2>2, <2>7, <3>1 DEF HidingOK
  <2>9. unhidden.shown \o <<>> = unhidden.shown
    BY <1>1 DEF Stream
  <2> QED
    BY <1>1, <1>2, <2>4, <2>6, <2>8, <2>9, Zenon
<1> QED
  BY <1>5, <1>7, <1>8

LEMMA ScreenStep ==
  ASSUME ScreenKept, NEW shown \in Stream, NEW v \in Stream, unhidden.shown = shown,
         (unhidden').shown = shown \o v,
         NEW cut, cut = Cut[oscPending \o v],
         NEW sc, sc = Shown(screen, cut.pieces),
         oscPending' = IF Len(cut.rest) > MaxOsc THEN <<>> ELSE cut.rest,
         screen' = IF Len(cut.rest) > MaxOsc THEN advance_terminal_bytes(sc, cut.rest) ELSE sc,
         overlong' = (overlong \/ Len(cut.rest) > MaxOsc)
  PROVE  ScreenKept'
<1> DEFINE all == oscPending \o v
           rest == RestOf(all)
           shows == ShownOf(screen, all)
<1>1. oscPending \in Stream /\ ScreenOK(screen) /\ MaxOsc \in Nat /\ overlong \in BOOLEAN
  BY OutputAssumption DEF ScreenKept
<1>2. cut.rest = rest /\ sc = shows
  BY DEF RestOf, ShownOf
<1>3. all \in Stream
  BY <1>1, Joins, Zenon
<1>4. rest \in Stream /\ ScreenOK(shows) /\ Len(rest) \in Nat
  <2>1. rest \in Stream
    BY <1>3, RestType, Zenon
  <2>2. ScreenOK(shows)
    BY <1>1, <1>3, ShownKeeps, Zenon
  <2> QED
    BY <2>1, <2>2 DEF Stream
<1>5. ~ overlong => rest = RestOf(shown \o v) /\ shows = ShownOf(Blank, shown \o v)
  <2> HAVE ~ overlong
  <2>1. oscPending = RestOf(shown) /\ screen = ShownOf(Blank, shown)
    BY DEF ScreenKept
  <2>2. /\ RestOf(RestOf(shown) \o v) = RestOf(shown \o v)
        /\ ShownOf(ShownOf(Blank, shown), RestOf(shown) \o v) = ShownOf(Blank, shown \o v)
    BY BlankOK, PiecesJoin, Zenon
  <2> QED
    BY <2>1, <2>2, Zenon
<1> HIDE DEF all, rest, shows
<1>6. CASE Len(rest) > MaxOsc
  <2>1. oscPending' = <<>> /\ screen' = advance_terminal_bytes(shows, rest) /\ overlong' = TRUE
    BY <1>2, <1>6
  <2>2. ScreenOK(advance_terminal_bytes(shows, rest))
    BY <1>4, AdvanceFields, Zenon
  <2>3. <<>> \in Stream /\ Len(<<>>) <= MaxOsc
    BY <1>1 DEF Stream
  <2>4. ScreenOK(screen')
    BY <2>1, <2>2
  <2>5. ScreenOK(screen)'
    BY <2>4 DEF ScreenOK
  <2> QED
    BY <2>1, <2>3, <2>5 DEF ScreenKept
<1>7. CASE ~ (Len(rest) > MaxOsc)
  <2>1. oscPending' = rest /\ screen' = shows /\ overlong' = overlong /\ Len(rest) <= MaxOsc
    BY <1>1, <1>2, <1>4, <1>7
  <2>2. ScreenOK(screen)'
    BY <1>4, <2>1, Zenon DEF ScreenOK
  <2>3. (~ overlong => /\ oscPending = RestOf(unhidden.shown)
                       /\ screen = ShownOf(Blank, unhidden.shown))'
    BY <1>5, <2>1, Zenon DEF RestOf, ShownOf
  <2> QED
    BY <1>1, <1>4, <2>1, <2>2, <2>3 DEF ScreenKept
<1> QED
  BY <1>6, <1>7

LEMMA OutputSteps == OutputInv /\ [OutputNext]_outputVars => OutputInv'
<1> SUFFICES ASSUME OutputInv, [OutputNext]_outputVars PROVE OutputInv'
  OBVIOUS
<1> USE DEF OutputInv
<1>1. ASSUME NEW n \in 1 .. Len(stream.bytes), write_bytes(n) PROVE OutputInv'
  <2> DEFINE bytes == SubSeq(stream.bytes, stream.at + 1, stream.at + n)
             f == filter_suppressed_output(bytes)
             cut == Cut[oscPending \o f.visible]
             sc == Shown(screen, cut.pieces)
  <2>1. /\ stream.at + n <= Len(stream.bytes)
        /\ stream' = [stream EXCEPT !.at = @ + n]
        /\ hiding' = f.hiding /\ unhidden' = Unhidden(bytes)
        /\ oscPending' = IF Len(cut.rest) > MaxOsc THEN <<>> ELSE cut.rest
        /\ screen' = IF Len(cut.rest) > MaxOsc THEN advance_terminal_bytes(sc, cut.rest) ELSE sc
        /\ overlong' = (overlong \/ Len(cut.rest) > MaxOsc)
    BY <1>1, Zenon DEF write_bytes
  <2>2. stream \in [bytes : Stream, at : Nat] /\ stream.bytes \in Stream /\ stream.at \in Nat
    BY DEF StreamOK
  <2>3. bytes \in Stream
    BY <2>1, <2>2 DEF Stream
  <2>4. StreamOK'
    <3>1. n \in Nat /\ stream.at + n \in Nat
      BY <2>2
    <3>2. stream' \in [bytes : Stream, at : Nat] /\ (stream').at = stream.at + n /\ (stream').bytes = stream.bytes
      BY <2>1, <2>2, <3>1
    <3> QED
      BY <2>1, <3>2 DEF StreamOK
  <2> HIDE DEF bytes, f, cut, sc
  <2>5. /\ HidingOK' /\ f.visible \in Stream
        /\ unhidden.shown \in Stream /\ (unhidden').shown = unhidden.shown \o f.visible
    <3>1. f = filter_suppressed_output(bytes)
      BY DEF f
    <3> QED
      BY <2>1, <2>3, <3>1, HidingStep, Zenon
  <2>6. ScreenKept'
    <3>1. cut = Cut[oscPending \o f.visible] /\ sc = Shown(screen, cut.pieces)
      BY DEF cut, sc
    <3> QED
      BY <2>1, <2>5, <3>1, ScreenStep, Zenon
  <2> QED
    BY <2>4, <2>5, <2>6
<1>2. CASE suppress_output_until
  <2>1. /\ ~ hiding.on /\ hiding' = [on |-> TRUE, pending |-> <<>>]
        /\ UNCHANGED <<stream, oscPending, screen, unhidden, overlong>>
    BY <1>2 DEF suppress_output_until
  <2>2. HidingOK'
    <3>1. unhidden.since = <<>> /\ unhidden \in [shown : Stream, since : Stream]
      BY <2>1 DEF HidingOK
    <3>2. /\ hiding' \in [on : BOOLEAN, pending : Stream] /\ (hiding').on /\ (hiding').pending = <<>>
          /\ unhidden' = unhidden
      BY <2>1, NothingHidden
    <3> QED
      BY <3>1, <3>2, NothingHidden DEF HidingOK
  <2>3. StreamOK' /\ ScreenKept'
    BY <2>1 DEF StreamOK, ScreenKept, ScreenOK, RestOf, ShownOf
  <2> QED
    BY <2>2, <2>3
<1>3. CASE cancel_output_suppression
  <2>1. /\ hiding' = Off /\ unhidden' = [unhidden EXCEPT !.since = <<>>]
        /\ UNCHANGED <<stream, oscPending, screen, overlong>>
    BY <1>3 DEF cancel_output_suppression
  <2>2. unhidden \in [shown : Stream, since : Stream]
    BY DEF HidingOK
  <2>3. /\ unhidden' \in [shown : Stream, since : Stream] /\ (unhidden').since = <<>>
        /\ (unhidden').shown = unhidden.shown
    BY <2>1, <2>2, NothingHidden
  <2>4. /\ hiding' \in [on : BOOLEAN, pending : Stream] /\ ~ (hiding').on /\ (hiding').pending = <<>>
    BY <2>1, NothingHidden DEF Off
  <2>5. HidingOK'
    BY <2>3, <2>4, NothingHidden DEF HidingOK
  <2>6. StreamOK' /\ ScreenKept'
    BY <2>1, <2>3 DEF StreamOK, ScreenKept, ScreenOK, RestOf, ShownOf
  <2> QED
    BY <2>5, <2>6
<1>4. CASE UNCHANGED outputVars
  BY <1>4 DEF outputVars, StreamOK, HidingOK, ScreenKept, ScreenOK, RestOf, ShownOf
<1> QED
  BY <1>1, <1>2, <1>3, <1>4 DEF OutputNext

LEMMA OutputInvHolds == OutputSpec => []OutputInv
BY OutputStarts, OutputSteps, PTL DEF OutputSpec

(* What waits is bounded, and the facts kept are those of the newest       *)
(* blocks (OutputTypeOK), for any streams, marker and bounds.              *)
THEOREM OutputTypes == OutputSpec => []OutputTypeOK
<1>1. OutputInv => OutputTypeOK
  <2> SUFFICES ASSUME OutputInv PROVE OutputTypeOK
    OBVIOUS
  <2>1. stream.at \in 0 .. Len(stream.bytes)
    <3>1. stream.at \in Nat /\ Len(stream.bytes) \in Nat /\ stream.at <= Len(stream.bytes)
      BY DEF OutputInv, StreamOK, Stream
    <3> QED
      BY <3>1
  <2>2. hiding.on \in BOOLEAN /\ Len(hiding.pending) < Len(Marker)
    BY DEF OutputInv, HidingOK
  <2>3. screen.alternate \in BOOLEAN /\ Numbered(screen.blocks, screen.id)
    BY DEF OutputInv, ScreenKept, ScreenOK, Screens
  <2> QED
    BY <2>1, <2>2, <2>3, Zenon DEF OutputInv, ScreenKept, OutputTypeOK, Numbered
<1> QED
  BY <1>1, OutputInvHolds, PTL

(* terminal.rs, write_bytes: for any streams, any marker and any bounds,   *)
(* what the emulator was given, the blocks and the bytes that wait do not  *)
(* depend on the pieces in which the output came (PiecesDoNotMatter).      *)
(* The argument: what waits after s, with v after it, is cut as s and v    *)
(* together are, by induction on the length of s (PiecesJoin); and the     *)
(* bytes kept while output is hidden are all that can still begin the      *)
(* marker (HiddenFinds).                                                   *)
THEOREM AnyPieces == OutputSpec => []PiecesDoNotMatter
<1>1. OutputInv => PiecesDoNotMatter
  BY DEF OutputInv, ScreenKept, PiecesDoNotMatter, RestOf, ShownOf
<1> QED
  BY <1>1, OutputInvHolds, PTL

-----------------------------------------------------------------------------

(* The three components side by side, each by its own specification, keep  *)
(* their types and their bounds.                                           *)
THEOREM LocalTypes == LocalSpec => []LocalTypeOK
BY CaptureTyping, TypeCorrect, OutputTypes, PTL DEF LocalSpec, LocalTypeOK
===============================================================================
