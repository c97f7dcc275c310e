--------------------------- MODULE TerminalCapture ---------------------------
(***************************************************************************)
(* The encrypted capture of one terminal session: the sink that orders its *)
(* output (recording_service.dart), the native writer, its checkpoint file *)
(* and recovery (capture_crypto.rs), the log row (repositories/logs.rs),   *)
(* and the saves that close, shorten and clean up captures.  The session   *)
(* is confirmed and recording stays switched on.  A record is a model      *)
(* record, its authentication what it was written for; a hash is the data  *)
(* it was taken over.  A crash keeps any prefix of what was not synced.    *)
(***************************************************************************)
EXTENDS Integers, Sequences, FiniteSetsExt

CONSTANTS
  MaxOutput,     \* bound: chunks of output of the session
  MaxKept,       \* maxSessionBytes, in chunks
  MaxFaults,     \* bound: failed writes and crashes
  NoFile

Records == [kind : {"header", "chunk", "footer", "torn"}, index : Nat, body : Seq(Nat)]

ASSUME CaptureAssumption ==
  /\ MaxOutput \in Nat /\ MaxKept \in Nat /\ MaxFaults \in Nat
  /\ NoFile \notin Seq(Records) \cup Seq(Nat)

VARIABLES
  disk,        \* the capture, its durable length, .state, the two files of a
               \* compaction and the log row
  sink,        \* _TerminalCaptureSink, with the native writer it owns
  recording,   \* the recorder: active, the chunks put out, and as history
               \* variable what the last save reported as saved
  save,        \* the running save of the logs, startup's retention included
  app,         \* "up", "down" or the step of startup
  capFaults

captureVars == <<disk, sink, recording, save, app, capFaults>>

-----------------------------------------------------------------------------
(* The file: a header, chunks with consecutive indexes, a footer.          *)

Header == [kind |-> "header", index |-> 0, body |-> <<>>]
Torn == [kind |-> "torn", index |-> 0, body |-> <<>>]
Chunk(i, d) == [kind |-> "chunk", index |-> i, body |-> <<d>>]
Footer(i, data) == [kind |-> "footer", index |-> i, body |-> data]

(* The records that read back in order after the header, and their data.   *)
Whole(f) ==
  Max({n \in 0 .. Len(f) - 1 :
         \A i \in 1 .. n : f[i + 1].kind = "chunk" /\ f[i + 1].index = i - 1})
DataOf(f, n) == [i \in 1 .. n |-> f[i + 1].body[1]]
HasHeader(f) == f # NoFile /\ f # <<>> /\ f[1].kind = "header"
Closes(f, n) == Len(f) = n + 2 /\ f[n + 2] = Footer(n, DataOf(f, n))

VerifyComplete(f) == HasHeader(f) /\ Closes(f, Whole(f))

(* What recover_capture makes of a file and its checkpoint.                *)
CheckpointMatches(f, state) ==
  state = NoFile \/ (Len(state) <= Whole(f) /\ state = DataOf(f, Len(state)))
Recovery(f, state) ==
  LET n == Whole(f) IN
  IF ~HasHeader(f) \/ ~CheckpointMatches(f, state) THEN "refused"
  ELSE IF Closes(f, n) THEN "complete"
  ELSE IF Len(f) = n + 1 \/ (Len(f) = n + 2 /\ f[n + 2].kind = "torn") THEN "finish"
  ELSE "refused"

-----------------------------------------------------------------------------
(* The sink and its writer.                                                *)

NoSink == [slot |-> "none", closing |-> FALSE, pending |-> <<>>, queue |-> <<>>, step |-> "wait"]
NoSave == [pc |-> "idle", finished |-> FALSE]

CaptureInit ==
  /\ disk = [capture |-> NoFile, durable |-> 0, state |-> NoFile, compact |-> NoFile,
             backup |-> NoFile, row |-> "none"]
  /\ sink = NoSink /\ recording = [active |-> TRUE, output |-> 0, saved |-> 0]
  /\ save = NoSave /\ app = "up" /\ capFaults = 0

MayFail == capFaults < MaxFaults
(* What the writer counted and hashed: the chunks it appended to the header. *)
Written(f) == DataOf(f, Cardinality({i \in 1 .. Len(f) : f[i].kind = "chunk"}))
NewRecords(f, chunks) == [i \in 1 .. Len(chunks) |-> Chunk(Len(Written(f)) + i - 1, chunks[i])]
Appended(chunks) == disk.capture \o NewRecords(disk.capture, chunks)
(* A failed write: some records, perhaps a part of the next.               *)
CutShort(chunks) ==
  LET begun == {disk.capture \o SubSeq(NewRecords(disk.capture, chunks), 1, k) :
                  k \in 0 .. Len(chunks) - 1}
  IN  begun \cup {Append(f, Torn) : f \in begun}

(* _fail: what is pending is dropped and the writer aborted, after the     *)
(* maintenance that runs.                                                  *)
FailedSink == [sink EXCEPT !.slot = "failed", !.pending = <<>>, !.queue = <<>>, !.step = "wait"]

(* Drains into the writer; the sink goes on as `next`, or fails.           *)
Drain(chunks, next) ==
  \/ /\ disk' = [disk EXCEPT !.capture = Appended(chunks)]
     /\ sink' = next /\ UNCHANGED capFaults
  \/ /\ MayFail /\ chunks # <<>> /\ capFaults' = capFaults + 1
     /\ \E f \in CutShort(chunks) : disk' = [disk EXCEPT !.capture = f]
     /\ sink' = FailedSink

(* Output is written at once only while nothing is pending or maintained.  *)
OnceOpen == sink.step \in {"wait", "after"}
NothingPending == sink.step = "wait" /\ sink.queue = <<>>
WritesThrough == NothingPending

(* The row that names the capture is written before its first byte.        *)
Referenced == [disk EXCEPT !.row = IF @ = "none" THEN "incomplete" ELSE @]

Add ==
  LET n == recording.output + 1 IN
  /\ app = "up" /\ recording.active /\ n <= MaxOutput
  /\ recording' = [recording EXCEPT !.output = n]
  /\ \/ /\ sink.slot = "none"
        /\ sink' = [NoSink EXCEPT !.slot = "opening", !.pending = <<n>>]
        /\ disk' = Referenced /\ UNCHANGED capFaults
     \/ /\ sink.slot = "failed" \/ sink.closing
        /\ UNCHANGED <<disk, sink, capFaults>>
     \/ /\ sink.slot = "ready" /\ ~sink.closing /\ WritesThrough
        /\ Drain(<<n>>, sink)
     \/ /\ sink.slot \in {"opening", "ready"} /\ ~sink.closing
        /\ sink.slot = "opening" \/ ~WritesThrough
        /\ sink' = [sink EXCEPT !.pending = Append(@, n)]
        /\ UNCHANGED <<disk, capFaults>>
  /\ UNCHANGED <<save, app>>

(* openWriter deletes what an earlier writer of the id left and creates    *)
(* the file.                                                               *)
OpenWriter ==
  /\ app = "up" /\ sink.slot = "opening"
  /\ \/ /\ disk' = [disk EXCEPT !.capture = <<Header>>, !.durable = 0, !.state = NoFile]
        /\ sink' = [sink EXCEPT !.slot = "ready", !.step = "drain"]
        /\ UNCHANGED capFaults
     \/ /\ MayFail /\ capFaults' = capFaults + 1
        /\ disk' = [disk EXCEPT !.capture = NoFile, !.durable = 0, !.state = NoFile]
        /\ sink' = FailedSink
  /\ UNCHANGED <<recording, save, app>>

(* The callback of the opening and each maintenance operation start with   *)
(* what is pending.                                                        *)
DrainPending ==
  /\ app = "up" /\ sink.slot = "ready" /\ sink.step \in {"wait", "drain"}
  /\ sink.step = "drain" \/ sink.queue # <<>>
  /\ Drain(sink.pending,
           [sink EXCEPT !.pending = <<>>,
                        !.step = IF sink.queue = <<>> THEN "wait" ELSE "flush"])
  /\ UNCHANGED <<recording, save, app>>

(* checkpoint: sync_data, then the state file; close: the footer, sync_all, *)
(* the state file goes.  Output that arrives meanwhile waits.              *)
Maintain(op, step) ==
  app = "up" /\ sink.slot = "ready" /\ sink.queue # <<>> /\ Head(sink.queue) = op
  /\ sink.step = step /\ UNCHANGED <<recording, save, app>>
Becomes(step) == sink' = [sink EXCEPT !.step = step]
OperationFails == MayFail /\ capFaults' = capFaults + 1 /\ sink' = FailedSink

(* A plausible bug: the state file before the data is on the disk.         *)
StateBeforeSync ==
  /\ Maintain("checkpoint", "flush")
  /\ Becomes("sidecar") /\ UNCHANGED <<disk, capFaults>>
SyncData ==
  /\ Maintain("checkpoint", "flush")
  /\ \/ /\ disk' = [disk EXCEPT !.durable = Len(disk.capture)]
        /\ Becomes("sidecar") /\ UNCHANGED capFaults
     \/ OperationFails /\ UNCHANGED disk

(* write_checkpoint_sidecar: a temporary file, synced, renamed.            *)
WriteCheckpointSidecar ==
  /\ Maintain("checkpoint", "sidecar")
  /\ \/ /\ disk' = [disk EXCEPT !.state = Written(disk.capture)]
        /\ Becomes("after") /\ UNCHANGED capFaults
     \/ OperationFails /\ UNCHANGED disk

DrainAfter ==
  /\ Maintain("checkpoint", "after")
  /\ Drain(sink.pending, [sink EXCEPT !.pending = <<>>, !.queue = Tail(@), !.step = "wait"])

WriteFooter ==
  /\ Maintain("close", "flush")
  /\ \/ /\ disk' = [disk EXCEPT
                      !.capture = Append(@, Footer(Len(Written(@)), Written(@)))]
        /\ Becomes("sync") /\ UNCHANGED capFaults
     \/ /\ OperationFails
        /\ \E t \in {<<>>, <<Torn>>} : disk' = [disk EXCEPT !.capture = @ \o t]

SyncAll ==
  /\ Maintain("close", "sync")
  /\ \/ /\ disk' = [disk EXCEPT !.durable = Len(disk.capture)]
        /\ Becomes("remove") /\ UNCHANGED capFaults
     \/ OperationFails /\ UNCHANGED disk

(* _finalized is set: the next row has the hash of the capture.            *)
RemoveCheckpointSidecar ==
  /\ Maintain("close", "remove")
  /\ \/ /\ disk' = [disk EXCEPT !.state = NoFile]
        /\ sink' = [sink EXCEPT !.slot = "closed", !.queue = <<>>, !.step = "wait"]
        /\ UNCHANGED capFaults
     \/ OperationFails /\ UNCHANGED disk

-----------------------------------------------------------------------------
(* Saves of the logs, one after the other.                                 *)

Finish ==
  /\ app = "up" /\ recording.active
  /\ recording' = [recording EXCEPT !.active = FALSE]
  /\ UNCHANGED <<disk, sink, save, app, capFaults>>

(* checkpointCaptures: a checkpoint while the session runs, the close once *)
(* it has ended.                                                           *)
CheckpointCaptures ==
  /\ app = "up" /\ save.pc = "idle"
  /\ save' = [pc |-> "maintain", finished |-> ~recording.active]
  /\ sink' = IF sink.slot \in {"opening", "ready"} /\ ~sink.closing
             THEN [sink EXCEPT !.closing = ~recording.active,
                               !.queue = Append(@, IF recording.active THEN "checkpoint"
                                                                       ELSE "close")]
             ELSE sink
  /\ UNCHANGED <<disk, recording, app, capFaults>>

(* saveTerminalLog: a capture that is there, with a hash when it was closed. *)
SavedRow ==
  IF disk.capture = NoFile THEN "none"
  ELSE IF ~recording.active /\ sink.slot = "closed" THEN "complete" ELSE "incomplete"
Newest(data) == IF data = <<>> THEN 0 ELSE data[Len(data)]
SaveRow ==
  /\ app = "up" /\ save.pc = "maintain" /\ sink.queue = <<>>
  /\ disk' = [disk EXCEPT !.row = SavedRow]
  /\ recording' = [recording EXCEPT
                     !.saved = IF sink.slot = "closed" /\ disk.state = NoFile
                               THEN Newest(Written(disk.capture))
                               ELSE IF disk.state = NoFile THEN @ ELSE Newest(disk.state)]
  /\ save' = [save EXCEPT !.pc = IF save.finished THEN "retain" ELSE "idle"]
  /\ UNCHANGED <<sink, app, capFaults>>

(* Retention of an ended session.  What cannot be read to its footer ends  *)
(* the save with an error.                                                 *)
Retaining == save.pc = "retain" \/ app = "retain"
Oversized == disk.capture # NoFile /\ VerifyComplete(disk.capture)
             /\ Whole(disk.capture) > MaxKept
RetentionOver ==
  /\ save' = NoSave
  /\ app' = IF app = "up" THEN "up" ELSE "back"

NothingToRetain ==
  /\ Retaining /\ ~Oversized /\ disk.compact = NoFile /\ disk.backup = NoFile
  /\ RetentionOver /\ UNCHANGED <<disk, sink, recording, capFaults>>

(* The newest chunks in a file of their own, closed like any capture.      *)
Compact ==
  /\ Retaining /\ Oversized /\ disk.compact = NoFile
  /\ LET n == Whole(disk.capture)
         kept == SubSeq(DataOf(disk.capture, n), n - MaxKept + 1, n)
     IN  disk' = [disk EXCEPT
                    !.compact = <<Header>> \o [i \in 1 .. MaxKept |-> Chunk(i - 1, kept[i])]
                                \o <<Footer(MaxKept, kept)>>]
  /\ UNCHANGED <<sink, recording, save, app, capFaults>>

MoveToBackup ==
  /\ Retaining /\ disk.compact # NoFile /\ disk.backup = NoFile
  /\ disk' = [disk EXCEPT !.backup = disk.capture, !.capture = NoFile]
  /\ UNCHANGED <<sink, recording, save, app, capFaults>>

(* The compacted file takes the name and the row its hash, or the backup   *)
(* gets the name back.                                                     *)
SwapCompacted ==
  /\ Retaining /\ disk.backup # NoFile
  /\ \/ /\ disk' = [disk EXCEPT !.capture = disk.compact, !.durable = Len(disk.compact),
                                !.compact = NoFile, !.backup = NoFile, !.state = NoFile,
                                !.row = "complete"]
        /\ UNCHANGED capFaults
     \/ /\ MayFail /\ capFaults' = capFaults + 1
        /\ disk' = [disk EXCEPT !.capture = disk.backup, !.compact = NoFile, !.backup = NoFile]
  /\ RetentionOver /\ UNCHANGED <<sink, recording>>

-----------------------------------------------------------------------------
(* The end of the program, a crash, and startup.                           *)

Ended == recording' = [recording EXCEPT !.active = FALSE] /\ sink' = NoSink /\ save' = NoSave

(* _performFlushAndClose saves before it ends the native library.  By the  *)
(* next start the system has written back what is in its cache.            *)
Shutdown ==
  /\ app = "up" /\ save.pc = "idle" /\ ~recording.active
  /\ sink.slot \in {"none", "failed", "closed"}
  /\ app' = "down" /\ Ended /\ UNCHANGED capFaults
  /\ disk' = [disk EXCEPT !.durable = IF disk.capture = NoFile THEN 0 ELSE Len(disk.capture)]

Surviving(f) ==
  IF f = NoFile THEN {NoFile}
  ELSE LET lengths == disk.durable .. Len(f) IN
       {SubSeq(f, 1, k) : k \in lengths} \cup (IF disk.durable = 0 THEN {NoFile} ELSE {})
       \cup {Append(SubSeq(f, 1, k), Torn) : k \in lengths \ {Len(f)}}

(* Between the two renames of a compaction the capture has no name that    *)
(* startup knows: it is lost (saved = -1).                                 *)
Crash ==
  /\ app # "down" /\ MayFail /\ capFaults' = capFaults + 1 /\ app' = "down"
  /\ \E f \in Surviving(disk.capture) :
       disk' = [disk EXCEPT !.capture = f, !.durable = IF f = NoFile THEN 0 ELSE Len(f)]
  /\ recording' = [recording EXCEPT !.active = FALSE,
                                    !.saved = IF disk.backup # NoFile THEN -1 ELSE @]
  /\ sink' = NoSink /\ save' = NoSave

Startup(from) == app = from /\ UNCHANGED <<sink, recording, save>>

IncompleteCapture == disk.row = "incomplete"
ClearMissing == disk' = [disk EXCEPT !.row = "none"]
Recover ==
  /\ Startup("down") /\ UNCHANGED capFaults
  /\ \/ /\ IncompleteCapture /\ disk.capture = NoFile
        /\ ClearMissing /\ app' = "clean"
     \/ /\ ~IncompleteCapture
        /\ app' = "clean" /\ UNCHANGED disk
     \/ /\ IncompleteCapture /\ disk.capture # NoFile /\ UNCHANGED disk
        /\ app' = CASE Recovery(disk.capture, disk.state) = "refused" -> "clean"
                    [] Recovery(disk.capture, disk.state) = "complete" -> "unstate"
                    [] OTHER -> "footer"

(* finalize_recovered_capture: the torn tail is cut and a footer written.  *)
FinalizeRecovered ==
  /\ Startup("footer")
  /\ LET n == Whole(disk.capture)
         whole == SubSeq(disk.capture, 1, n + 1)
     IN  \/ /\ disk' = [disk EXCEPT !.durable = n + 1,
                          !.capture = Append(whole, Footer(n, DataOf(disk.capture, n)))]
            /\ app' = "sync" /\ UNCHANGED capFaults
         \/ /\ MayFail /\ capFaults' = capFaults + 1
            /\ disk' = [disk EXCEPT !.capture = Append(whole, Torn), !.durable = n + 1]
            /\ app' = "clean"
RecoveredOnDisk ==
  /\ Startup("sync")
  /\ disk' = [disk EXCEPT !.durable = Len(disk.capture)]
  /\ app' = "unstate" /\ UNCHANGED capFaults
RecoveredWithoutState ==
  /\ Startup("unstate")
  /\ disk' = [disk EXCEPT !.state = NoFile]
  /\ app' = "row" /\ UNCHANGED capFaults
(* finalize_recovered_terminal_capture gives the row the hash.             *)
RecoveredRow ==
  /\ Startup("row")
  /\ disk' = [disk EXCEPT !.row = "complete"]
  /\ app' = "clean" /\ UNCHANGED capFaults

(* Rows are asked for the files they name; anything else in the directory  *)
(* goes, and the state of a capture that is complete.                      *)
ReferencedFile == disk.row # "none"
CleanupOrphans ==
  /\ Startup("clean")
  /\ disk' = [disk EXCEPT !.compact = NoFile, !.backup = NoFile,
                          !.capture = IF ReferencedFile THEN @ ELSE NoFile,
                          !.state = IF IncompleteCapture THEN @ ELSE NoFile]
  /\ app' = "retain" /\ UNCHANGED capFaults

SinkSteps ==
  \/ Add \/ OpenWriter \/ DrainPending \/ SyncData \/ WriteCheckpointSidecar \/ DrainAfter
  \/ WriteFooter \/ SyncAll \/ RemoveCheckpointSidecar
SaveSteps ==
  \/ Finish \/ CheckpointCaptures \/ SaveRow
  \/ NothingToRetain \/ Compact \/ MoveToBackup \/ SwapCompacted
StartupSteps ==
  \/ Recover \/ FinalizeRecovered \/ RecoveredOnDisk \/ RecoveredWithoutState
  \/ RecoveredRow \/ CleanupOrphans
CaptureNext == SinkSteps \/ SaveSteps \/ Shutdown \/ Crash \/ StartupSteps
CaptureSpec == CaptureInit /\ [][CaptureNext]_captureVars

-----------------------------------------------------------------------------
FileOK(f) == f = NoFile \/ f \in Seq(Records)
(* The files, the sink and the save have their shapes and their bounds.    *)
CaptureTypeOK ==
  /\ FileOK(disk.capture) /\ FileOK(disk.compact) /\ FileOK(disk.backup)
  /\ disk.row \in {"none", "incomplete", "complete"}
  /\ sink.slot \in {"none", "opening", "ready", "closed", "failed"}
  /\ Len(sink.queue) <= 1 /\ recording.saved <= recording.output
  /\ capFaults \in 0 .. MaxFaults

(* Whatever order output, the opening of the file and saves come in, what  *)
(* an open sink has written and what it still holds is all the output of   *)
(* the session, in its order.                                              *)
OutputInOrder ==
  sink.slot \in {"opening", "ready"} /\ ~sink.closing =>
    (IF sink.slot = "ready" THEN Written(disk.capture) ELSE <<>>) \o sink.pending
      = [i \in 1 .. recording.output |-> i]

(* What a save reported as saved is in the capture after any crash, failed *)
(* write or interrupted recovery: startup leaves a capture that verifies   *)
(* and has the newest chunk that was saved, or, when it could not write,   *)
(* one the next startup will accept.                                       *)
SavedSurvives ==
  app = "back" /\ recording.saved > 0 /\ MaxKept > 0 =>
    \/ /\ disk.row = "complete" /\ VerifyComplete(disk.capture)
       /\ Newest(Written(disk.capture)) >= recording.saved
    \/ /\ disk.row = "incomplete" /\ Recovery(disk.capture, disk.state) # "refused"
       /\ Newest(DataOf(disk.capture, Whole(disk.capture))) >= recording.saved

(* A log row with the hash of its capture names a file that verifies, while *)
(* a compaction exchanges it the backup does, unless the exchange was cut. *)
CompleteVerifies ==
  disk.row = "complete" =>
    \/ VerifyComplete(disk.capture) \/ VerifyComplete(disk.backup)
    \/ recording.saved = -1

(* A log stays readable: what its row vouches for and what a save reported. *)
CaptureSurvives == SavedSurvives /\ CompleteVerifies
=============================================================================
