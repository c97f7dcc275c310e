---------------------------- MODULE SftpTransfer ----------------------------
(***************************************************************************)
(* What one SFTP task does to the files of a host once its session is open *)
(* (ssh/sftp.rs): upload with a staging path, download, move, copy, mkdir  *)
(* and delete, each a sequence of SFTP requests, while other tasks of the  *)
(* application work on the same directory over sessions of their own.      *)
(*                                                                         *)
(* A remote item is a file or a folder with the set of the parts that have *)
(* arrived: the chunks of a file, or the files of a folder.  One directory *)
(* is modelled; nested folders are parts.  A request that fails may have   *)
(* been performed all the same (its answer was lost or came too late), and *)
(* the session may be gone after it.                                       *)
(***************************************************************************)
EXTENDS Integers, FiniteSets

CONSTANTS
  Names,        \* the paths of the modelled directory that a user names
  Tasks,        \* the SFTP tasks of the run
  Parts,        \* the numbered parts a complete item consists of
  Plans,        \* the combinations of requests explored: [Tasks -> Requests]
  MaxFaults,    \* bound: failing requests and lost sessions
  NoItem        \* nothing at this path

ASSUME TransferAssumption ==
  /\ Parts \subseteq Nat /\ Parts # {} /\ IsFiniteSet(Parts)
  /\ MaxFaults \in Nat
  /\ NoItem \notin [kind : {"file", "folder"}, parts : SUBSET Parts]

VARIABLES
  remote,       \* path -> item
  held,         \* the names that held an item when the tasks began (history)
  task,         \* task -> its record; "written" is what a download has put in
                \* its local target
  stopping,     \* task -> the cancel flag of the task (SftpTaskProgress.cancel)
  online,       \* task -> its SFTP session still answers
  faults,       \* faults so far
  posix         \* the server's rename replaces an existing file

transferVars == <<remote, held, task, stopping, online, faults, posix>>

Purposes == {"upload", "backup"}
Requests ==
  [op : {"download", "upload", "move", "copy", "mkdir", "delete"},
   source : Names, target : Names, kind : {"file", "folder"}, replace : BOOLEAN]

ASSUME PlansAssumption == Plans \subseteq [Tasks -> Requests]

Items == [kind : {"file", "folder"}, parts : SUBSET Parts]
Item(k, ps) == [kind |-> k, parts |-> ps]
Complete(i) == i # NoItem /\ i.parts = Parts

(* unique_remote_staging_path: the candidates carry the process and a number that is  *)
(* never given twice, so that a path belongs to one task and one purpose.  *)
UniqueStagingPath(t, purpose) == <<t, purpose>>
Paths == Names \cup {UniqueStagingPath(t, p) : t \in Tasks, p \in Purposes}

ASSUME StagingAssumption ==
  \A t \in Tasks, p \in Purposes : UniqueStagingPath(t, p) \notin Names

TransferInit ==
  /\ remote \in [Paths -> Items \cup {NoItem}]
  /\ \A p \in Paths : remote[p] = NoItem \/ (p \in Names /\ Complete(remote[p]))
  /\ held = {n \in Names : remote[n] # NoItem}
  /\ \E plan \in Plans :
       task = [t \in Tasks |-> [request |-> plan[t], pc |-> "start", kind |-> "file",
                                left |-> {}, written |-> {}, result |-> "running"]]
  /\ stopping = [t \in Tasks |-> FALSE]
  /\ online = [t \in Tasks |-> TRUE]
  /\ faults = 0
  /\ posix \in BOOLEAN

-----------------------------------------------------------------------------
(* The task's own record.                                                  *)

Op(t) == task[t].request.op
Source(t) == task[t].request.source
Target(t) == task[t].request.target
At(t, op, pc) == Op(t) = op /\ task[t].pc = pc

Goto(t, pc) == [task[t] EXCEPT !.pc = pc]
Succeeded(t) == [task[t] EXCEPT !.pc = "done", !.result = "ok"]
Failed(t) == [task[t] EXCEPT !.pc = "done", !.result = "error"]

(* SftpTaskProgress::ensure_not_cancelled, the guard of every step of a    *)
(* loop; when it fails the step returns the error instead.                 *)
EnsureNotCancelled(t) == ~stopping[t]

(* The outcome of a request whose effect on the files is `after`: the task *)
(* goes on as `good`, or as `bad` when the request fails.                  *)
Request(t, after, good, bad) ==
  /\ \/ /\ online[t]
        /\ remote' = after /\ task' = [task EXCEPT ![t] = good]
        /\ UNCHANGED <<online, faults>>
     \/ /\ online[t] /\ faults < MaxFaults
        /\ remote' \in {remote, after} /\ task' = [task EXCEPT ![t] = bad]
        /\ \E up \in BOOLEAN : online' = [online EXCEPT ![t] = up]
        /\ faults' = faults + 1
     \/ /\ ~online[t]
        /\ task' = [task EXCEPT ![t] = bad]
        /\ UNCHANGED <<remote, online, faults>>
  /\ UNCHANGED <<held, stopping, posix>>

Local(t, next) ==
  /\ task' = [task EXCEPT ![t] = next]
  /\ UNCHANGED <<remote, held, stopping, online, faults, posix>>

(* sftp.metadata(path).is_ok(): a request that fails reads as "absent".    *)
Stat(t, p, found, absent) ==
  Request(t, remote, IF remote[p] # NoItem THEN found ELSE absent, absent)

(* A request that the server refuses changes nothing and keeps the session.*)
Attempt(t, possible, after, good, bad) ==
  IF possible THEN Request(t, after, good, bad) ELSE Request(t, remote, bad, bad)

WithPart(p, k, i) ==
  [remote EXCEPT ![p] = IF @ = NoItem THEN Item(k, {i}) ELSE Item(@.kind, @.parts \cup {i})]
WithoutPart(p, i) == [remote EXCEPT ![p].parts = @ \ {i}]

CanRename(from, to) ==
  /\ remote[from] # NoItem
  /\ \/ remote[to] = NoItem
     \/ posix /\ remote[from].kind = "file" /\ remote[to].kind = "file"
Rename(t, from, to, good, bad) ==
  Attempt(t, CanRename(from, to),
          [remote EXCEPT ![to] = remote[from], ![from] = NoItem], good, bad)

(* ensure_sftp_directory: an existing folder will do, a file will not.     *)
EnsureDirectory(t, p, good, bad) ==
  Attempt(t, remote[p] = NoItem \/ remote[p].kind = "folder",
          [remote EXCEPT ![p] = IF @ = NoItem THEN Item("folder", {}) ELSE @], good, bad)

(* sftp.create(path): an existing file is truncated.                       *)
CreateFile(t, p, good, bad) ==
  Attempt(t, remote[p] = NoItem \/ remote[p].kind = "file",
          [remote EXCEPT ![p] = Item("file", {})], good, bad)

(* remote_path_total walks the tree; it only reads, and records what the   *)
(* operations need of it: whether the path is a folder, and what is in it. *)
RemotePathTotal(t, p, next) ==
  IF ~EnsureNotCancelled(t) THEN Local(t, Failed(t))
  ELSE Attempt(t, remote[p] # NoItem, remote, next, Failed(t))

Listed(t, p, pc) ==
  [task[t] EXCEPT !.pc = pc, !.kind = remote[p].kind, !.left = remote[p].parts]

(* The order of a file's parts is the file's; a folder's is the server's.  *)
NextParts(t) ==
  IF task[t].kind = "file" THEN {i \in task[t].left : \A j \in task[t].left : i <= j}
  ELSE task[t].left
PartDone(t, i) == [task[t] EXCEPT !.left = @ \ {i}]

(* Reading on: a file that another task shortened ends here, and the loop   *)
(* takes that for its end; a file of a folder that is gone is an error; an  *)
(* open file whose path is gone may still be readable.                      *)
ReadPart(t, i, after, good) ==
  LET here == remote[Source(t)] IN
  \/ /\ IF here = NoItem THEN task[t].kind = "file" ELSE i \in here.parts
     /\ Request(t, after, good, Failed(t))
  \/ /\ here = NoItem
     /\ Local(t, Failed(t))
  \/ /\ here # NoItem /\ i \notin here.parts
     /\ Local(t, IF task[t].kind = "file" THEN Succeeded(t) ELSE Failed(t))

(* remove_remote_path_quiet: piece by piece, giving up at the first error; *)
(* it reads no cancel flag.                                                *)
RemoveQuiet(t, p, end) ==
  \/ /\ remote[p] = NoItem
     /\ Local(t, end)
  \/ /\ remote[p] # NoItem /\ remote[p].kind = "folder"
     /\ \E i \in remote[p].parts : Request(t, WithoutPart(p, i), task[t], end)
  \/ /\ remote[p] # NoItem /\ (remote[p].kind = "file" \/ remote[p].parts = {})
     /\ Request(t, [remote EXCEPT ![p] = NoItem], end, end)

-----------------------------------------------------------------------------
(* Upload: beside the target first, then into its place.                   *)

(* local_path_total: the local tree is read, or the task ends here.        *)
LocalPathTotal(t) ==
  /\ At(t, "upload", "start")
  /\ Local(t, IF EnsureNotCancelled(t)
              THEN [task[t] EXCEPT !.pc = "check", !.kind = task[t].request.kind, !.left = Parts]
              ELSE Failed(t))

UploadCheck(t) ==
  /\ At(t, "upload", "check")
  /\ IF task[t].request.replace THEN Local(t, Goto(t, "stage"))
     ELSE Stat(t, Target(t), Failed(t), Goto(t, "stage"))

(* upload_sftp_path: the folder, or upload_sftp_file: the empty file.      *)
UploadStage(t) ==
  LET staging == UniqueStagingPath(t, "upload") IN
  /\ At(t, "upload", "stage")
  /\ IF task[t].kind = "folder"
     THEN EnsureDirectory(t, staging, Goto(t, "send"), Goto(t, "clean"))
     ELSE IF EnsureNotCancelled(t)
          THEN CreateFile(t, staging, Goto(t, "send"), Goto(t, "clean"))
          ELSE Local(t, Goto(t, "clean"))

UploadSend(t) ==
  LET staging == UniqueStagingPath(t, "upload") IN
  /\ At(t, "upload", "send")
  /\ IF ~EnsureNotCancelled(t) THEN Local(t, Goto(t, "clean"))
     ELSE IF task[t].left = {} THEN Local(t, Goto(t, "commit"))
     ELSE \E i \in NextParts(t) :
            Request(t, WithPart(staging, task[t].kind, i), PartDone(t, i), Goto(t, "clean"))

(* commit_remote_staging_path, one request at a time; no cancel is seen.   *)
CommitCheck(t) ==
  /\ At(t, "upload", "commit")
  /\ Stat(t, Target(t),
          Goto(t, IF task[t].request.replace THEN "overwrite" ELSE "clean"),
          Goto(t, "publishNew"))

CommitKeepingBackup(t) ==
  LET staging == UniqueStagingPath(t, "upload")
      backup == UniqueStagingPath(t, "backup") IN
  \/ /\ At(t, "upload", "publishNew")
     /\ Rename(t, staging, Target(t), Succeeded(t), Goto(t, "clean"))
  \/ /\ At(t, "upload", "overwrite")
     /\ Rename(t, staging, Target(t), Succeeded(t), Goto(t, "preserve"))
  \/ /\ At(t, "upload", "preserve")
     /\ Rename(t, Target(t), backup, Goto(t, "publish"), Goto(t, "clean"))
  \/ /\ At(t, "upload", "publish")
     /\ Rename(t, staging, Target(t), Goto(t, "discard"), Goto(t, "restore"))
  \/ /\ At(t, "upload", "restore")
     /\ Rename(t, backup, Target(t), Goto(t, "clean"), Goto(t, "clean"))

(* A plausible bug: the old item is removed to make room for the new one.  *)
CommitAfterDelete(t) ==
  IF At(t, "upload", "preserve")
  THEN Request(t, [remote EXCEPT ![Target(t)] = NoItem], Goto(t, "publish"), Goto(t, "clean"))
  ELSE CommitKeepingBackup(t)

CommitRename(t) == CommitKeepingBackup(t)

(* The backup goes once the new item is in place, the staging path when    *)
(* the upload failed.                                                      *)
CommitDiscard(t) ==
  /\ At(t, "upload", "discard")
  /\ RemoveQuiet(t, UniqueStagingPath(t, "backup"), Succeeded(t))
UploadClean(t) ==
  /\ At(t, "upload", "clean")
  /\ RemoveQuiet(t, UniqueStagingPath(t, "upload"), Failed(t))

-----------------------------------------------------------------------------
(* Download writes straight into the local target.                         *)

DownloadStart(t) ==
  /\ At(t, "download", "start")
  /\ RemotePathTotal(t, Source(t), Listed(t, Source(t), "create"))

DownloadCreate(t) ==
  /\ At(t, "download", "create")
  /\ Local(t, IF task[t].kind = "folder" \/ EnsureNotCancelled(t)
              THEN [task[t] EXCEPT !.pc = "receive", !.written = {}] ELSE Failed(t))

DownloadPart(t) ==
  /\ At(t, "download", "receive")
  /\ IF ~EnsureNotCancelled(t) THEN Local(t, Failed(t))
     ELSE IF task[t].left = {} THEN Local(t, Succeeded(t))
     ELSE \E i \in NextParts(t) :
            ReadPart(t, i, remote, [PartDone(t, i) EXCEPT !.written = @ \cup {i}])

-----------------------------------------------------------------------------
(* Delete, which move and copy call for a target they may replace.         *)

AfterDelete(t) ==
  CASE Op(t) = "delete" -> Succeeded(t)
    [] Op(t) = "move" -> Goto(t, "rename")
    [] OTHER -> Goto(t, "total")

DeleteStart(t) ==
  /\ At(t, "delete", "start") \/ task[t].pc = "delete"
  /\ RemotePathTotal(t, Target(t), Listed(t, Target(t), "remove"))

DeletePart(t) ==
  /\ task[t].pc = "remove"
  /\ IF ~EnsureNotCancelled(t) /\ task[t].kind = "folder" THEN Local(t, Failed(t))
     ELSE IF task[t].kind = "folder" /\ task[t].left # {}
     THEN \E i \in task[t].left :
            Attempt(t, remote[Target(t)] # NoItem /\ i \in remote[Target(t)].parts,
                    [remote EXCEPT ![Target(t)] =
                       IF @ = NoItem THEN @ ELSE Item(@.kind, @.parts \ {i})],
                    PartDone(t, i), Failed(t))
     ELSE Attempt(t, /\ remote[Target(t)] # NoItem
                     /\ remote[Target(t)].kind = task[t].kind
                     /\ task[t].kind = "folder" => remote[Target(t)].parts = {},
                  [remote EXCEPT ![Target(t)] = NoItem], AfterDelete(t), Failed(t))

-----------------------------------------------------------------------------
(* Move and copy.                                                          *)

(* same_remote_path and remote_path_is_child, on the paths of one          *)
(* directory: a folder is neither moved nor copied onto itself.            *)
SameRemotePath(t) == Source(t) = Target(t)

MoveCheck(t) ==
  /\ At(t, "move", "start")
  /\ IF SameRemotePath(t) THEN Local(t, Failed(t))
     ELSE RemotePathTotal(t, Source(t), Goto(t, "target"))

CopyCheck(t) ==
  /\ At(t, "copy", "start")
  /\ IF SameRemotePath(t) THEN Local(t, Failed(t))
     ELSE RemotePathTotal(t, Source(t), Goto(t, "target"))

ReplaceTarget(t) ==
  /\ Op(t) \in {"move", "copy"} /\ task[t].pc = "target"
  /\ Stat(t, Target(t),
          IF task[t].request.replace THEN Goto(t, "delete") ELSE Failed(t),
          Goto(t, IF Op(t) = "move" THEN "rename" ELSE "total"))

MoveRename(t) ==
  /\ At(t, "move", "rename")
  /\ Rename(t, Source(t), Target(t), Succeeded(t), Failed(t))

CopyTotal(t) ==
  /\ At(t, "copy", "total")
  /\ RemotePathTotal(t, Source(t), Listed(t, Source(t), "open"))

CopyOpen(t) ==
  /\ At(t, "copy", "open")
  /\ IF task[t].kind = "folder"
     THEN EnsureDirectory(t, Target(t), Goto(t, "copy"), Failed(t))
     ELSE IF EnsureNotCancelled(t)
          THEN CreateFile(t, Target(t), Goto(t, "copy"), Failed(t))
          ELSE Local(t, Failed(t))

CopyPart(t) ==
  /\ At(t, "copy", "copy")
  /\ IF ~EnsureNotCancelled(t) THEN Local(t, Failed(t))
     ELSE IF task[t].left = {} THEN Local(t, Succeeded(t))
     ELSE \E i \in NextParts(t) :
            ReadPart(t, i, WithPart(Target(t), task[t].kind, i), PartDone(t, i))

-----------------------------------------------------------------------------
MkdirCheck(t) ==
  /\ At(t, "mkdir", "start")
  /\ IF EnsureNotCancelled(t) THEN Stat(t, Target(t), Failed(t), Goto(t, "make"))
     ELSE Local(t, Failed(t))
MkdirCreate(t) ==
  /\ At(t, "mkdir", "make")
  /\ Attempt(t, remote[Target(t)] = NoItem,
             [remote EXCEPT ![Target(t)] = Item("folder", {})], Succeeded(t), Failed(t))

(* cancel_sftp_task from the window that shows the task.                   *)
CancelTask(t) ==
  /\ task[t].pc # "done" /\ ~stopping[t]
  /\ stopping' = [stopping EXCEPT ![t] = TRUE]
  /\ UNCHANGED <<remote, held, task, online, faults, posix>>

TransferNext ==
  \E t \in Tasks :
    \/ LocalPathTotal(t) \/ UploadCheck(t) \/ UploadStage(t) \/ UploadSend(t)
    \/ CommitCheck(t) \/ CommitRename(t) \/ CommitDiscard(t) \/ UploadClean(t)
    \/ DownloadStart(t) \/ DownloadCreate(t) \/ DownloadPart(t)
    \/ DeleteStart(t) \/ DeletePart(t)
    \/ MoveCheck(t) \/ CopyCheck(t) \/ ReplaceTarget(t) \/ MoveRename(t)
    \/ CopyTotal(t) \/ CopyOpen(t) \/ CopyPart(t)
    \/ MkdirCheck(t) \/ MkdirCreate(t)
    \/ CancelTask(t)

TransferSpec == TransferInit /\ [][TransferNext]_transferVars

TransferTypeOK ==
  /\ remote \in [Paths -> Items \cup {NoItem}]
  /\ held \subseteq Names
  /\ \A t \in Tasks :
       /\ task[t].request \in Requests /\ task[t].left \subseteq Parts /\ task[t].written \subseteq Parts
       /\ task[t].result \in {"running", "ok", "error"}
       /\ (task[t].pc = "done") = (task[t].result # "running")
  /\ stopping \in [Tasks -> BOOLEAN]
  /\ online \in [Tasks -> BOOLEAN]
  /\ faults \in 0..MaxFaults
  /\ posix \in BOOLEAN

(* Uploads alone never lose what was there: where nobody deletes the path, *)
(* moves it away or copies over it, a path that held a complete item holds *)
(* one still, or the item it held waits whole at the backup path of an     *)
(* upload to it -- whatever request fails or is performed unnoticed,       *)
(* whenever the task is cancelled, and with two uploads to one target.     *)
Taken(n) ==
  \E t \in Tasks :
    \/ Op(t) = "delete" /\ Target(t) = n
    \/ Op(t) = "move" /\ n \in {Source(t), Target(t)}
    \/ Op(t) = "copy" /\ Target(t) = n
UploadKeepsTarget ==
  \A n \in held :
    Taken(n) \/ Complete(remote[n])
      \/ \E t \in Tasks : Op(t) = "upload" /\ Target(t) = n
                            /\ Complete(remote[UniqueStagingPath(t, "backup")])
=============================================================================
