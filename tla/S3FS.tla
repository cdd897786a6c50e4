------------------------------- MODULE S3FS --------------------------------
(***************************************************************************)
(* The filesystem view over a bucket (internal/s3fs/fs.go and dir.go):     *)
(* the operations FTP sessions run against one shared bucket.              *)
(*                                                                         *)
(* No operation is atomic.  Each is a sequence of S3 calls, and one action *)
(* here is one S3 call together with the local code up to the next call,   *)
(* so the calls of different sessions interleave as they do in the server. *)
(* A session runs one operation at a time.  Uploads appear as the single   *)
(* S3 call that makes their object visible; module Upload models the rest. *)
(***************************************************************************)
EXTENDS S3Bucket

CONSTANTS Sessions,
          Root,       \* rootPrefix of each session's view
          ReadOnly,   \* readOnly of each session's view
          DirMarker,  \* dirMarker of each session's view
          ClientPaths, \* the cleaned paths the clients name
          Buckets,    \* what the bucket may hold at the start
          Faults,     \* which of "error", "lost", "keyerr" S3 calls may show
          PageSize,   \* keys per ListObjectsV2 page
          BatchSize,  \* keys per DeleteObjects call (deleteKeys: 1000)
          MaxOps      \* bound: operations per session

ASSUME S3FSAssumption ==
  /\ Root \in [Sessions -> RootPrefix]
  /\ ReadOnly \in [Sessions -> BOOLEAN]
  /\ DirMarker \in [Sessions -> BOOLEAN]
  /\ ClientPaths \subseteq Path
  /\ \A b \in Buckets : /\ IsBucket(b) /\ IsFiniteSet(DOMAIN b)
                        /\ \A k \in DOMAIN b : EndsInSlash(k) => b[k] = Empty
  /\ Faults \subseteq {"error", "lost", "keyerr"}
  /\ PageSize \in Nat \ {0}
  /\ BatchSize \in Nat \ {0}
  /\ MaxOps \in Nat

VARIABLES bucket,  \* the shared object store
          sess,    \* the operation each session is running, or ran last
          left,    \* operations each session may still start
          pre      \* history: the bucket when the session's operation began

vars == <<bucket, sess, left, pre>>

Ops == {"none", "mkdir", "mkdirall", "remove", "rmdir", "removeall", "rename", "stor"}

\* Errors decided by the gateway itself: the operation was refused.
Refusals == {"readonly", "EACCES", "EEXIST", "EISDIR", "EINVAL",
             "ENOENT", "ENOTDIR", "ENOTEMPTY"}

Replies == Refusals \cup {"none", "ok", "s3"}

\* The S3 call a session is about to make; "stat_done" is the return of Stat.
Calls == {"stat_head", "stat_list", "mkdir_head", "mkdir_list", "mkdir_put",
          "delete_file", "rmdir_list", "rmdir_delete", "rename_probe",
          "rename_probe_dir", "copy_file", "delete_old", "list_keys",
          "copy_keys", "delete_keys", "delete_marker", "put_object"}

Request == [op: Ops, pc: Calls \cup {"idle", "stat_done"}, path: Path, new: Path,
            data: Content, info: {"none", "file", "dir"}, token: Key,
            listed: SUBSET Key, todo: SUBSET Key, reply: Replies]

Fresh == [op |-> "none", pc |-> "idle", path |-> <<>>, new |-> <<>>,
          data |-> Empty, info |-> "none", token |-> <<>>,
          listed |-> {}, todo |-> {}, reply |-> "none"]

TypeOK ==
  /\ IsBucket(bucket)
  /\ sess \in [Sessions -> Request]
  /\ left \in [Sessions -> Nat]
  /\ DOMAIN pre = Sessions /\ \A s \in Sessions : IsBucket(pre[s])

Init ==
  /\ bucket \in Buckets
  /\ sess = [s \in Sessions |-> Fresh]
  /\ left = [s \in Sessions |-> MaxOps]
  /\ pre = [s \in Sessions |-> bucket]

key(s, p) == joinRoot(Root[s], p)

keyDir(s, p) == dirKey(Root[s], p)

prefixHasObjects(prefix) == KeysUnder(bucket, prefix) # {}

(***************************************************************************)
(* Control.  An operation ends with a reply, or goes on to its next call.  *)
(***************************************************************************)
At(s, pc) == sess[s].pc = pc

Goto(s, pc) == sess' = [sess EXCEPT ![s].pc = pc]

Return(s, reply) ==
  sess' = [sess EXCEPT ![s].pc = "idle", ![s].reply = reply, ![s].info = "none",
                       ![s].token = <<>>, ![s].listed = {}, ![s].todo = {}]

NoEffect == UNCHANGED <<bucket, left, pre>>

Effect(b) == bucket' = b /\ UNCHANGED <<left, pre>>

\* The call took effect, but its response may be lost on the way back
\* (timeout of the 30 s metaContext, broken connection): the caller sees an
\* error.
Lost == IF "lost" \in Faults THEN BOOLEAN ELSE {FALSE}

\* DeleteObjects answers 200 with a list of keys it could not delete;
\* deleteKeys drops that list.
KeyErrors(batch) == IF "keyerr" \in Faults THEN SUBSET batch ELSE {{}}

\* An operation starts; `early` is the reply of its early return, if any.
Begin(s, op, p, n, c, early, pc) ==
  /\ At(s, "idle")
  /\ left[s] > 0
  /\ left' = [left EXCEPT ![s] = @ - 1]
  /\ pre' = [pre EXCEPT ![s] = bucket]
  /\ sess' = [sess EXCEPT ![s] = [Fresh EXCEPT
                !.op = op, !.path = p, !.new = n, !.data = c,
                !.pc = IF early = "none" THEN pc ELSE "idle",
                !.reply = early]]
  /\ UNCHANGED bucket

\* Mutant: the root directory is refused with an errno no caller expects.
GuardedWrongErrno(s, p, atRoot) ==
  IF ReadOnly[s] THEN "readonly" ELSE IF p = <<>> THEN "EPERM" ELSE "none"

\* The early returns shared by the mutating operations on one path.
Guarded(s, p, atRoot) ==
  IF ReadOnly[s] THEN "readonly" ELSE IF p = <<>> THEN atRoot ELSE "none"

(***************************************************************************)
(* Stat: HeadObject on the key, then a listing of one key under it.        *)
(***************************************************************************)
StatHead(s) ==
  /\ At(s, "stat_head")
  /\ IF key(s, sess[s].path) \in DOMAIN bucket
       THEN sess' = [sess EXCEPT ![s].pc = "stat_done", ![s].info = "file"]
       ELSE Goto(s, "stat_list")
  /\ NoEffect

StatList(s) ==
  /\ At(s, "stat_list")
  /\ sess' = [sess EXCEPT ![s].pc = "stat_done",
                          ![s].info = IF prefixHasObjects(keyDir(s, sess[s].path))
                                        THEN "dir" ELSE "none"]
  /\ NoEffect

Statted(s, op, info) == At(s, "stat_done") /\ sess[s].op = op /\ sess[s].info = info

(***************************************************************************)
(* Mkdir, MkdirAll                                                         *)
(***************************************************************************)
Mkdir(s, p) == Begin(s, "mkdir", p, <<>>, Empty, Guarded(s, p, "ok"), "mkdir_head")

MkdirHead(s) ==
  /\ At(s, "mkdir_head")
  /\ IF key(s, sess[s].path) \in DOMAIN bucket THEN Return(s, "EEXIST") ELSE Goto(s, "mkdir_list")
  /\ NoEffect

\* Mutant: s3.dir_marker is ignored.
MkdirListAlwaysMarks(s) ==
  /\ At(s, "mkdir_list")
  /\ IF prefixHasObjects(keyDir(s, sess[s].path)) THEN Return(s, "EEXIST") ELSE Goto(s, "mkdir_put")
  /\ NoEffect

MkdirList(s) ==
  /\ At(s, "mkdir_list")
  /\ \/ prefixHasObjects(keyDir(s, sess[s].path)) /\ Return(s, "EEXIST")
     \/ ~prefixHasObjects(keyDir(s, sess[s].path)) /\ ~DirMarker[s] /\ Return(s, "ok")
     \/ ~prefixHasObjects(keyDir(s, sess[s].path)) /\ DirMarker[s] /\ Goto(s, "mkdir_put")
  /\ NoEffect

MkdirPut(s) ==
  /\ At(s, "mkdir_put")
  /\ Effect(PutObject(bucket, keyDir(s, sess[s].path), Empty))
  /\ \E lost \in Lost : Return(s, IF lost THEN "s3" ELSE "ok")

MkdirAll(s, p) == Begin(s, "mkdirall", p, <<>>, Empty, Guarded(s, p, "ok"), "stat_head")

MkdirAllStat(s) ==
  /\ \/ Statted(s, "mkdirall", "none") /\ Goto(s, "mkdir_head")
     \/ \E i \in {"file", "dir"} : Statted(s, "mkdirall", i) /\ Return(s, "ok")
  /\ NoEffect

(***************************************************************************)
(* Remove, RemoveDir                                                       *)
(***************************************************************************)
Remove(s, p) == Begin(s, "remove", p, <<>>, Empty, Guarded(s, p, "EACCES"), "stat_head")

\* A directory is handed to RemoveDir, which stats the path again.
RemoveStat(s) ==
  /\ \/ Statted(s, "remove", "none") /\ Return(s, "ENOENT")
     \/ /\ Statted(s, "remove", "dir")
        /\ sess' = [sess EXCEPT ![s].op = "rmdir", ![s].pc = "stat_head", ![s].info = "none"]
     \/ Statted(s, "remove", "file") /\ Goto(s, "delete_file")
  /\ NoEffect

\* Mutant: an error of the deletion is taken for a missing file.
DeleteFileNotFound(s) ==
  /\ At(s, "delete_file")
  /\ Effect(DeleteObjects(bucket, {key(s, sess[s].path)}))
  /\ \E lost \in Lost : Return(s, IF lost THEN "ENOENT" ELSE "ok")

DeleteFile(s) ==
  /\ At(s, "delete_file")
  /\ Effect(DeleteObjects(bucket, {key(s, sess[s].path)}))
  /\ \E lost \in Lost : Return(s, IF lost THEN "s3" ELSE "ok")

RemoveDir(s, p) == Begin(s, "rmdir", p, <<>>, Empty, Guarded(s, p, "EACCES"), "stat_head")

RemoveDirStat(s) ==
  /\ \/ Statted(s, "rmdir", "none") /\ Return(s, "ENOENT")
     \/ Statted(s, "rmdir", "file") /\ Return(s, "ENOTDIR")
     \/ Statted(s, "rmdir", "dir") /\ Goto(s, "rmdir_list")
  /\ NoEffect

RemoveDirList(s) ==
  LET prefix == keyDir(s, sess[s].path)
  IN  /\ At(s, "rmdir_list")
      /\ IF \E k \in Least(2, KeysUnder(bucket, prefix)) : k # prefix
           THEN Return(s, "ENOTEMPTY")
           ELSE Goto(s, "rmdir_delete")
      /\ NoEffect

\* Mutant: the deletion is recursive, the directory having been found empty.
RemoveDirDeleteTree(s) ==
  /\ At(s, "rmdir_delete")
  /\ Effect(DeleteObjects(bucket, KeysUnder(bucket, keyDir(s, sess[s].path))))
  /\ \E lost \in Lost : Return(s, IF lost THEN "s3" ELSE "ok")

RemoveDirDelete(s) ==
  /\ At(s, "rmdir_delete")
  /\ Effect(DeleteObjects(bucket, {keyDir(s, sess[s].path)}))
  /\ \E lost \in Lost : Return(s, IF lost THEN "s3" ELSE "ok")

(***************************************************************************)
(* listAllKeys and deleteKeys, shared by RemoveAll and Rename              *)
(***************************************************************************)

\* Where an operation goes once its listed keys are copied or deleted.
AfterDelete(s) ==
  IF sess[s].op = "removeall" /\ sess[s].info # "none"
    THEN Goto(s, "delete_marker")
    ELSE Return(s, "ok")

\* Mutant: a page replaces the keys of the pages before it.
ListKeysLastPage(s) ==
  LET rest  == Remaining(bucket, keyDir(s, sess[s].path), sess[s].token)
      page  == Least(PageSize, rest)
      found == page
  IN  /\ At(s, "list_keys")
      /\ \/ /\ page # rest
            /\ \E last \in Greatest(page) :
                 sess' = [sess EXCEPT ![s].listed = found, ![s].token = last]
         \/ /\ page = rest
            /\ found # {}
            /\ sess' = [sess EXCEPT ![s].listed = found, ![s].todo = found, ![s].token = <<>>,
                          ![s].pc = IF sess[s].op = "rename" THEN "copy_keys" ELSE "delete_keys"]
         \/ page = rest /\ found = {} /\ AfterDelete(s)
      /\ NoEffect

\* Mutant: the continuation token is not passed on.
ListKeysSameToken(s) ==
  LET rest  == Remaining(bucket, keyDir(s, sess[s].path), sess[s].token)
      page  == Least(PageSize, rest)
      found == sess[s].listed \cup page
  IN  /\ At(s, "list_keys")
      /\ \/ /\ page # rest
            /\ sess' = [sess EXCEPT ![s].listed = found]
         \/ /\ page = rest
            /\ found # {}
            /\ sess' = [sess EXCEPT ![s].listed = found, ![s].todo = found, ![s].token = <<>>,
                          ![s].pc = IF sess[s].op = "rename" THEN "copy_keys" ELSE "delete_keys"]
         \/ page = rest /\ found = {} /\ AfterDelete(s)
      /\ NoEffect

\* One page.  After the last one, the keys found are copied (Rename) or
\* deleted (RemoveAll); an empty listing leaves both loops without a turn.
ListKeys(s) ==
  LET rest  == Remaining(bucket, keyDir(s, sess[s].path), sess[s].token)
      page  == Least(PageSize, rest)
      found == sess[s].listed \cup page
  IN  /\ At(s, "list_keys")
      /\ \/ /\ page # rest
            /\ \E last \in Greatest(page) :
                 sess' = [sess EXCEPT ![s].listed = found, ![s].token = last]
         \/ /\ page = rest
            /\ found # {}
            /\ sess' = [sess EXCEPT ![s].listed = found, ![s].todo = found, ![s].token = <<>>,
                          ![s].pc = IF sess[s].op = "rename" THEN "copy_keys" ELSE "delete_keys"]
         \/ page = rest /\ found = {} /\ AfterDelete(s)
      /\ NoEffect

DeleteKeys(s) ==
  LET batch == Least(BatchSize, sess[s].todo)
      rest  == sess[s].todo \ batch
  IN  /\ At(s, "delete_keys")
      /\ \E kept \in KeyErrors(batch) : Effect(DeleteObjects(bucket, batch \ kept))
      /\ \/ "lost" \in Faults /\ Return(s, "s3")
         \/ rest # {} /\ sess' = [sess EXCEPT ![s].todo = rest]
         \/ rest = {} /\ AfterDelete(s)

(***************************************************************************)
(* RemoveAll                                                               *)
(***************************************************************************)
RemoveAll(s, p) == Begin(s, "removeall", p, <<>>, Empty, Guarded(s, p, "EACCES"), "stat_head")

\* A missing path is listed all the same.
RemoveAllStat(s) ==
  /\ \/ Statted(s, "removeall", "file") /\ Goto(s, "delete_file")
     \/ \E i \in {"none", "dir"} : Statted(s, "removeall", i) /\ Goto(s, "list_keys")
  /\ NoEffect

DeleteMarker(s) ==
  /\ At(s, "delete_marker")
  /\ Effect(DeleteObjects(bucket, {keyDir(s, sess[s].path)}))
  /\ \E lost \in Lost : Return(s, IF lost THEN "s3" ELSE "ok")

(***************************************************************************)
(* Rename: copy, then delete.                                              *)
(***************************************************************************)
RenameGuard(s, p, n) ==
  CASE ReadOnly[s] -> "readonly"
    [] ~ReadOnly[s] /\ p = n -> "ok"
    [] ~ReadOnly[s] /\ p # n /\ <<>> \in {p, n} -> "EACCES"
    [] OTHER -> "none"

Rename(s, p, n) == Begin(s, "rename", p, n, Empty, RenameGuard(s, p, n), "stat_head")

RenameStat(s) ==
  LET intoItself == HasPrefix(keyDir(s, sess[s].new), keyDir(s, sess[s].path))
  IN  /\ \/ Statted(s, "rename", "none") /\ Return(s, "ENOENT")
         \/ Statted(s, "rename", "file") /\ Goto(s, "rename_probe")
         \/ Statted(s, "rename", "dir") /\ intoItself /\ Return(s, "EINVAL")
         \/ Statted(s, "rename", "dir") /\ ~intoItself /\ Goto(s, "rename_probe_dir")
      /\ NoEffect

RenameProbe(s) ==
  /\ \/ At(s, "rename_probe") /\ prefixHasObjects(keyDir(s, sess[s].new)) /\ Return(s, "EISDIR")
     \/ At(s, "rename_probe") /\ ~prefixHasObjects(keyDir(s, sess[s].new)) /\ Goto(s, "copy_file")
     \/ At(s, "rename_probe_dir") /\ prefixHasObjects(keyDir(s, sess[s].new)) /\ Return(s, "ENOTEMPTY")
     \/ At(s, "rename_probe_dir") /\ ~prefixHasObjects(keyDir(s, sess[s].new)) /\ Goto(s, "list_keys")
  /\ NoEffect

\* Mutant: the file is moved to the directory key of its new name.
CopyFileToDirKey(s) ==
  /\ At(s, "copy_file")
  /\ key(s, sess[s].path) \in DOMAIN bucket
  /\ Effect(PutObject(bucket, keyDir(s, sess[s].new), bucket[key(s, sess[s].path)]))
  /\ Goto(s, "delete_old")

\* CopyObject; a missing source is an S3 error.
CopyFile(s) ==
  LET from == key(s, sess[s].path)
      to   == key(s, sess[s].new)
  IN  /\ At(s, "copy_file")
      /\ \/ from \notin DOMAIN bucket /\ Return(s, "s3") /\ NoEffect
         \/ /\ from \in DOMAIN bucket
            /\ Effect(PutObject(bucket, to, bucket[from]))
            /\ \E lost \in Lost : IF lost THEN Return(s, "s3") ELSE Goto(s, "delete_old")

DeleteOld(s) ==
  /\ At(s, "delete_old")
  /\ Effect(DeleteObjects(bucket, {key(s, sess[s].path)}))
  /\ \E lost \in Lost : Return(s, IF lost THEN "s3" ELSE "ok")

\* Mutant: the new prefix is built without the root prefix of the view.
TargetOutsideRoot(s, k) == Retarget(k, keyDir(s, sess[s].path), dirKey(<<>>, sess[s].new))

Target(s, k) == Retarget(k, keyDir(s, sess[s].path), keyDir(s, sess[s].new))

\* One turn of the copy loop, in listing order; deletion starts after the last.
CopyKey(s) ==
  /\ At(s, "copy_keys")
  /\ \E from \in Least(1, sess[s].todo) :
       \/ from \notin DOMAIN bucket /\ Return(s, "s3") /\ NoEffect
       \/ /\ from \in DOMAIN bucket
          /\ Effect(PutObject(bucket, Target(s, from), bucket[from]))
          /\ \/ "lost" \in Faults /\ Return(s, "s3")
             \/ /\ sess[s].todo # {from}
                /\ sess' = [sess EXCEPT ![s].todo = @ \ {from}]
             \/ /\ sess[s].todo = {from}
                /\ sess' = [sess EXCEPT ![s].todo = sess[s].listed, ![s].pc = "delete_keys"]

(***************************************************************************)
(* The visible effect of an upload: GetHandle's checks, and later the call *)
(* that replaces the object (PutObject or CompleteMultipartUpload).        *)
(***************************************************************************)
StorGuard(s, p) ==
  IF p = <<>> THEN "EISDIR" ELSE IF ReadOnly[s] THEN "readonly" ELSE "none"

Stor(s, p, c) == Begin(s, "stor", p, <<>>, c, StorGuard(s, p), "put_object")

StorPut(s) ==
  /\ At(s, "put_object")
  /\ Effect(PutObject(bucket, key(s, sess[s].path), sess[s].data))
  /\ \E lost \in Lost : Return(s, IF lost THEN "s3" ELSE "ok")

\* Mutant: an error of CopyObject ends the copy loop, not the operation.
CallFailsThenDeletes(s) ==
  /\ "error" \in Faults
  /\ sess[s].pc \in Calls
  /\ IF sess[s].pc = "copy_keys"
       THEN sess' = [sess EXCEPT ![s].todo = sess[s].listed, ![s].pc = "delete_keys"]
       ELSE Return(s, "s3")
  /\ NoEffect

\* A call fails without effect: the operation reports the S3 error, except
\* that MkdirAll takes any failure of its Stat for "missing".
CallFails(s) ==
  /\ "error" \in Faults
  /\ sess[s].pc \in Calls
  /\ IF sess[s].op = "mkdirall" /\ sess[s].pc \in {"stat_head", "stat_list"}
       THEN Goto(s, "mkdir_head")
       ELSE Return(s, "s3")
  /\ NoEffect

Start(s) ==
  \/ \E p \in ClientPaths : Mkdir(s, p) \/ MkdirAll(s, p) \/ Remove(s, p) \/ RemoveDir(s, p) \/ RemoveAll(s, p)
  \/ \E p, n \in ClientPaths : Rename(s, p, n)
  \/ \E p \in ClientPaths, c \in Content : Stor(s, p, c)

Continue(s) ==
  \/ StatHead(s) \/ StatList(s)
  \/ MkdirHead(s) \/ MkdirList(s) \/ MkdirPut(s) \/ MkdirAllStat(s)
  \/ RemoveStat(s) \/ DeleteFile(s)
  \/ RemoveDirStat(s) \/ RemoveDirList(s) \/ RemoveDirDelete(s)
  \/ RemoveAllStat(s) \/ ListKeys(s) \/ DeleteKeys(s) \/ DeleteMarker(s)
  \/ RenameStat(s) \/ RenameProbe(s) \/ CopyFile(s) \/ DeleteOld(s) \/ CopyKey(s)
  \/ StorPut(s)
  \/ CallFails(s)

Next == \E s \in Sessions : Start(s) \/ Continue(s)

Spec == Init /\ [][Next]_vars

\* Every S3 call is answered or times out, and no goroutine is starved.
FairSpec == Spec /\ \A s \in Sessions : WF_vars(Continue(s))

=============================================================================
