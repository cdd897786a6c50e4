----------------------------- MODULE S3FSProofs ----------------------------
(***************************************************************************)
(* Proofs about module S3FS, for any number of sessions, any bucket, any   *)
(* root prefixes and any page and batch sizes.                             *)
(*                                                                         *)
(* The inductive invariant adds to the type invariant what a session in    *)
(* the middle of an operation relies on: it passed the read-only check, it *)
(* names no root directory, and every key it has in hand was found under   *)
(* the directory it works on.                                              *)
(***************************************************************************)
EXTENDS S3FSProps, BucketProofs

RenameCalls == {"rename_probe", "rename_probe_dir", "copy_file", "delete_old", "copy_keys"}

RmdirCalls == {"idle", "stat_head", "stat_list", "stat_done", "rmdir_list", "rmdir_delete"}

Under(s, p, K) == \A k \in K : HasPrefix(k, keyDir(s, p))

\* What is known of the request q of a session s between two of its calls.
Sound(s, q) ==
  /\ q.pc # "idle" => q.path # <<>> /\ ~ReadOnly[s]
  /\ q.pc # "idle" /\ q.op = "rename" => q.new # <<>>
  /\ q.pc \in RenameCalls => q.op = "rename"
  /\ q.op = "rmdir" => q.pc \in RmdirCalls
  /\ Under(s, q.path, q.listed)
  /\ Under(s, q.path, q.todo)

Inv ==
  /\ TypeOK
  /\ MarkersEmpty
  /\ \A s \in Sessions : Sound(s, sess[s])

(***************************************************************************)
(* The bucket                                                              *)
(***************************************************************************)

Clean(b) == IsBucket(b) /\ \A k \in DOMAIN b : EndsInSlash(k) => b[k] = Empty

\* PutObject of a marker without content, or of a file, keeps a bucket whose
\* markers are empty, and changes that one key.
LEMMA PutFacts ==
  ASSUME NEW b, NEW k \in Key, NEW c \in Content, Clean(b), EndsInSlash(k) => c = Empty
  PROVE  Clean(PutObject(b, k, c)) /\ Changed(b, PutObject(b, k, c)) \subseteq {k}
  BY DEF Clean, IsBucket, PutObject, Changed

\* Deletions keep such a bucket too, and change nothing but their keys.
LEMMA DeleteFacts ==
  ASSUME NEW b, NEW K, Clean(b)
  PROVE  Clean(DeleteObjects(b, K)) /\ Changed(b, DeleteObjects(b, K)) \subseteq K
  BY DEF Clean, IsBucket, DeleteObjects, Changed

\* A page, or a batch, is a part of what it is taken from.
LEMMA LeastFacts ==
  ASSUME NEW n, NEW K
  PROVE  Least(n, K) \subseteq K
  BY DEF Least

(***************************************************************************)
(* Control                                                                 *)
(***************************************************************************)

\* A step of one session leaves the others where they are.
LEMMA StepFacts ==
  ASSUME sess \in [Sessions -> Request], \A t \in Sessions : Sound(t, sess[t]),
         NEW s \in Sessions, NEW q \in Request, Sound(s, q),
         sess' = [sess EXCEPT ![s] = q]
  PROVE  /\ sess' \in [Sessions -> Request]
         /\ \A t \in Sessions : Sound(t, sess'[t])
<1>1. sess' \in [Sessions -> Request] /\ sess'[s] = q
  OBVIOUS
<1>2. \A t \in Sessions \ {s} : sess'[t] = sess[t]
  OBVIOUS
<1> QED
  BY <1>1, <1>2

PCs == Calls \cup {"idle", "stat_done"}

\* Goto changes the position only.
LEMMA GotoFacts ==
  ASSUME sess \in [Sessions -> Request], NEW s \in Sessions, NEW c \in PCs, Goto(s, c)
  PROVE  LET q == [sess[s] EXCEPT !.pc = c]
         IN  sess' = [sess EXCEPT ![s] = q] /\ q \in Request
  BY DEF Goto, Request, PCs

\* Return forgets what the operation had in hand.
LEMMA ReturnFacts ==
  ASSUME sess \in [Sessions -> Request], NEW s \in Sessions, NEW r \in Replies, Return(s, r)
  PROVE  LET q == [sess[s] EXCEPT !.pc = "idle", !.reply = r, !.info = "none",
                                  !.token = <<>>, !.listed = {}, !.todo = {}]
         IN  sess' = [sess EXCEPT ![s] = q] /\ q \in Request
<1>1. <<>> \in Key
  BY DEF Key
<1> QED
  BY <1>1 DEF Return, Request

SessOK ==
  /\ sess \in [Sessions -> Request]
  /\ \A t \in Sessions : Sound(t, sess[t])

\* An operation that returns is sound again.
LEMMA ReturnKeeps ==
  ASSUME SessOK, NEW s \in Sessions, NEW r \in Replies, Return(s, r)
  PROVE  SessOK'
<1> DEFINE q == [sess[s] EXCEPT !.pc = "idle", !.reply = r, !.info = "none",
                                !.token = <<>>, !.listed = {}, !.todo = {}]
<1>1. sess \in [Sessions -> Request] /\ Sound(s, sess[s])
  BY DEF SessOK
<1>2. sess' = [sess EXCEPT ![s] = q] /\ q \in Request
  BY <1>1, ReturnFacts
<1>3. q.pc = "idle" /\ q.listed = {} /\ q.todo = {}
  BY <1>1 DEF Request
<1>4. Sound(s, q)
  BY <1>3 DEF Sound, Under, RenameCalls, RmdirCalls
<1> QED
  BY <1>1, <1>2, <1>4, StepFacts DEF SessOK

\* An operation that goes on to its next call keeps what it knows.
LEMMA GotoKeeps ==
  ASSUME SessOK, NEW s \in Sessions, NEW c \in PCs, Goto(s, c),
         sess[s].pc # "idle",
         c \in RenameCalls => sess[s].op = "rename",
         sess[s].op = "rmdir" => c \in RmdirCalls
  PROVE  SessOK'
<1> DEFINE q == [sess[s] EXCEPT !.pc = c]
<1>1. sess \in [Sessions -> Request] /\ Sound(s, sess[s])
  BY DEF SessOK
<1>2. sess' = [sess EXCEPT ![s] = q] /\ q \in Request
  BY <1>1, GotoFacts
<1>3. /\ q.pc = c /\ q.op = sess[s].op /\ q.path = sess[s].path /\ q.new = sess[s].new
      /\ q.listed = sess[s].listed /\ q.todo = sess[s].todo
  BY <1>1 DEF Request
<1> HIDE DEF q
<1>4. Sound(s, q)
  BY <1>1, <1>3 DEF Sound
<1> QED
  BY <1>1, <1>2, <1>4, StepFacts DEF SessOK

\* The keys of a session change, under the directory it works on.
LEMMA KeysKeep ==
  ASSUME SessOK, NEW s \in Sessions, NEW c \in PCs, NEW L \in SUBSET Key, NEW D \in SUBSET Key,
         NEW t \in Key, sess[s].pc # "idle", Under(s, sess[s].path, L), Under(s, sess[s].path, D),
         c \in RenameCalls => sess[s].op = "rename",
         sess[s].op = "rmdir" => c \in RmdirCalls,
         sess' = [sess EXCEPT ![s] = [sess[s] EXCEPT !.pc = c, !.listed = L, !.todo = D, !.token = t]]
  PROVE  SessOK'
<1> DEFINE q == [sess[s] EXCEPT !.pc = c, !.listed = L, !.todo = D, !.token = t]
<1>1. sess \in [Sessions -> Request] /\ Sound(s, sess[s])
  BY DEF SessOK
<1>2. q \in Request
  BY <1>1 DEF Request, PCs
<1>3. /\ q.pc = c /\ q.op = sess[s].op /\ q.path = sess[s].path /\ q.new = sess[s].new
      /\ q.listed = L /\ q.todo = D
  BY <1>1 DEF Request
<1>4. sess' = [sess EXCEPT ![s] = q]
  OBVIOUS
<1> HIDE DEF q
<1>5. Sound(s, q)
  BY <1>1, <1>3 DEF Sound
<1> QED
  BY <1>1, <1>2, <1>4, <1>5, StepFacts DEF SessOK

\* Stat reports, or RemoveStat hands over to RemoveDir, with no key in hand
\* changed.
LEMMA StatKeeps ==
  ASSUME SessOK, NEW s \in Sessions, NEW c \in {"stat_head", "stat_done"},
         NEW i \in {"none", "file", "dir"}, NEW o \in {sess[s].op, "rmdir"},
         sess[s].pc # "idle", sess[s].op = "rmdir" => o = "rmdir",
         sess' = [sess EXCEPT ![s] = [sess[s] EXCEPT !.op = o, !.pc = c, !.info = i]]
  PROVE  SessOK'
<1> DEFINE q == [sess[s] EXCEPT !.op = o, !.pc = c, !.info = i]
<1>1. sess \in [Sessions -> Request] /\ Sound(s, sess[s])
  BY DEF SessOK
<1>2. q \in Request
  <2>1. sess[s].op \in Ops /\ sess[s] \in Request
    BY <1>1 DEF Request
  <2>2. o \in Ops /\ c \in PCs
    BY <2>1 DEF Ops, PCs, Calls
  <2> QED
    BY <2>1, <2>2 DEF Request, PCs
<1>3. /\ q.pc = c /\ q.op = o /\ q.path = sess[s].path /\ q.new = sess[s].new
      /\ q.listed = sess[s].listed /\ q.todo = sess[s].todo
  BY <1>1 DEF Request
<1>4. sess' = [sess EXCEPT ![s] = q]
  OBVIOUS
<1> HIDE DEF q
<1>5. Sound(s, q)
  BY <1>1, <1>3 DEF Sound, RenameCalls, RmdirCalls
<1> QED
  BY <1>1, <1>2, <1>4, <1>5, StepFacts DEF SessOK

(***************************************************************************)
(* Every step keeps the invariant                                          *)
(***************************************************************************)

\* A step that leaves the bucket and the bookkeeping alone.
LEMMA NoEffectKeeps ==
  ASSUME Inv, NoEffect, SessOK'
  PROVE  Inv'
  BY DEF Inv, TypeOK, MarkersEmpty, NoEffect, SessOK

\* A step whose call changes the bucket.
LEMMA EffectKeeps ==
  ASSUME Inv, NEW b, Clean(b), Effect(b), SessOK'
  PROVE  Inv'
  BY DEF Inv, TypeOK, MarkersEmpty, Effect, SessOK, Clean, IsBucket

\* The parts of the invariant the steps need.
LEMMA InvFacts ==
  ASSUME Inv
  PROVE  /\ SessOK
         /\ Clean(bucket)
         /\ \A s \in Sessions : sess[s] \in Request /\ Sound(s, sess[s])
  BY DEF Inv, TypeOK, MarkersEmpty, SessOK, Clean

\* The keys of a session that is at work.
LEMMA SessionKeys ==
  ASSUME NEW s \in Sessions, NEW p \in Path, p # <<>>
  PROVE  /\ key(s, p) \in Key /\ ~EndsInSlash(key(s, p)) /\ HasPrefix(key(s, p), Root[s])
         /\ keyDir(s, p) \in Key /\ EndsInSlash(keyDir(s, p)) /\ HasPrefix(keyDir(s, p), Root[s])
         /\ keyDir(s, p) # <<>>
         /\ \A k \in Key : HasPrefix(k, keyDir(s, p)) => HasPrefix(k, Root[s])
<1>1. Root[s] \in RootPrefix
  BY S3FSAssumption
<1> QED
  BY <1>1, JoinRootFacts, DirKeyFacts DEF key, keyDir

\* The steps of Stat, and of the checks that come before any change.
LEMMA StatSteps ==
  ASSUME Inv, NEW s \in Sessions, StatHead(s) \/ StatList(s)
  PROVE  Inv'
<1>1. SessOK /\ NoEffect /\ sess[s] \in Request /\ sess[s].pc # "idle"
  BY InvFacts DEF StatHead, StatList, At
<1>2. CASE Goto(s, "stat_list") /\ sess[s].pc = "stat_head"
  <2>1. "stat_list" \in PCs /\ "stat_list" \notin RenameCalls /\ "stat_list" \in RmdirCalls
    BY DEF PCs, Calls, RenameCalls, RmdirCalls
  <2> QED
    BY <1>1, <1>2, <2>1, GotoKeeps, NoEffectKeeps
<1>3. ASSUME NEW i \in {"none", "file", "dir"},
             sess' = [sess EXCEPT ![s].pc = "stat_done", ![s].info = i]
      PROVE  Inv'
  <2>1. sess' = [sess EXCEPT ![s] = [sess[s] EXCEPT !.op = sess[s].op, !.pc = "stat_done", !.info = i]]
    BY <1>1, <1>3 DEF Request, SessOK
  <2> QED
    BY <1>1, <2>1, StatKeeps, NoEffectKeeps
<1>4. CASE StatHead(s)
  BY <1>2, <1>3, <1>4 DEF StatHead, At
<1>5. CASE StatList(s)
  BY <1>3, <1>5 DEF StatList
<1> QED
  BY <1>4, <1>5

\* A call without effect, after which the operation goes on, or returns.
LEMMA Proceeds ==
  ASSUME Inv, NoEffect, NEW s \in Sessions, NEW c \in PCs, Goto(s, c),
         sess[s].pc # "idle",
         c \in RenameCalls => sess[s].op = "rename",
         sess[s].op = "rmdir" => c \in RmdirCalls
  PROVE  Inv'
  BY InvFacts, GotoKeeps, NoEffectKeeps

\* A step that returns without an effect.
LEMMA Returns ==
  ASSUME Inv, NoEffect, NEW s \in Sessions, NEW r \in Replies, Return(s, r)
  PROVE  Inv'
  BY InvFacts, ReturnKeeps, NoEffectKeeps

\* The positions and replies that occur in the actions.
LEMMA Positions ==
  /\ Calls \subseteq PCs
  /\ {"mkdir_head", "mkdir_list", "mkdir_put", "delete_file", "rmdir_list", "rmdir_delete",
      "list_keys", "rename_probe", "rename_probe_dir", "copy_file", "delete_old",
      "copy_keys", "delete_keys", "delete_marker"} \subseteq Calls
  /\ {"ok", "s3", "EEXIST", "ENOENT", "ENOTDIR", "ENOTEMPTY", "EINVAL", "EISDIR"} \subseteq Replies
  BY DEF PCs, Calls, Replies, Refusals

\* Mkdir's checks, and MkdirAll's decision after Stat.
LEMMA MkdirSteps ==
  ASSUME Inv, NEW s \in Sessions, MkdirHead(s) \/ MkdirList(s) \/ MkdirAllStat(s)
  PROVE  Inv'
<1>1. Sound(s, sess[s]) /\ NoEffect
  BY InvFacts DEF MkdirHead, MkdirList, MkdirAllStat
<1>2. ASSUME NEW r \in {"ok", "EEXIST"}, Return(s, r)
      PROVE  Inv'
  BY <1>1, <1>2, Returns, Positions
<1>3. ASSUME NEW c \in {"mkdir_head", "mkdir_list", "mkdir_put"}, Goto(s, c),
             sess[s].pc # "idle", sess[s].op # "rmdir"
      PROVE  Inv'
  <2>1. c \in PCs /\ c \notin RenameCalls
    BY Positions DEF RenameCalls
  <2> QED
    BY <1>1, <1>3, <2>1, Proceeds
<1>4. CASE MkdirHead(s)
  <2>1. sess[s].pc = "mkdir_head" /\ sess[s].op # "rmdir"
    BY <1>1, <1>4 DEF MkdirHead, At, Sound, RmdirCalls
  <2> QED
    BY <1>2, <1>3, <1>4, <2>1 DEF MkdirHead
<1>5. CASE MkdirList(s)
  <2>1. sess[s].pc = "mkdir_list" /\ sess[s].op # "rmdir"
    BY <1>1, <1>5 DEF MkdirList, At, Sound, RmdirCalls
  <2> QED
    BY <1>2, <1>3, <1>5, <2>1 DEF MkdirList
<1>6. CASE MkdirAllStat(s)
  <2>1. sess[s].pc = "stat_done" /\ sess[s].op = "mkdirall"
    BY <1>6 DEF MkdirAllStat, Statted, At
  <2> QED
    BY <1>2, <1>3, <1>6, <2>1 DEF MkdirAllStat
<1> QED
  BY <1>4, <1>5, <1>6

\* The decisions of Remove, RemoveDir and RemoveAll after Stat, and the
\* emptiness check of RemoveDir.
LEMMA RemoveSteps ==
  ASSUME Inv, NEW s \in Sessions,
         RemoveStat(s) \/ RemoveDirStat(s) \/ RemoveDirList(s) \/ RemoveAllStat(s)
  PROVE  Inv'
<1>1. SessOK /\ sess[s] \in Request /\ NoEffect /\ sess[s].pc \in {"stat_done", "rmdir_list"}
  BY InvFacts DEF RemoveStat, RemoveDirStat, RemoveDirList, RemoveAllStat, Statted, At
<1>2. ASSUME NEW r \in {"ENOENT", "ENOTDIR", "ENOTEMPTY"}, Return(s, r)
      PROVE  Inv'
  BY <1>1, <1>2, Returns, Positions
<1>3. ASSUME NEW c \in {"delete_file", "rmdir_list", "rmdir_delete", "list_keys"}, Goto(s, c),
             sess[s].op = "rmdir" => c \in {"rmdir_list", "rmdir_delete"}
      PROVE  Inv'
  <2>1. c \in PCs /\ c \notin RenameCalls /\ (c \in {"rmdir_list", "rmdir_delete"} => c \in RmdirCalls)
    BY Positions DEF RenameCalls, RmdirCalls
  <2> QED
    BY <1>1, <1>3, <2>1, Proceeds
<1>4. CASE RemoveStat(s)
  <2>1. sess[s].op = "remove"
    BY <1>4 DEF RemoveStat, Statted
  <2>2. ASSUME sess' = [sess EXCEPT ![s].op = "rmdir", ![s].pc = "stat_head", ![s].info = "none"]
        PROVE  Inv'
    <3>1. sess' = [sess EXCEPT ![s] = [sess[s] EXCEPT !.op = "rmdir", !.pc = "stat_head", !.info = "none"]]
      BY <1>1, <2>2 DEF SessOK, Request
    <3> QED
      BY <1>1, <3>1, StatKeeps, NoEffectKeeps
  <2> QED
    BY <1>2, <1>3, <1>4, <2>1, <2>2 DEF RemoveStat
<1>5. CASE RemoveDirStat(s)
  BY <1>2, <1>3, <1>5 DEF RemoveDirStat
<1>6. CASE RemoveDirList(s)
  BY <1>2, <1>3, <1>6 DEF RemoveDirList
<1>7. CASE RemoveAllStat(s)
  <2>1. sess[s].op = "removeall"
    BY <1>7 DEF RemoveAllStat, Statted
  <2> QED
    BY <1>3, <1>7, <2>1 DEF RemoveAllStat
<1> QED
  BY <1>4, <1>5, <1>6, <1>7

\* The checks of Rename.
LEMMA RenameSteps ==
  ASSUME Inv, NEW s \in Sessions, RenameStat(s) \/ RenameProbe(s)
  PROVE  Inv'
<1>1. Sound(s, sess[s]) /\ NoEffect
  BY InvFacts DEF RenameStat, RenameProbe
<1>2. sess[s].op = "rename" /\ sess[s].pc # "idle"
  BY <1>1 DEF RenameStat, RenameProbe, Statted, At, Sound, RenameCalls
<1>3. ASSUME NEW r \in {"ENOENT", "EINVAL", "EISDIR", "ENOTEMPTY"}, Return(s, r)
      PROVE  Inv'
  BY <1>1, <1>3, Returns, Positions
<1>4. ASSUME NEW c \in {"rename_probe", "rename_probe_dir", "copy_file", "list_keys"}, Goto(s, c)
      PROVE  Inv'
  <2>1. c \in PCs
    BY Positions
  <2> QED
    BY <1>1, <1>2, <1>4, <2>1, Proceeds
<1>5. CASE RenameStat(s)
  BY <1>3, <1>4, <1>5 DEF RenameStat
<1>6. CASE RenameProbe(s)
  BY <1>3, <1>4, <1>6 DEF RenameProbe
<1> QED
  BY <1>5, <1>6

\* A call that fails.
LEMMA FailureSteps ==
  ASSUME Inv, NEW s \in Sessions, CallFails(s)
  PROVE  Inv'
<1>1. NoEffect /\ sess[s].pc \in Calls
  BY DEF CallFails
<1>2. sess[s].pc # "idle"
  BY <1>1 DEF Calls
<1>3. CASE Return(s, "s3")
  BY <1>1, <1>3, Returns, Positions
<1>4. CASE sess[s].op = "mkdirall" /\ Goto(s, "mkdir_head")
  <2>1. "mkdir_head" \in PCs /\ "mkdir_head" \notin RenameCalls
    BY Positions DEF RenameCalls
  <2> QED
    BY <1>1, <1>2, <1>4, <2>1, Proceeds
<1> QED
  BY <1>3, <1>4 DEF CallFails

(***************************************************************************)
(* The calls that change the bucket                                        *)
(***************************************************************************)

\* A step of session s changes the bucket only where s may: under its root,
\* not on a read-only view, and on behalf of RemoveDir only at a marker.
Confined(s) ==
  /\ ~ReadOnly[s]
  /\ sess[s].op = "rmdir" => \A k \in Changed(bucket, bucket') : EndsInSlash(k)
  /\ \A k \in Changed(bucket, bucket') : HasPrefix(k, Root[s])

\* The calls that put or delete one object and return.
LEMMA FinalCalls ==
  ASSUME Inv, NEW s \in Sessions,
         MkdirPut(s) \/ DeleteFile(s) \/ RemoveDirDelete(s) \/ DeleteMarker(s) \/ DeleteOld(s) \/ StorPut(s)
  PROVE  Inv' /\ Confined(s)
<1> DEFINE p == sess[s].path
<1>1. SessOK /\ Clean(bucket) /\ sess[s] \in Request /\ Sound(s, sess[s])
  BY InvFacts
<1>2. sess[s].pc # "idle" /\ \E r \in {"ok", "s3"} : Return(s, r)
  BY DEF MkdirPut, DeleteFile, RemoveDirDelete, DeleteMarker, DeleteOld, StorPut, At
<1>3. SessOK'
  BY <1>1, <1>2, ReturnKeeps, Positions
<1>4. p \in Path /\ p # <<>> /\ ~ReadOnly[s] /\ sess[s].data \in Content
  BY <1>1, <1>2 DEF Sound, Request
<1> HIDE DEF p
<1>5. /\ key(s, p) \in Key /\ ~EndsInSlash(key(s, p)) /\ HasPrefix(key(s, p), Root[s])
      /\ keyDir(s, p) \in Key /\ EndsInSlash(keyDir(s, p)) /\ HasPrefix(keyDir(s, p), Root[s])
  BY <1>4, SessionKeys
<1>6. ASSUME NEW b, NEW k \in {key(s, p), keyDir(s, p)}, Clean(b), Changed(bucket, b) \subseteq {k},
             Effect(b), sess[s].op = "rmdir" => k = keyDir(s, p)
      PROVE  Inv' /\ Confined(s)
  <2>1. Inv' /\ bucket' = b
    BY <1>3, <1>6, EffectKeeps DEF Effect
  <2> QED
    BY <1>4, <1>5, <1>6, <2>1 DEF Confined
<1>7. CASE MkdirPut(s)
  <2>1. Effect(PutObject(bucket, keyDir(s, p), Empty))
    BY <1>7 DEF MkdirPut, p
  <2>2. /\ Clean(PutObject(bucket, keyDir(s, p), Empty))
        /\ Changed(bucket, PutObject(bucket, keyDir(s, p), Empty)) \subseteq {keyDir(s, p)}
    BY <1>1, <1>5, PutFacts DEF Content
  <2> QED
    BY <1>6, <2>1, <2>2
<1>8. CASE DeleteFile(s) \/ DeleteOld(s)
  <2>1. Effect(DeleteObjects(bucket, {key(s, p)})) /\ sess[s].pc \in {"delete_file", "delete_old"}
    BY <1>8 DEF DeleteFile, DeleteOld, p, At
  <2>2. sess[s].op # "rmdir"
    BY <1>1, <2>1 DEF Sound, RmdirCalls
  <2> QED
    BY <1>1, <1>6, <2>1, <2>2, DeleteFacts
<1>9. CASE RemoveDirDelete(s) \/ DeleteMarker(s)
  <2>1. Effect(DeleteObjects(bucket, {keyDir(s, p)}))
    BY <1>9 DEF RemoveDirDelete, DeleteMarker, p
  <2> QED
    BY <1>1, <1>6, <2>1, DeleteFacts
<1>10. CASE StorPut(s)
  <2>1. Effect(PutObject(bucket, key(s, p), sess[s].data)) /\ sess[s].pc = "put_object"
    BY <1>10 DEF StorPut, p, At
  <2>2. sess[s].op # "rmdir"
    BY <1>1, <2>1 DEF Sound, RmdirCalls
  <2>3. /\ Clean(PutObject(bucket, key(s, p), sess[s].data))
        /\ Changed(bucket, PutObject(bucket, key(s, p), sess[s].data)) \subseteq {key(s, p)}
    BY <1>1, <1>4, <1>5, PutFacts
  <2> QED
    BY <1>6, <2>1, <2>2, <2>3
<1> QED
  BY <1>7, <1>8, <1>9, <1>10

\* Rename's copy of a file.
LEMMA CopyFileStep ==
  ASSUME Inv, NEW s \in Sessions, CopyFile(s)
  PROVE  Inv' /\ (NoEffect \/ Confined(s))
<1> DEFINE from == key(s, sess[s].path)
           to == key(s, sess[s].new)
           b == PutObject(bucket, to, bucket[from])
<1>1. SessOK /\ Clean(bucket) /\ sess[s] \in Request /\ Sound(s, sess[s]) /\ sess[s].pc = "copy_file"
  BY InvFacts DEF CopyFile, At
<1>2. /\ sess[s].op = "rename"
      /\ sess[s].new # <<>> /\ sess[s].new \in Path
      /\ ~ReadOnly[s]
  BY <1>1 DEF Sound, Request, RenameCalls
<1>3. to \in Key /\ ~EndsInSlash(to) /\ HasPrefix(to, Root[s])
  BY <1>2, SessionKeys
<1>4. CASE from \notin DOMAIN bucket /\ Return(s, "s3") /\ NoEffect
  BY <1>4, Returns, Positions
<1>5. CASE /\ from \in DOMAIN bucket
           /\ Effect(b)
           /\ Return(s, "s3") \/ Goto(s, "delete_old")
  <2>1. bucket[from] \in Content
    BY <1>1, <1>5 DEF Clean, IsBucket
  <2> HIDE DEF from, to
  <2>2. Clean(b) /\ Changed(bucket, b) \subseteq {to}
    BY <1>1, <1>3, <2>1, PutFacts
  <2>3. SessOK'
    <3>1. CASE Return(s, "s3")
      BY <1>1, <3>1, ReturnKeeps, Positions
    <3>2. CASE Goto(s, "delete_old")
      BY <1>1, <1>2, <3>2, GotoKeeps, Positions
    <3> QED
      BY <1>5, <3>1, <3>2
  <2>4. Inv' /\ bucket' = b
    BY <1>5, <2>2, <2>3, EffectKeeps DEF Effect
  <2> HIDE DEF b
  <2> QED
    BY <1>2, <1>3, <2>2, <2>4 DEF Confined
<1> QED
  BY <1>4, <1>5 DEF CopyFile

\* Where RemoveAll and Rename go after their last deletion.
LEMMA AfterDeleteKeeps ==
  ASSUME Inv, NEW s \in Sessions, AfterDelete(s), sess[s].pc # "idle"
  PROVE  SessOK'
<1>1. CASE Return(s, "ok")
  BY <1>1, InvFacts, ReturnKeeps, Positions
<1>2. CASE sess[s].op = "removeall" /\ Goto(s, "delete_marker")
  <2>1. "delete_marker" \in PCs /\ "delete_marker" \notin RenameCalls
    BY Positions DEF RenameCalls
  <2> QED
    BY <1>2, <2>1, InvFacts, GotoKeeps
<1> QED
  BY <1>1, <1>2 DEF AfterDelete

\* A page of listAllKeys: what it adds lies under the listed directory.
LEMMA ListKeysStep ==
  ASSUME Inv, NEW s \in Sessions, ListKeys(s)
  PROVE  Inv' /\ NoEffect
<1> DEFINE q == sess[s]
           rest == Remaining(bucket, keyDir(s, q.path), q.token)
           page == Least(PageSize, rest)
           found == q.listed \cup page
<1>1. SessOK /\ Clean(bucket) /\ q \in Request /\ Sound(s, q) /\ q.pc = "list_keys" /\ NoEffect
  BY InvFacts DEF ListKeys, At
<1>2. rest \subseteq Key /\ Under(s, q.path, rest)
  BY <1>1 DEF Remaining, KeysUnder, Under, Clean, IsBucket
<1>3. page \subseteq rest
  BY LeastFacts
<1>4. q.listed \in SUBSET Key /\ q.todo \in SUBSET Key /\ q.token \in Key /\ <<>> \in Key
  BY <1>1 DEF Request, Key
<1>5. Under(s, q.path, q.listed) /\ Under(s, q.path, q.todo)
  BY <1>1 DEF Sound
<1>6. found \in SUBSET Key /\ Under(s, q.path, found)
  BY <1>2, <1>3, <1>4, <1>5 DEF Under
<1>7. q.op # "rmdir"
  BY <1>1 DEF Sound, RmdirCalls
<1>8. q.pc \in PCs /\ q.pc \notin RenameCalls
  BY <1>1, Positions DEF RenameCalls
<1> HIDE DEF rest, page, found
<1>9. ASSUME NEW last \in Greatest(page), sess' = [sess EXCEPT ![s].listed = found, ![s].token = last]
      PROVE  SessOK'
  <2>1. last \in Key
    BY <1>2, <1>3, <1>9 DEF Greatest
  <2>2. sess' = [sess EXCEPT ![s] = [q EXCEPT !.pc = q.pc, !.listed = found, !.todo = q.todo, !.token = last]]
    BY <1>1, <1>9 DEF SessOK, Request
  <2> HIDE DEF q
  <2> QED
    BY <1>1, <1>4, <1>5, <1>6, <1>7, <1>8, <2>1, <2>2, KeysKeep DEF q
<1>10. ASSUME NEW c \in {"copy_keys", "delete_keys"}, c = "copy_keys" => q.op = "rename",
              sess' = [sess EXCEPT ![s].listed = found, ![s].todo = found, ![s].token = <<>>, ![s].pc = c]
       PROVE  SessOK'
  <2>1. c \in PCs /\ (c \in RenameCalls => c = "copy_keys")
    BY Positions DEF RenameCalls
  <2>2. sess' = [sess EXCEPT ![s] = [q EXCEPT !.pc = c, !.listed = found, !.todo = found, !.token = <<>>]]
    BY <1>1, <1>10 DEF SessOK, Request
  <2> QED
    BY <1>1, <1>4, <1>6, <1>7, <1>10, <2>1, <2>2, KeysKeep
<1>11. CASE AfterDelete(s)
  BY <1>1, <1>11, AfterDeleteKeeps, NoEffectKeeps
<1>12. \/ \E last \in Greatest(page) : sess' = [sess EXCEPT ![s].listed = found, ![s].token = last]
       \/ sess' = [sess EXCEPT ![s].listed = found, ![s].todo = found, ![s].token = <<>>,
                          ![s].pc = IF q.op = "rename" THEN "copy_keys" ELSE "delete_keys"]
       \/ AfterDelete(s)
  BY DEF ListKeys, rest, page, found
<1> QED
  BY <1>1, <1>9, <1>10, <1>11, <1>12, NoEffectKeeps

\* A batch of deleteKeys.
LEMMA DeleteKeysStep ==
  ASSUME Inv, NEW s \in Sessions, DeleteKeys(s)
  PROVE  Inv' /\ Confined(s)
<1> DEFINE q == sess[s]
           batch == Least(BatchSize, q.todo)
           rest == q.todo \ batch
<1>1. SessOK /\ Clean(bucket) /\ q \in Request /\ Sound(s, q) /\ q.pc = "delete_keys"
  BY InvFacts DEF DeleteKeys, At
<1>2. /\ q.path \in Path /\ q.path # <<>> /\ ~ReadOnly[s] /\ q.op # "rmdir"
      /\ q.listed \in SUBSET Key /\ q.todo \in SUBSET Key /\ q.token \in Key
      /\ Under(s, q.path, q.listed) /\ Under(s, q.path, q.todo)
  BY <1>1 DEF Request, Sound, RmdirCalls
<1>3. batch \subseteq q.todo
  BY LeastFacts
<1>4. PICK kept : Effect(DeleteObjects(bucket, batch \ kept))
  BY DEF DeleteKeys
<1>5. /\ Clean(DeleteObjects(bucket, batch \ kept))
      /\ Changed(bucket, DeleteObjects(bucket, batch \ kept)) \subseteq batch
  BY <1>1, DeleteFacts
<1>6. \A k \in batch : HasPrefix(k, Root[s])
  BY <1>2, <1>3, SessionKeys DEF Under
<1> HIDE DEF batch
<1>7. Confined(s)
  BY <1>2, <1>4, <1>5, <1>6 DEF Confined, Effect
<1>8. SessOK'
  <2>1. CASE Return(s, "s3")
    BY <1>1, <2>1, ReturnKeeps, Positions
  <2>2. CASE sess' = [sess EXCEPT ![s].todo = rest]
    <3>1. sess' = [sess EXCEPT ![s] = [q EXCEPT !.pc = q.pc, !.listed = q.listed, !.todo = rest, !.token = q.token]]
      BY <1>1, <2>2 DEF SessOK, Request
    <3>2. rest \in SUBSET Key /\ Under(s, q.path, rest)
      BY <1>2 DEF Under
    <3>3. q.pc \in PCs /\ q.pc \notin RenameCalls
      BY <1>1, Positions DEF RenameCalls
    <3> HIDE DEF rest
    <3> QED
      BY <1>1, <1>2, <3>1, <3>2, <3>3, KeysKeep
  <2>3. CASE AfterDelete(s)
    BY <1>1, <2>3, AfterDeleteKeeps
  <2> QED
    BY <2>1, <2>2, <2>3 DEF DeleteKeys, batch
<1> QED
  BY <1>4, <1>5, <1>7, <1>8, EffectKeeps

\* A turn of Rename's copy loop.
LEMMA CopyKeyStep ==
  ASSUME Inv, NEW s \in Sessions, CopyKey(s)
  PROVE  Inv' /\ (NoEffect \/ Confined(s))
<1> DEFINE q == sess[s]
<1>1. SessOK /\ Clean(bucket) /\ q \in Request /\ Sound(s, q) /\ q.pc = "copy_keys"
  BY InvFacts DEF CopyKey, At
<1>2. /\ q.path \in Path /\ q.path # <<>> /\ q.new \in Path /\ q.new # <<>>
      /\ ~ReadOnly[s] /\ q.op = "rename"
      /\ q.listed \in SUBSET Key /\ q.todo \in SUBSET Key /\ q.token \in Key
      /\ Under(s, q.path, q.listed) /\ Under(s, q.path, q.todo)
  BY <1>1 DEF Request, Sound, RenameCalls
<1>3. PICK from \in Least(1, q.todo) :
        \/ from \notin DOMAIN bucket /\ Return(s, "s3") /\ NoEffect
        \/ /\ from \in DOMAIN bucket
           /\ Effect(PutObject(bucket, Target(s, from), bucket[from]))
           /\ \/ Return(s, "s3")
              \/ sess' = [sess EXCEPT ![s].todo = @ \ {from}]
              \/ sess' = [sess EXCEPT ![s].todo = q.listed, ![s].pc = "delete_keys"]
  BY DEF CopyKey
<1>4. CASE Return(s, "s3") /\ NoEffect
  BY <1>4, Returns, Positions
<1>5. CASE from \in DOMAIN bucket /\ Effect(PutObject(bucket, Target(s, from), bucket[from]))
  <2> DEFINE to == Target(s, from)
             b == PutObject(bucket, to, bucket[from])
  <2>1. from \in Key /\ HasPrefix(from, keyDir(s, q.path))
    BY <1>2, LeastFacts DEF Under
  <2>2. /\ to \in Key
        /\ HasPrefix(to, keyDir(s, q.new))
        /\ EndsInSlash(to) <=> EndsInSlash(from)
    BY <1>2, <2>1, SessionKeys, RetargetFacts DEF Target
  <2>3. HasPrefix(to, Root[s])
    BY <1>2, <2>2, SessionKeys
  <2>4. bucket[from] \in Content /\ (EndsInSlash(to) => bucket[from] = Empty)
    BY <1>1, <1>5, <2>2 DEF Clean, IsBucket
  <2> HIDE DEF to
  <2>5. Clean(b) /\ Changed(bucket, b) \subseteq {to}
    BY <1>1, <2>2, <2>4, PutFacts
  <2>6. SessOK'
    <3>1. CASE Return(s, "s3")
      BY <1>1, <3>1, ReturnKeeps, Positions
    <3>2. CASE sess' = [sess EXCEPT ![s].todo = @ \ {from}]
      <4> DEFINE D == q.todo \ {from}
      <4>1. sess' = [sess EXCEPT ![s] = [q EXCEPT !.pc = q.pc, !.listed = q.listed, !.todo = D, !.token = q.token]]
        BY <1>1, <3>2 DEF SessOK, Request
      <4>2. D \in SUBSET Key /\ Under(s, q.path, D) /\ q.pc \in PCs
        BY <1>1, <1>2, Positions DEF Under
      <4> HIDE DEF D
      <4> QED
        BY <1>1, <1>2, <4>1, <4>2, KeysKeep
    <3>3. CASE sess' = [sess EXCEPT ![s].todo = q.listed, ![s].pc = "delete_keys"]
      <4>1. sess' = [sess EXCEPT ![s] = [q EXCEPT !.pc = "delete_keys", !.listed = q.listed,
                                                  !.todo = q.listed, !.token = q.token]]
        BY <1>1, <3>3 DEF SessOK, Request
      <4>2. "delete_keys" \in PCs
        BY Positions
      <4> QED
        BY <1>1, <1>2, <4>1, <4>2, KeysKeep
    <3> QED
      BY <1>3, <1>5, <3>1, <3>2, <3>3
  <2>7. Inv' /\ bucket' = b
    BY <1>5, <2>5, <2>6, EffectKeeps DEF Effect, to
  <2> HIDE DEF b
  <2> QED
    BY <1>2, <2>3, <2>5, <2>7 DEF Confined
<1> QED
  BY <1>3, <1>4, <1>5

(***************************************************************************)
(* The start of an operation                                               *)
(***************************************************************************)

\* An operation that gets past its early returns names no root directory and
\* runs on a view that may be written.
LEMMA BeginStep ==
  ASSUME Inv, NEW s \in Sessions, NEW op \in Ops \ {"none"}, NEW p \in Path, NEW n \in Path,
         NEW c \in Content, NEW early \in Replies, NEW pc \in Calls,
         Begin(s, op, p, n, c, early, pc),
         early = "none" => p # <<>> /\ ~ReadOnly[s],
         early = "none" /\ op = "rename" => n # <<>>,
         pc \notin RenameCalls, op = "rmdir" => pc \in RmdirCalls
  PROVE  Inv' /\ bucket' = bucket
<1> DEFINE pos == IF early = "none" THEN pc ELSE "idle"
           q == [Fresh EXCEPT !.op = op, !.path = p, !.new = n, !.data = c,
                              !.pc = pos, !.reply = early]
<1>1. SessOK /\ Clean(bucket)
  BY InvFacts
<1>2. pos \in PCs /\ pos \notin RenameCalls /\ (op = "rmdir" => pos \in RmdirCalls)
  BY DEF PCs, RenameCalls, RmdirCalls
<1>3. <<>> \in Key /\ <<>> \in Path /\ Empty \in Content
  BY DEF Key, Path, Content
<1>4. pos # "idle" => early = "none"
  OBVIOUS
<1>5. sess' = [sess EXCEPT ![s] = q]
  BY DEF Begin
<1> HIDE DEF pos
<1>6. Fresh \in Request
  BY <1>3 DEF Fresh, Request, Ops, Replies
<1>7. q \in Request
  BY <1>2, <1>6 DEF Request, PCs
<1>8. /\ q.op = op /\ q.pc = pos /\ q.path = p /\ q.new = n
       /\ q.listed = {} /\ q.todo = {}
  BY DEF Fresh
<1> HIDE DEF q
<1>9. Sound(s, q)
  BY <1>2, <1>4, <1>8 DEF Sound, Under
<1>10. SessOK'
  BY <1>1, <1>5, <1>7, <1>9, StepFacts DEF SessOK
<1>11. left' \in [Sessions -> Nat]
  BY DEF Inv, TypeOK, Begin
<1>12. DOMAIN pre' = Sessions /\ \A t \in Sessions : IsBucket(pre'[t])
  BY DEF Inv, TypeOK, Begin
<1>13. bucket' = bucket
  BY DEF Begin
<1> QED
  BY <1>10, <1>11, <1>12, <1>13 DEF Inv, TypeOK, MarkersEmpty, SessOK, IsBucket

\* An operation that starts keeps the invariant.
LEMMA StartStep ==
  ASSUME Inv, NEW s \in Sessions, Start(s)
  PROVE  Inv' /\ bucket' = bucket
<1>1. ReadOnly[s] \in BOOLEAN /\ ClientPaths \subseteq Path
  BY S3FSAssumption
<1>2. <<>> \in Path /\ Empty \in Content
  BY DEF Path, Content
<1>3. ASSUME NEW p \in ClientPaths, NEW r \in {"ok", "EACCES"}
      PROVE  /\ Guarded(s, p, r) \in Replies
             /\ Guarded(s, p, r) = "none" => p # <<>> /\ ~ReadOnly[s]
  BY <1>1 DEF Guarded, Replies, Refusals
<1>4. /\ "stat_head" \in Calls \ RenameCalls /\ "stat_head" \in RmdirCalls
      /\ "mkdir_head" \in Calls \ RenameCalls /\ "put_object" \in Calls \ RenameCalls
  BY DEF Calls, RenameCalls, RmdirCalls
<1>5. ASSUME NEW p \in ClientPaths, Mkdir(s, p)
      PROVE  Inv' /\ bucket' = bucket
  <2>1. "mkdir" \in Ops \ {"none"}
    BY DEF Ops
  <2> QED
    BY <1>1, <1>2, <1>3, <1>4, <1>5, <2>1, BeginStep DEF Mkdir
<1>6. ASSUME NEW p \in ClientPaths, NEW op \in {"mkdirall", "remove", "rmdir", "removeall"},
             NEW r \in {"ok", "EACCES"},
             Begin(s, op, p, <<>>, Empty, Guarded(s, p, r), "stat_head")
      PROVE  Inv' /\ bucket' = bucket
  <2>1. op \in Ops \ {"none"} /\ op # "rename"
    BY DEF Ops
  <2> QED
    BY <1>1, <1>2, <1>3, <1>4, <1>6, <2>1, BeginStep
<1>7. ASSUME NEW p \in ClientPaths, NEW n \in ClientPaths, Rename(s, p, n)
      PROVE  Inv' /\ bucket' = bucket
  <2>1. "rename" \in Ops \ {"none"}
    BY DEF Ops
  <2>2. /\ RenameGuard(s, p, n) \in Replies
        /\ RenameGuard(s, p, n) = "none" => p # <<>> /\ n # <<>> /\ ~ReadOnly[s]
    BY <1>1 DEF RenameGuard, Replies, Refusals
  <2> QED
    BY <1>1, <1>2, <1>4, <1>7, <2>1, <2>2, BeginStep DEF Rename
<1>8. ASSUME NEW p \in ClientPaths, NEW c \in Content, Stor(s, p, c)
      PROVE  Inv' /\ bucket' = bucket
  <2>1. "stor" \in Ops \ {"none"}
    BY DEF Ops
  <2>2. /\ StorGuard(s, p) \in Replies
        /\ StorGuard(s, p) = "none" => p # <<>> /\ ~ReadOnly[s]
    BY <1>1 DEF StorGuard, Replies, Refusals
  <2> QED
    BY <1>1, <1>2, <1>4, <1>8, <2>1, <2>2, BeginStep DEF Stor
<1> QED
  BY <1>5, <1>6, <1>7, <1>8 DEF Start, MkdirAll, Remove, RemoveDir, RemoveAll

(***************************************************************************)
(* The theorems                                                            *)
(***************************************************************************)

\* Idle sessions on a bucket with empty markers.
LEMMA InitInv ==
  ASSUME Init
  PROVE  Inv
<1>1. /\ IsBucket(bucket)
      /\ \A k \in DOMAIN bucket : EndsInSlash(k) => bucket[k] = Empty
  BY S3FSAssumption DEF Init
<1>2. Fresh \in Request /\ \A s \in Sessions : Sound(s, Fresh)
  <2>1. <<>> \in Key /\ <<>> \in Path /\ Empty \in Content
    BY DEF Key, Path, Content
  <2>2. Fresh \in Request
    BY <2>1 DEF Fresh, Request, Ops, Replies
  <2>3. Fresh.pc = "idle" /\ Fresh.op = "none" /\ Fresh.listed = {} /\ Fresh.todo = {}
    BY DEF Fresh
  <2> QED
    BY <2>2, <2>3 DEF Sound, Under, RenameCalls
<1>3. sess \in [Sessions -> Request] /\ \A s \in Sessions : Sound(s, sess[s])
  BY <1>2 DEF Init
<1>4. left \in [Sessions -> Nat] /\ DOMAIN pre = Sessions /\ \A s \in Sessions : pre[s] = bucket
  BY S3FSAssumption DEF Init
<1> QED
  BY <1>1, <1>3, <1>4 DEF Inv, TypeOK, MarkersEmpty

\* Each step of a session keeps the invariant, and changes the bucket, if at
\* all, only where that session may.
LEMMA NextStep ==
  ASSUME Inv, NEW s \in Sessions, Start(s) \/ Continue(s)
  PROVE  Inv' /\ (bucket' = bucket \/ Confined(s))
<1>1. CASE Start(s)
  BY <1>1, StartStep
<1>2. CASE StatHead(s) \/ StatList(s)
  BY <1>2, StatSteps DEF StatHead, StatList, NoEffect
<1>3. CASE MkdirHead(s) \/ MkdirList(s) \/ MkdirAllStat(s)
  BY <1>3, MkdirSteps DEF MkdirHead, MkdirList, MkdirAllStat, NoEffect
<1>4. CASE RemoveStat(s) \/ RemoveDirStat(s) \/ RemoveDirList(s) \/ RemoveAllStat(s)
  BY <1>4, RemoveSteps DEF RemoveStat, RemoveDirStat, RemoveDirList, RemoveAllStat, NoEffect
<1>5. CASE RenameStat(s) \/ RenameProbe(s)
  BY <1>5, RenameSteps DEF RenameStat, RenameProbe, NoEffect
<1>6. CASE CallFails(s)
  BY <1>6, FailureSteps DEF CallFails, NoEffect
<1>7. CASE \/ MkdirPut(s) \/ DeleteFile(s) \/ RemoveDirDelete(s) \/ DeleteMarker(s)
           \/ DeleteOld(s) \/ StorPut(s)
  BY <1>7, FinalCalls
<1>8. CASE CopyFile(s)
  BY <1>8, CopyFileStep DEF NoEffect
<1>9. CASE ListKeys(s)
  BY <1>9, ListKeysStep DEF NoEffect
<1>10. CASE DeleteKeys(s)
  BY <1>10, DeleteKeysStep
<1>11. CASE CopyKey(s)
  BY <1>11, CopyKeyStep DEF NoEffect
<1> QED
  BY <1>1, <1>2, <1>3, <1>4, <1>5, <1>6, <1>7, <1>8, <1>9, <1>10, <1>11 DEF Continue

\* A step of one session leaves the requests of the others alone.
LEMMA Frame ==
  ASSUME Inv, NEW s \in Sessions, Start(s) \/ Continue(s), NEW t \in Sessions, t # s
  PROVE  sess'[t] = sess[t]
<1>1. sess \in [Sessions -> Request]
  BY DEF Inv, TypeOK
<1>2. ASSUME NEW c, Goto(s, c)
      PROVE  sess'[t] = sess[t]
  BY <1>1, <1>2 DEF Goto
<1>3. ASSUME NEW r, Return(s, r)
      PROVE  sess'[t] = sess[t]
  BY <1>1, <1>3 DEF Return
<1>4. CASE Start(s)
  <2>1. ASSUME NEW op, NEW p, NEW n, NEW c, NEW early, NEW pc, Begin(s, op, p, n, c, early, pc)
        PROVE  sess'[t] = sess[t]
    BY <1>1, <2>1 DEF Begin
  <2> QED
    BY <1>4, <2>1 DEF Start, Mkdir, MkdirAll, Remove, RemoveDir, RemoveAll, Rename, Stor
<1>5. CASE StatHead(s) \/ StatList(s)
  BY <1>1, <1>2, <1>5 DEF StatHead, StatList
<1>6. CASE MkdirHead(s) \/ MkdirList(s) \/ MkdirAllStat(s)
  BY <1>2, <1>3, <1>6 DEF MkdirHead, MkdirList, MkdirAllStat
<1>7. CASE RemoveStat(s) \/ RemoveDirStat(s) \/ RemoveDirList(s) \/ RemoveAllStat(s)
  BY <1>1, <1>2, <1>3, <1>7 DEF RemoveStat, RemoveDirStat, RemoveDirList, RemoveAllStat
<1>8. CASE RenameStat(s) \/ RenameProbe(s) \/ CallFails(s)
  BY <1>2, <1>3, <1>8 DEF RenameStat, RenameProbe, CallFails
<1>9. CASE MkdirPut(s) \/ DeleteFile(s) \/ RemoveDirDelete(s) \/ DeleteMarker(s) \/ DeleteOld(s) \/ StorPut(s)
  BY <1>3, <1>9 DEF MkdirPut, DeleteFile, RemoveDirDelete, DeleteMarker, DeleteOld, StorPut
<1>10. CASE CopyFile(s)
  BY <1>2, <1>3, <1>10 DEF CopyFile
<1>11. CASE ListKeys(s)
  BY <1>1, <1>2, <1>3, <1>11 DEF ListKeys, AfterDelete
<1>12. CASE DeleteKeys(s)
  BY <1>1, <1>2, <1>3, <1>12 DEF DeleteKeys, AfterDelete
<1>13. CASE CopyKey(s)
  BY <1>1, <1>3, <1>13 DEF CopyKey
<1> QED
  BY <1>4, <1>5, <1>6, <1>7, <1>8, <1>9, <1>10, <1>11, <1>12, <1>13 DEF Continue

\* A session that changes the bucket moves on itself.
LEMMA Moves ==
  ASSUME Inv, NEW s \in Sessions, Start(s) \/ Continue(s), bucket' # bucket
  PROVE  sess'[s] # sess[s]
<1>1. sess \in [Sessions -> Request] /\ sess[s] \in Request
  BY DEF Inv, TypeOK
<1>2. ASSUME NEW r, Return(s, r)
      PROVE  sess'[s].pc = "idle"
  BY <1>1, <1>2 DEF Return, Request
<1>3. ASSUME NEW c, Goto(s, c)
      PROVE  sess'[s].pc = c
  BY <1>1, <1>3 DEF Goto, Request
<1>4. ~NoEffect /\ ~Start(s)
  BY StartStep DEF NoEffect
<1>5. CASE MkdirPut(s) \/ DeleteFile(s) \/ RemoveDirDelete(s) \/ DeleteMarker(s) \/ DeleteOld(s) \/ StorPut(s)
  BY <1>2, <1>5 DEF MkdirPut, DeleteFile, RemoveDirDelete, DeleteMarker, DeleteOld, StorPut, At
<1>6. CASE CopyFile(s)
  BY <1>2, <1>3, <1>6 DEF CopyFile, At
<1>7. CASE DeleteKeys(s)
  <2> DEFINE batch == Least(BatchSize, sess[s].todo)
             rest == sess[s].todo \ batch
  <2>1. batch # {}
    <3>1. SUFFICES ASSUME batch = {}
                   PROVE  FALSE
      OBVIOUS
    <3>2. PICK kept : bucket' = DeleteObjects(bucket, batch \ kept)
      BY <1>7 DEF DeleteKeys, Effect
    <3>3. bucket' = DeleteObjects(bucket, {})
      BY <3>1, <3>2
    <3>4. DeleteObjects(bucket, {}) = bucket
      BY DEF DeleteObjects, Inv, TypeOK, IsBucket
    <3> QED
      BY <3>3, <3>4
  <2>2. batch \subseteq sess[s].todo
    BY LeastFacts
  <2>3. CASE sess' = [sess EXCEPT ![s].todo = rest]
    <3>1. sess'[s].todo = rest
      BY <1>1, <2>3 DEF Request
    <3> QED
      BY <2>1, <2>2, <3>1
  <2>4. CASE Return(s, "s3") \/ AfterDelete(s)
    BY <1>2, <1>3, <1>7, <2>4 DEF DeleteKeys, AfterDelete, At
  <2> QED
    BY <1>7, <2>3, <2>4 DEF DeleteKeys
<1>8. CASE CopyKey(s)
  <2>1. PICK from \in Least(1, sess[s].todo) :
          \/ Return(s, "s3")
          \/ sess' = [sess EXCEPT ![s].todo = @ \ {from}]
          \/ sess' = [sess EXCEPT ![s].todo = sess[s].listed, ![s].pc = "delete_keys"]
    BY <1>8 DEF CopyKey
  <2>2. from \in sess[s].todo /\ sess[s].pc = "copy_keys"
    BY <1>8, LeastFacts DEF CopyKey, At
  <2>3. CASE Return(s, "s3")
    BY <1>2, <2>2, <2>3
  <2>4. CASE sess' = [sess EXCEPT ![s].todo = @ \ {from}]
    <3>1. sess'[s].todo = sess[s].todo \ {from}
      BY <1>1, <2>4 DEF Request
    <3> QED
      BY <2>2, <3>1
  <2>5. CASE sess' = [sess EXCEPT ![s].todo = sess[s].listed, ![s].pc = "delete_keys"]
    <3>1. sess'[s].pc = "delete_keys"
      BY <1>1, <2>5 DEF Request
    <3> QED
      BY <2>2, <3>1
  <2> QED
    BY <2>1, <2>3, <2>4, <2>5
<1> QED
  BY <1>4, <1>5, <1>6, <1>7, <1>8
     DEF Continue, StatHead, StatList, MkdirHead, MkdirList, MkdirAllStat, RemoveStat,
         RemoveDirStat, RemoveDirList, RemoveAllStat, RenameStat, RenameProbe, CallFails, ListKeys

\* The inductive invariant holds throughout.
THEOREM Invariance == Spec => []Inv
<1>1. Init => Inv
  BY InitInv
<1>2. Inv /\ [Next]_vars => Inv'
  <2> SUFFICES ASSUME Inv, [Next]_vars
               PROVE  Inv'
    OBVIOUS
  <2>1. CASE Next
    BY <2>1, NextStep DEF Next
  <2>2. CASE UNCHANGED vars
    BY <2>2 DEF vars, Inv, TypeOK, MarkersEmpty, IsBucket
  <2> QED
    BY <2>1, <2>2
<1> QED
  BY <1>1, <1>2, PTL DEF Spec

\* The variables keep their types: every reply is one the gateway knows, and
\* every key built by joinRoot, dirKey and Rename's TrimPrefix is a key.
THEOREM TypeCorrect == Spec => []TypeOK
<1>1. Inv => TypeOK
  BY DEF Inv
<1> QED
  BY <1>1, Invariance, PTL

\* No object whose key ends in "/" ever holds data, whatever the sessions do
\* and however their calls interleave or fail.
THEOREM MarkersStayEmpty == Spec => []MarkersEmpty
<1>1. Inv => MarkersEmpty
  BY DEF Inv
<1> QED
  BY <1>1, Invariance, PTL

\* Sessions are isolated: whatever object changes, it is changed by a session
\* whose view is writable and whose root prefix the key lies under.
THEOREM SessionsIsolated == Spec => Isolation
<1>1. Inv /\ [Next]_vars =>
        [\A k \in Changed(bucket, bucket') :
           \E s \in Sessions : sess'[s] # sess[s] /\ ~ReadOnly[s] /\ HasPrefix(k, Root[s])]_vars
  <2> SUFFICES ASSUME Inv, Next, NEW k \in Changed(bucket, bucket')
               PROVE  \E s \in Sessions : sess'[s] # sess[s] /\ ~ReadOnly[s] /\ HasPrefix(k, Root[s])
    OBVIOUS
  <2>1. bucket' # bucket
    BY DEF Changed
  <2>2. PICK s \in Sessions : Start(s) \/ Continue(s)
    BY DEF Next
  <2> QED
    BY <2>1, <2>2, NextStep, Moves DEF Confined
<1> QED
  BY <1>1, Invariance, PTL DEF Isolation, Spec

\* RemoveDir destroys no file: of all the objects in the bucket a step of it
\* changes only its own marker, even if files were uploaded since it looked.
THEOREM RmdirSparesFiles == Spec => RmdirKeepsFiles
<1>1. Inv /\ [Next]_vars =>
        [\A s \in Sessions :
           sess[s].op = "rmdir" /\ sess'[s] # sess[s] =>
             \A k \in DOMAIN bucket : ~EndsInSlash(k) => k \in DOMAIN bucket' /\ bucket'[k] = bucket[k]]_vars
  <2> SUFFICES ASSUME Inv, Next, NEW s \in Sessions, sess[s].op = "rmdir", sess'[s] # sess[s],
                      NEW k \in DOMAIN bucket, ~EndsInSlash(k)
               PROVE  k \in DOMAIN bucket' /\ bucket'[k] = bucket[k]
    OBVIOUS
  <2>1. Start(s) \/ Continue(s)
    BY Frame DEF Next
  <2>2. bucket' = bucket \/ Confined(s)
    BY <2>1, NextStep
  <2>3. k \notin Changed(bucket, bucket')
    BY <2>2 DEF Confined, Changed
  <2> QED
    BY <2>3 DEF Changed
<1> QED
  BY <1>1, Invariance, PTL DEF RmdirKeepsFiles, Spec

=============================================================================
