---------------------------- MODULE AloneProofs ----------------------------
(***************************************************************************)
(* Proofs about module S3FS: what a session that is alone under its prefix *)
(* can rely on, while any number of others work beside it.                 *)
(***************************************************************************)
EXTENDS S3FSProofs

(***************************************************************************)
(* Refusals                                                                *)
(***************************************************************************)

\* Two prefixes of one key are comparable.
LEMMA Comparable ==
  ASSUME NEW k \in Key, NEW a \in Key, NEW b \in Key, HasPrefix(k, a), HasPrefix(k, b)
  PROVE  HasPrefix(a, b) \/ HasPrefix(b, a)
  BY DEF HasPrefix, Key

\* A session that is alone does not notice what others do.
LEMMA NotMine ==
  ASSUME Inv, Inv', NEW s \in Sessions, NEW t \in Sessions, t # s, Alone(s), Confined(t)
  PROVE  Mine(s, bucket') = Mine(s, bucket)
<1>1. Root[s] \in Key /\ Root[t] \in Key
  BY S3FSAssumption DEF RootPrefix
<1>2. ~HasPrefix(Root[t], Root[s]) /\ ~HasPrefix(Root[s], Root[t])
  BY DEF Alone, Confined
<1>3. DOMAIN bucket \subseteq Key /\ DOMAIN bucket' \subseteq Key
  BY DEF Inv, TypeOK, IsBucket
<1>4. \A k \in Changed(bucket, bucket') : ~HasPrefix(k, Root[s])
  <2> SUFFICES ASSUME NEW k \in Changed(bucket, bucket'), HasPrefix(k, Root[s])
               PROVE  FALSE
    OBVIOUS
  <2>1. k \in Key /\ HasPrefix(k, Root[t])
    BY <1>3 DEF Changed, Confined
  <2> QED
    BY <1>1, <1>2, <2>1, Comparable
<1>5. KeysUnder(bucket', Root[s]) = KeysUnder(bucket, Root[s])
  BY <1>4 DEF Changed, KeysUnder
<1>6. \A k \in KeysUnder(bucket, Root[s]) : bucket'[k] = bucket[k]
  BY <1>4 DEF Changed, KeysUnder
<1> QED
  BY <1>5, <1>6 DEF Mine

\* Where a session only looks.
Checking == {"stat_head", "stat_list", "stat_done", "mkdir_head", "mkdir_list",
             "rmdir_list", "rename_probe", "rename_probe_dir"}

Looking(q) == q.pc \in Checking \/ (q.pc = "idle" /\ q.reply \in Refusals)

\* An operation that has only looked, or was refused, finds the bucket as it was.
Untouched ==
  \A s \in Sessions : Alone(s) /\ Looking(sess[s]) => Mine(s, bucket) = Mine(s, pre[s])

\* A session gets to a check, or to a refusal, only from a check.
LEMMA LooksFirst ==
  ASSUME Inv, NEW s \in Sessions, Continue(s), Looking(sess'[s])
  PROVE  Looking(sess[s]) /\ UNCHANGED <<bucket, pre>>
<1>1. sess \in [Sessions -> Request] /\ sess[s] \in Request
  BY DEF Inv, TypeOK
<1>2. ASSUME NEW c, Goto(s, c)
      PROVE  sess'[s].pc = c
  BY <1>1, <1>2 DEF Goto, Request
<1>3. ASSUME NEW r, Return(s, r)
      PROVE  sess'[s].pc = "idle" /\ sess'[s].reply = r
  BY <1>1, <1>3 DEF Return, Request
<1>4. ~Return(s, "ok") /\ ~Return(s, "s3")
  BY <1>3 DEF Looking, Checking, Refusals
<1>5. ASSUME NEW c, Goto(s, c), c # "idle"
      PROVE  c \in Checking
  BY <1>2, <1>5 DEF Looking, Checking
<1>6. CASE StatHead(s) \/ StatList(s)
  BY <1>6 DEF StatHead, StatList, At, Looking, Checking, NoEffect
<1>7. CASE MkdirHead(s) \/ MkdirList(s) \/ MkdirAllStat(s)
  BY <1>7 DEF MkdirHead, MkdirList, MkdirAllStat, Statted, At, Looking, Checking, NoEffect
<1>8. CASE RemoveStat(s) \/ RemoveDirStat(s) \/ RemoveDirList(s) \/ RemoveAllStat(s)
  BY <1>8 DEF RemoveStat, RemoveDirStat, RemoveDirList, RemoveAllStat, Statted, At, Looking, Checking, NoEffect
<1>9. CASE RenameStat(s) \/ RenameProbe(s)
  BY <1>9 DEF RenameStat, RenameProbe, Statted, At, Looking, Checking, NoEffect
<1>10. CASE CallFails(s)
  BY <1>4, <1>10 DEF CallFails, Looking, Checking, NoEffect
<1>11. CASE MkdirPut(s) \/ DeleteFile(s) \/ RemoveDirDelete(s) \/ DeleteMarker(s) \/ DeleteOld(s) \/ StorPut(s)
  BY <1>4, <1>11 DEF MkdirPut, DeleteFile, RemoveDirDelete, DeleteMarker, DeleteOld, StorPut
<1>12. ~AfterDelete(s)
  BY <1>4, <1>5 DEF AfterDelete, Checking
<1>13. CASE CopyFile(s)
  BY <1>4, <1>5, <1>13 DEF CopyFile, Checking
<1>14. CASE ListKeys(s)
  <2>1. sess'[s].pc \in {"list_keys", "copy_keys", "delete_keys"}
    BY <1>1, <1>12, <1>14 DEF ListKeys, At, Request
  <2> QED
    BY <2>1 DEF Looking, Checking
<1>15. CASE DeleteKeys(s)
  <2>1. sess'[s].pc = "delete_keys"
    BY <1>1, <1>4, <1>12, <1>15 DEF DeleteKeys, At, Request
  <2> QED
    BY <2>1 DEF Looking, Checking
<1>16. CASE CopyKey(s)
  <2>1. sess'[s].pc \in {"copy_keys", "delete_keys"}
    BY <1>1, <1>4, <1>16 DEF CopyKey, At, Request
  <2> QED
    BY <2>1 DEF Looking, Checking
<1> QED
  BY <1>6, <1>7, <1>8, <1>9, <1>10, <1>11, <1>13, <1>14, <1>15, <1>16 DEF Continue

\* An operation starts from the bucket it finds.
LEMMA StartFrame ==
  ASSUME Inv, NEW s \in Sessions, Start(s)
  PROVE  /\ pre'[s] = bucket /\ bucket' = bucket
         /\ \A t \in Sessions \ {s} : pre'[t] = pre[t]
<1>1. pre' = [pre EXCEPT ![s] = bucket] /\ bucket' = bucket
  BY DEF Start, Mkdir, MkdirAll, Remove, RemoveDir, RemoveAll, Rename, Stor, Begin
<1>2. DOMAIN pre = Sessions
  BY DEF Inv, TypeOK
<1> QED
  BY <1>1, <1>2

\* Only the start of an operation notes the bucket.
LEMMA ContinueFrame ==
  ASSUME NEW s \in Sessions, Continue(s)
  PROVE  UNCHANGED pre
<1>1. CASE NoEffect \/ \E b : Effect(b)
  BY <1>1 DEF NoEffect, Effect
<1>2. CASE \/ StatHead(s) \/ StatList(s) \/ MkdirHead(s) \/ MkdirList(s) \/ MkdirAllStat(s)
           \/ RemoveStat(s) \/ RemoveDirStat(s) \/ RemoveDirList(s) \/ RemoveAllStat(s)
           \/ RenameStat(s) \/ RenameProbe(s) \/ CallFails(s) \/ ListKeys(s)
  BY <1>1, <1>2 DEF StatHead, StatList, MkdirHead, MkdirList, MkdirAllStat, RemoveStat,
                    RemoveDirStat, RemoveDirList, RemoveAllStat, RenameStat, RenameProbe,
                    CallFails, ListKeys
<1>3. CASE \/ MkdirPut(s) \/ DeleteFile(s) \/ RemoveDirDelete(s) \/ DeleteMarker(s) \/ DeleteOld(s)
           \/ StorPut(s) \/ CopyFile(s) \/ DeleteKeys(s) \/ CopyKey(s)
  BY <1>1, <1>3 DEF MkdirPut, DeleteFile, RemoveDirDelete, DeleteMarker, DeleteOld, StorPut,
                    CopyFile, DeleteKeys, CopyKey
<1> QED
  BY <1>2, <1>3 DEF Continue

\* Untouched is inductive relative to Inv.
LEMMA UntouchedStep ==
  ASSUME Inv, Inv', Untouched, NEW s \in Sessions, Start(s) \/ Continue(s)
  PROVE  Untouched'
<1> SUFFICES ASSUME NEW t \in Sessions, Alone(t), Looking(sess'[t])
             PROVE  Mine(t, bucket') = Mine(t, pre'[t])
  BY DEF Untouched, Alone, Mine, Looking, KeysUnder, HasPrefix
<1>1. CASE t # s
  <2>1. sess'[t] = sess[t]
    BY <1>1, Frame
  <2>2. pre'[t] = pre[t]
    BY <1>1, StartFrame, ContinueFrame
  <2>3. Mine(t, bucket) = Mine(t, pre[t])
    BY <2>1 DEF Untouched
  <2>4. bucket' = bucket \/ Confined(s)
    BY NextStep
  <2>5. Mine(t, bucket') = Mine(t, bucket)
    BY <1>1, <2>4, NotMine
  <2> QED
    BY <2>2, <2>3, <2>5
<1>2. CASE t = s /\ Start(s)
  BY <1>2, StartFrame
<1>3. CASE t = s /\ Continue(s)
  BY <1>3, LooksFirst DEF Untouched
<1> QED
  BY <1>1, <1>2, <1>3

\* What the gateway refuses has no effect: for a session that is alone under
\* its prefix, every errno of dir.go comes before the first call that changes
\* the bucket.
THEOREM RefusedUnchanged == Spec => []RefusalsChangeNothing
<1>1. Init => Untouched
  BY DEF Init, Untouched
<1>2. ASSUME Inv, Inv', Untouched, [Next]_vars
      PROVE  Untouched'
  <2>1. CASE Next
    BY <1>2, <2>1, UntouchedStep DEF Next
  <2>2. CASE UNCHANGED vars
    BY <1>2, <2>2 DEF vars, Untouched, Alone, Mine, Looking, KeysUnder, HasPrefix
  <2> QED
    BY <1>2, <2>1, <2>2
<1>3. Untouched => RefusalsChangeNothing
  BY DEF Untouched, RefusalsChangeNothing, Looking, Idle, At
<1> QED
  BY <1>1, <1>2, <1>3, Invariance, PTL DEF Spec

(***************************************************************************)
(* A rename loses nothing                                                  *)
(***************************************************************************)

\* Request q of session s, begun on bucket b, is a rename that can be done.
Wanted(s, b, q) ==
  /\ ~ReadOnly[s] /\ q.op = "rename" /\ q.path # q.new
  /\ RenameOutcome(b, Root[s], q.path, q.new).reply = "ok"

From(s, b, q) == MovedKeys(b, Root[s], q.path)

To(s, b, q, k) == MovedTo(b, Root[s], q.path, q.new, k)

\* The conditions under which FileTree promises the rename.
LEMMA WantedFacts ==
  ASSUME NEW s \in Sessions, NEW b, NEW q \in Request, Wanted(s, b, q)
  PROVE  /\ q.path # <<>> /\ q.new # <<>>
         /\ Kind(b, Root[s], q.path) \in {"file", "dir"}
         /\ Kind(b, Root[s], q.path) = "dir" => ~HasPrefix(keyDir(s, q.new), keyDir(s, q.path))
         /\ KeysUnder(b, keyDir(s, q.new)) = {}
<1> DEFINE k == Kind(b, Root[s], q.path)
           into == HasPrefix(dirKey(Root[s], q.new), dirKey(Root[s], q.path))
           full == KeysUnder(b, dirKey(Root[s], q.new)) # {}
<1>1. q.path # q.new /\ RenameOutcome(b, Root[s], q.path, q.new).reply = "ok"
  BY DEF Wanted
<1>2. k \in {"file", "dir", "none"}
  BY DEF Kind
<1>3. ASSUME <<>> \in {q.path, q.new}
      PROVE  FALSE
  <2>1. RenameOutcome(b, Root[s], q.path, q.new) = Outcome("EACCES", b)
    BY <1>1, <1>3, Zenon DEF RenameOutcome
  <2> QED
    BY <1>1, <2>1 DEF Outcome
<1>4. RenameOutcome(b, Root[s], q.path, q.new) =
         CASE k = "none" -> Outcome("ENOENT", b)
           [] k = "dir" /\ into -> Outcome("EINVAL", b)
           [] k = "file" /\ full -> Outcome("EISDIR", b)
           [] k = "dir" /\ ~into /\ full -> Outcome("ENOTEMPTY", b)
           [] OTHER -> Outcome("ok", Moved(b, Root[s], q.path, q.new))
  BY <1>1, <1>3, Zenon DEF RenameOutcome
<1> HIDE DEF k, into, full
<1>5. k # "none" /\ ~(k = "dir" /\ into) /\ ~(k = "file" /\ full) /\ ~(k = "dir" /\ full)
  BY <1>1, <1>2, <1>4, SMTT(30) DEF Outcome
<1> QED
  BY <1>2, <1>3, <1>5 DEF k, into, full, keyDir

\* Different paths have different keys.
LEMMA KeysDiffer ==
  ASSUME NEW r \in RootPrefix, NEW p \in Path, NEW n \in Path, p # <<>>, n # <<>>, p # n
  PROVE  joinRoot(r, p) # joinRoot(r, n)
<1> DEFINE stem == SubSeq(r, 1, Len(r) - 1)
<1>1. stem \in Key /\ p \in Key /\ n \in Key
  BY StemType, SegmentFacts DEF RootPrefix
<1>2. joinRoot(r, p) = stem \o p /\ joinRoot(r, n) = stem \o n
  BY DEF joinRoot
<1> HIDE DEF stem
<1> SUFFICES ASSUME stem \o p = stem \o n
             PROVE  FALSE
  BY <1>2
<1>3. Len(p) = Len(n)
  BY <1>1, ConcatFacts DEF Key
<1>4. ASSUME NEW i \in 1 .. Len(p)
      PROVE  p[i] = n[i]
  <2>1. Len(stem) \in Nat /\ Len(p) \in Nat /\ i \in Int
    BY <1>1 DEF Key
  <2>2. Len(stem) + i \in 1 .. Len(stem) + Len(p) /\ ~(Len(stem) + i <= Len(stem))
        /\ Len(stem) + i - Len(stem) = i
    BY <2>1
  <2> QED
    BY <1>1, <1>3, <2>2, ConcatFacts DEF Key
<1> QED
  BY <1>1, <1>3, <1>4 DEF Key

\* Different keys under one prefix stay different under another.
LEMMA RetargetDiffer ==
  ASSUME NEW j \in Key, NEW k \in Key, NEW old \in Key, NEW new \in Key,
         old # <<>>, new # <<>>, HasPrefix(j, old), HasPrefix(k, old),
         Retarget(j, old, new) = Retarget(k, old, new)
  PROVE  j = k
<1> DEFINE stem == SubSeq(new, 1, Len(new) - 1)
           Rest(x) == SubSeq(x, Len(old), Len(x))
<1>1. /\ Len(old) \in Nat \ {0} /\ Len(j) \in Nat /\ Len(k) \in Nat
      /\ Len(old) =< Len(j) /\ Len(old) =< Len(k)
      /\ \A i \in 1 .. (Len(old) - 1) : j[i] = old[i] /\ k[i] = old[i]
  BY DEF HasPrefix, Key
<1>2. stem \in Key
  BY StemType
<1>3. ASSUME NEW x \in Key, Len(old) =< Len(x)
      PROVE  /\ Rest(x) \in Key /\ Len(Rest(x)) = Len(x) - Len(old) + 1
             /\ \A i \in 1 .. (Len(x) - Len(old) + 1) : Rest(x)[i] = x[Len(old) + i - 1]
  <2>1. Len(x) \in Nat
    BY DEF Key
  <2> QED
    BY <1>1, <1>3, <2>1 DEF Key
<1>4. Retarget(j, old, new) = stem \o Rest(j) /\ Retarget(k, old, new) = stem \o Rest(k)
  BY DEF Retarget
<1>5. Rest(j) \in Key /\ Rest(k) \in Key
  BY <1>1, <1>3
<1>6. /\ Len(Rest(j)) = Len(j) - Len(old) + 1 /\ Len(Rest(k)) = Len(k) - Len(old) + 1
      /\ \A i \in 1 .. (Len(j) - Len(old) + 1) : Rest(j)[i] = j[Len(old) + i - 1]
      /\ \A i \in 1 .. (Len(k) - Len(old) + 1) : Rest(k)[i] = k[Len(old) + i - 1]
  BY <1>1, <1>3
<1> DEFINE tj == Rest(j)
           tk == Rest(k)
<1>7. Len(tj) = Len(tk) /\ \A i \in 1 .. Len(tj) : tj[i] = tk[i]
  <2>1. stem \in Seq(Segment) /\ tj \in Seq(Segment) /\ tk \in Seq(Segment)
    BY <1>2, <1>5 DEF Key
  <2>2. stem \o tj = stem \o tk
    BY <1>4
  <2> HIDE DEF stem, Rest, tj, tk
  <2>3. Len(tj) = Len(tk)
    <3>1. Len(stem \o tj) = Len(stem) + Len(tj) /\ Len(stem \o tk) = Len(stem) + Len(tk)
      BY <2>1, ConcatFacts
    <3> QED
      BY <2>1, <2>2, <3>1
  <2>4. ASSUME NEW i \in 1 .. Len(tj)
        PROVE  tj[i] = tk[i]
    <3>1. Len(stem) \in Nat /\ Len(tj) \in Nat /\ i \in Int
      BY <2>1
    <3>2. Len(stem) + i \in 1 .. Len(stem) + Len(tj) /\ ~(Len(stem) + i <= Len(stem))
          /\ Len(stem) + i - Len(stem) = i
      BY <3>1
    <3>3. (stem \o tj)[Len(stem) + i] = tj[i] /\ (stem \o tk)[Len(stem) + i] = tk[i]
      BY <2>1, <2>3, <3>2, ConcatFacts
    <3> QED
      BY <2>2, <3>3
  <2> QED
    BY <2>3, <2>4
<1>8. \A i \in 1 .. Len(Rest(j)) : Rest(j)[i] = Rest(k)[i]
  BY <1>7
<1> HIDE DEF stem, Rest
<1>9. Len(j) = Len(k)
  BY <1>1, <1>6, <1>7
<1>10. ASSUME NEW i \in 1 .. Len(j)
       PROVE  j[i] = k[i]
  <2>1. CASE i =< Len(old) - 1
    BY <1>1, <2>1
  <2>2. CASE i >= Len(old)
    <3>1. /\ i - Len(old) + 1 \in 1 .. (Len(j) - Len(old) + 1)
          /\ Len(old) + (i - Len(old) + 1) - 1 = i
      BY <1>1, <2>2
    <3> QED
      BY <1>6, <1>8, <1>9, <3>1
  <2> QED
    BY <1>1, <2>1, <2>2
<1> QED
  BY <1>9, <1>10 DEF Key

\* The keys of a rename and their targets: all the session's own, no target
\* a key that is moved, and no two moved to one target.
LEMMA Geometry ==
  ASSUME NEW s \in Sessions, NEW b, IsBucket(b), NEW q \in Request, Wanted(s, b, q)
  PROVE  /\ From(s, b, q) \subseteq DOMAIN b
         /\ \A k \in From(s, b, q) :
              /\ k \in Key /\ HasPrefix(k, Root[s])
              /\ To(s, b, q, k) \in Key /\ HasPrefix(To(s, b, q, k), Root[s])
              /\ To(s, b, q, k) \notin From(s, b, q)
         /\ \A j, k \in From(s, b, q) : To(s, b, q, j) = To(s, b, q, k) => j = k
<1>1. /\ q.path \in Path /\ q.new \in Path /\ q.path # <<>> /\ q.new # <<>> /\ q.path # q.new
      /\ Kind(b, Root[s], q.path) \in {"file", "dir"}
      /\ Kind(b, Root[s], q.path) = "dir" => ~HasPrefix(keyDir(s, q.new), keyDir(s, q.path))
      /\ KeysUnder(b, keyDir(s, q.new)) = {}
  BY WantedFacts DEF Request, Wanted
<1>2. Root[s] \in RootPrefix /\ DOMAIN b \subseteq Key
  BY S3FSAssumption DEF IsBucket
<1>3. CASE Kind(b, Root[s], q.path) = "file"
  <2>1. /\ From(s, b, q) = {key(s, q.path)}
        /\ \A k : To(s, b, q, k) = key(s, q.new)
    BY <1>3 DEF From, To, MovedKeys, MovedTo, key
  <2>2. key(s, q.path) \in DOMAIN b
    BY <1>3 DEF Kind, key
  <2>3. key(s, q.path) # key(s, q.new)
    BY <1>1, <1>2, KeysDiffer DEF key
  <2>4. /\ key(s, q.path) \in Key /\ HasPrefix(key(s, q.path), Root[s])
        /\ key(s, q.new) \in Key /\ HasPrefix(key(s, q.new), Root[s])
    BY <1>1, SessionKeys
  <2> QED
    BY <2>1, <2>2, <2>3, <2>4
<1>4. CASE Kind(b, Root[s], q.path) = "dir"
  <2> DEFINE old == keyDir(s, q.path)
             new == keyDir(s, q.new)
  <2>1. /\ From(s, b, q) = KeysUnder(b, old)
        /\ \A k : To(s, b, q, k) = Retarget(k, old, new)
    BY <1>4 DEF From, To, MovedKeys, MovedTo, keyDir
  <2>2. /\ old \in Key /\ old # <<>> /\ new \in Key /\ new # <<>>
        /\ \A k \in Key : HasPrefix(k, old) => HasPrefix(k, Root[s])
        /\ \A k \in Key : HasPrefix(k, new) => HasPrefix(k, Root[s])
    BY <1>1, SessionKeys
  <2>3. \A k \in From(s, b, q) : k \in DOMAIN b /\ k \in Key /\ HasPrefix(k, old)
    BY <1>2, <2>1 DEF KeysUnder
  <2> HIDE DEF old, new
  <2>4. ASSUME NEW k \in From(s, b, q)
        PROVE  /\ To(s, b, q, k) \in Key /\ HasPrefix(To(s, b, q, k), new)
               /\ ~HasPrefix(To(s, b, q, k), old)
    <3>1. To(s, b, q, k) \in Key /\ HasPrefix(To(s, b, q, k), new)
      BY <2>1, <2>2, <2>3, RetargetFacts
    <3>2. ~HasPrefix(new, old)
      BY <1>1, <1>4 DEF old, new
    <3>3. ~HasPrefix(old, new)
      <4> SUFFICES ASSUME HasPrefix(old, new)
                   PROVE  FALSE
        OBVIOUS
      <4>1. HasPrefix(k, new)
        BY <2>2, <2>3 DEF HasPrefix, Key
      <4>2. k \in KeysUnder(b, new)
        BY <2>3, <4>1 DEF KeysUnder
      <4> QED
        BY <1>1, <4>2 DEF new
    <3> QED
      BY <2>2, <3>1, <3>2, <3>3, Comparable
  <2>5. \A j, k \in From(s, b, q) : To(s, b, q, j) = To(s, b, q, k) => j = k
    BY <2>1, <2>2, <2>3, RetargetDiffer
  <2> QED
    BY <2>2, <2>3, <2>4, <2>5
<1> QED
  BY <1>1, <1>3, <1>4

(***************************************************************************)
(* What a rename that can be done has reached                              *)
(***************************************************************************)
Holds(c, k, v) == k \in DOMAIN c /\ c[k] = v

Targets(s, b, q) == {To(s, b, q, k) : k \in From(s, b, q)}

\* The keys of K are where they were; their copies are made.
Left(b, c, K) == \A k \in K : Holds(c, k, b[k])

Copied(s, b, q, c, K) == \A k \in K : Holds(c, To(s, b, q, k), b[k])

\* What the rename does not name is as it was.
Spared(s, b, q, c) == Left(b, c, KeysUnder(b, Root[s]) \ (From(s, b, q) \cup Targets(s, b, q)))

Safe(s, b, q, c) ==
  /\ \A k \in From(s, b, q) : Holds(c, k, b[k]) \/ Holds(c, To(s, b, q, k), b[k])
  /\ Spared(s, b, q, c)

StatCalls == {"stat_head", "stat_list", "stat_done"}

FileCalls == {"rename_probe", "copy_file", "delete_old"}

DirCalls == {"rename_probe_dir", "list_keys", "copy_keys", "delete_keys"}

\* The rename treats its path as what it is.
Sees(s, b, q) ==
  LET kind == Kind(b, Root[s], q.path)
  IN  /\ q.pc \in {"idle"} \cup StatCalls \cup FileCalls \cup DirCalls
      /\ q.pc = "stat_list" => kind # "file"
      /\ q.pc = "stat_done" /\ q.info # "none" => kind = q.info
      /\ q.pc \in FileCalls => kind = "file"
      /\ q.pc \in DirCalls => kind = "dir"

\* Nothing is deleted before its copy is made, and nothing else ever.
Stage(s, b, q, c) ==
  /\ q.pc \in StatCalls \cup {"rename_probe", "rename_probe_dir", "copy_file", "list_keys"} =>
       Mine(s, c) = Mine(s, b)
  /\ q.pc = "delete_old" => Copied(s, b, q, c, From(s, b, q))
  /\ q.listed \subseteq From(s, b, q)
  /\ q.pc \in {"copy_keys", "delete_keys"} => q.todo \subseteq q.listed
  /\ q.pc = "copy_keys" => Left(b, c, From(s, b, q)) /\ Copied(s, b, q, c, q.listed \ q.todo)
  /\ q.pc = "delete_keys" => Copied(s, b, q, c, q.listed)

Moving(s, b, q, c) == Wanted(s, b, q) => Sees(s, b, q) /\ Stage(s, b, q, c) /\ Safe(s, b, q, c)

RenameInv == \A s \in Sessions : Alone(s) => Moving(s, pre[s], sess[s], bucket)

\* What a session sees as before, is as before.
LEMMA SameUnder ==
  ASSUME NEW s \in Sessions, NEW b, NEW c, Mine(s, c) = Mine(s, b),
         NEW k, HasPrefix(k, Root[s])
  PROVE  /\ k \in DOMAIN c <=> k \in DOMAIN b
         /\ k \in DOMAIN b => c[k] = b[k]
<1>1. DOMAIN Mine(s, c) = KeysUnder(c, Root[s]) /\ DOMAIN Mine(s, b) = KeysUnder(b, Root[s])
  BY DEF Mine
<1>2. k \in DOMAIN c <=> k \in DOMAIN b
  BY <1>1 DEF KeysUnder
<1>3. ASSUME k \in DOMAIN b
      PROVE  c[k] = b[k]
  <2>1. k \in KeysUnder(c, Root[s]) /\ k \in KeysUnder(b, Root[s])
    BY <1>2, <1>3 DEF KeysUnder
  <2>2. Mine(s, c)[k] = c[k] /\ Mine(s, b)[k] = b[k]
    BY <2>1 DEF Mine
  <2> QED
    BY <2>2
<1> QED
  BY <1>2, <1>3

\* A key of the view holds the same in buckets that look the same.
LEMMA SameHolds ==
  ASSUME NEW s \in Sessions, NEW b, NEW c, Mine(s, c) = Mine(s, b),
         NEW k, HasPrefix(k, Root[s]), NEW v
  PROVE  Holds(c, k, v) <=> Holds(b, k, v)
  BY SameUnder DEF Holds

\* Before the first copy everything is where it was.
LEMMA SafeBefore ==
  ASSUME NEW s \in Sessions, NEW b, IsBucket(b), NEW q \in Request, Wanted(s, b, q),
         NEW c, Mine(s, c) = Mine(s, b)
  PROVE  Safe(s, b, q, c) /\ Left(b, c, From(s, b, q))
<1>1. ASSUME NEW k \in DOMAIN b, HasPrefix(k, Root[s])
      PROVE  Holds(c, k, b[k])
  BY <1>1, SameUnder DEF Holds
<1>2. \A k \in From(s, b, q) : k \in DOMAIN b /\ HasPrefix(k, Root[s])
  BY Geometry
<1>3. \A k \in KeysUnder(b, Root[s]) : k \in DOMAIN b /\ HasPrefix(k, Root[s])
  BY DEF KeysUnder
<1> QED
  BY <1>1, <1>2, <1>3 DEF Safe, Left, Spared

\* What others do outside the session's view does not matter.
LEMMA Rely ==
  ASSUME NEW s \in Sessions, NEW b, IsBucket(b), NEW q \in Request, NEW c, NEW d,
         Mine(s, d) = Mine(s, c), Moving(s, b, q, c)
  PROVE  Moving(s, b, q, d)
<1> SUFFICES ASSUME Wanted(s, b, q)
             PROVE  Sees(s, b, q) /\ Stage(s, b, q, d) /\ Safe(s, b, q, d)
  BY DEF Moving
<1>1. Sees(s, b, q) /\ Stage(s, b, q, c) /\ Safe(s, b, q, c)
  BY DEF Moving
<1>2. ASSUME NEW k, HasPrefix(k, Root[s]), NEW v, Holds(c, k, v)
      PROVE  Holds(d, k, v)
  BY <1>2, SameHolds
<1>3. \A k \in From(s, b, q) : HasPrefix(k, Root[s]) /\ HasPrefix(To(s, b, q, k), Root[s])
  BY Geometry
<1>4. \A k \in KeysUnder(b, Root[s]) : HasPrefix(k, Root[s])
  BY DEF KeysUnder
<1>5. ASSUME NEW K, K \subseteq From(s, b, q)
      PROVE  /\ Left(b, c, K) => Left(b, d, K)
             /\ Copied(s, b, q, c, K) => Copied(s, b, q, d, K)
  BY <1>2, <1>3, <1>5 DEF Left, Copied
<1>6. Spared(s, b, q, d)
  BY <1>1, <1>2, <1>4 DEF Safe, Spared, Left
<1>7. Safe(s, b, q, d)
  BY <1>1, <1>2, <1>3, <1>6 DEF Safe
<1>8. Stage(s, b, q, d)
  BY <1>1, <1>5 DEF Stage
<1> QED
  BY <1>1, <1>7, <1>8

\* A copy is made, and nothing else is disturbed.
LEMMA PutTarget ==
  ASSUME NEW s \in Sessions, NEW b, IsBucket(b), NEW q \in Request, Wanted(s, b, q), NEW c,
         NEW from \in From(s, b, q), Holds(c, from, b[from])
  PROVE  LET d == PutObject(c, To(s, b, q, from), c[from])
         IN  /\ Holds(d, To(s, b, q, from), b[from])
             /\ \A k \in From(s, b, q) :
                  /\ Holds(c, k, b[k]) => Holds(d, k, b[k])
                  /\ Holds(c, To(s, b, q, k), b[k]) => Holds(d, To(s, b, q, k), b[k])
             /\ Spared(s, b, q, c) => Spared(s, b, q, d)
<1> DEFINE to == To(s, b, q, from)
           d == PutObject(c, to, c[from])
<1>1. d = [j \in DOMAIN c \cup {to} |-> IF j = to THEN c[from] ELSE c[j]]
  BY DEF PutObject
<1>2. /\ \A k \in From(s, b, q) : k # to
      /\ \A k \in From(s, b, q) : To(s, b, q, k) = to => k = from
  BY Geometry
<1>3. to \in Targets(s, b, q)
  BY DEF Targets
<1> HIDE DEF to
<1>4. Holds(d, to, b[from])
  BY <1>1 DEF Holds
<1>5. ASSUME NEW k, k # to, NEW v, Holds(c, k, v)
      PROVE  Holds(d, k, v)
  BY <1>1, <1>5 DEF Holds
<1> HIDE DEF d
<1>6. Spared(s, b, q, c) => Spared(s, b, q, d)
  BY <1>3, <1>5 DEF Spared, Left
<1>7. ASSUME NEW k \in From(s, b, q)
      PROVE  /\ Holds(c, k, b[k]) => Holds(d, k, b[k])
             /\ Holds(c, To(s, b, q, k), b[k]) => Holds(d, To(s, b, q, k), b[k])
  BY <1>2, <1>4, <1>5
<1> QED
  BY <1>4, <1>6, <1>7 DEF d, to

\* What is deleted under the old name is nobody's copy.
LEMMA DropOld ==
  ASSUME NEW s \in Sessions, NEW b, IsBucket(b), NEW q \in Request, Wanted(s, b, q), NEW c,
         NEW D, D \subseteq From(s, b, q)
  PROVE  LET d == DeleteObjects(c, D)
         IN  /\ \A k \in From(s, b, q) :
                  /\ k \notin D /\ Holds(c, k, b[k]) => Holds(d, k, b[k])
                  /\ Holds(c, To(s, b, q, k), b[k]) => Holds(d, To(s, b, q, k), b[k])
             /\ Spared(s, b, q, c) => Spared(s, b, q, d)
<1> DEFINE d == DeleteObjects(c, D)
<1>1. ASSUME NEW k, k \notin D, NEW v, Holds(c, k, v)
      PROVE  Holds(d, k, v)
  BY <1>1 DEF Holds, DeleteObjects
<1>2. \A k \in From(s, b, q) : To(s, b, q, k) \notin D
  BY Geometry
<1> HIDE DEF d
<1>3. Spared(s, b, q, c) => Spared(s, b, q, d)
  BY <1>1 DEF Spared, Left
<1> QED
  BY <1>1, <1>2, <1>3 DEF d

\* An operation keeps its arguments; Remove may become RemoveDir.
LEMMA SameRequest ==
  ASSUME Inv, NEW s \in Sessions, Continue(s)
  PROVE  /\ sess'[s].op \in {sess[s].op, "rmdir"}
         /\ sess'[s].path = sess[s].path /\ sess'[s].new = sess[s].new
<1> DEFINE Same == /\ sess'[s].op \in {sess[s].op, "rmdir"}
                   /\ sess'[s].path = sess[s].path /\ sess'[s].new = sess[s].new
<1>1. sess \in [Sessions -> Request] /\ sess[s] \in Request
  BY DEF Inv, TypeOK
<1>2. ASSUME NEW c, Goto(s, c)
      PROVE  Same
  BY <1>1, <1>2 DEF Goto, Request
<1>3. ASSUME NEW r, Return(s, r)
      PROVE  Same
  BY <1>1, <1>3 DEF Return, Request
<1>4. CASE StatHead(s) \/ StatList(s)
  BY <1>1, <1>2, <1>4 DEF StatHead, StatList, Request
<1>5. CASE RemoveStat(s)
  BY <1>1, <1>2, <1>3, <1>5 DEF RemoveStat, Request
<1>6. ASSUME AfterDelete(s)
      PROVE  Same
  BY <1>2, <1>3, <1>6 DEF AfterDelete
<1>7. CASE ListKeys(s)
  BY <1>1, <1>6, <1>7 DEF ListKeys, Request
<1>8. CASE DeleteKeys(s)
  BY <1>1, <1>3, <1>6, <1>8 DEF DeleteKeys, Request
<1>9. CASE CopyKey(s)
  BY <1>1, <1>3, <1>9 DEF CopyKey, Request
<1>10. CASE MkdirHead(s) \/ MkdirList(s) \/ MkdirPut(s) \/ MkdirAllStat(s)
  BY <1>2, <1>3, <1>10 DEF MkdirHead, MkdirList, MkdirPut, MkdirAllStat
<1>11. CASE DeleteFile(s) \/ RemoveDirStat(s) \/ RemoveDirList(s) \/ RemoveDirDelete(s) \/ RemoveAllStat(s)
  BY <1>2, <1>3, <1>11 DEF DeleteFile, RemoveDirStat, RemoveDirList, RemoveDirDelete, RemoveAllStat
<1>12. CASE DeleteMarker(s) \/ RenameStat(s) \/ RenameProbe(s) \/ CopyFile(s)
  BY <1>2, <1>3, <1>12 DEF DeleteMarker, RenameStat, RenameProbe, CopyFile
<1>13. CASE DeleteOld(s) \/ StorPut(s) \/ CallFails(s)
  BY <1>2, <1>3, <1>13 DEF DeleteOld, StorPut, CallFails
<1> QED
  BY <1>4, <1>5, <1>7, <1>8, <1>9, <1>10, <1>11, <1>12, <1>13 DEF Continue

\* Two requests of one rename.
LEMMA SameRename ==
  ASSUME NEW s, NEW b, NEW q, NEW r, r.op = q.op, r.path = q.path, r.new = q.new
  PROVE  /\ Wanted(s, b, r) <=> Wanted(s, b, q)
         /\ From(s, b, r) = From(s, b, q)
         /\ \A k : To(s, b, r, k) = To(s, b, q, k)
         /\ \A d : Safe(s, b, r, d) <=> Safe(s, b, q, d)
         /\ \A d, K : Copied(s, b, r, d, K) <=> Copied(s, b, q, d, K)
<1>1. Wanted(s, b, r) <=> Wanted(s, b, q)
  BY DEF Wanted
<1>2. From(s, b, r) = From(s, b, q)
  BY DEF From
<1>3. \A k : To(s, b, r, k) = To(s, b, q, k)
  BY DEF To
<1>4. Targets(s, b, r) = Targets(s, b, q)
  BY <1>2, <1>3 DEF Targets
<1>5. \A d, K : Copied(s, b, r, d, K) <=> Copied(s, b, q, d, K)
  BY <1>3 DEF Copied
<1>6. \A d : Safe(s, b, r, d) <=> Safe(s, b, q, d)
  BY <1>2, <1>3, <1>4 DEF Safe, Spared
<1> QED
  BY <1>1, <1>2, <1>3, <1>5, <1>6

\* The session s runs a rename that can be done, and goes on with it.
Going(s) ==
  /\ Inv /\ Inv' /\ Continue(s)
  /\ Wanted(s, pre[s], sess[s])
  /\ Sees(s, pre[s], sess[s]) /\ Stage(s, pre[s], sess[s], bucket) /\ Safe(s, pre[s], sess[s], bucket)
  /\ sess'[s].op = "rename"

Gone(s) ==
  Sees(s, pre[s], sess'[s]) /\ Stage(s, pre[s], sess'[s], bucket') /\ Safe(s, pre[s], sess'[s], bucket')

\* What the step lemmas need of a rename that goes on.
LEMMA GoingFacts ==
  ASSUME NEW s \in Sessions, Going(s)
  PROVE  /\ sess \in [Sessions -> Request] /\ sess[s] \in Request /\ sess'[s] \in Request
         /\ IsBucket(pre[s]) /\ IsBucket(bucket)
         /\ sess[s].op = "rename" /\ sess[s].path \in Path /\ sess[s].new \in Path
         /\ sess[s].path # <<>> /\ sess[s].new # <<>>
         /\ sess'[s].op = sess[s].op /\ sess'[s].path = sess[s].path /\ sess'[s].new = sess[s].new
<1>1. /\ sess \in [Sessions -> Request] /\ sess[s] \in Request /\ sess'[s] \in Request
      /\ IsBucket(pre[s]) /\ IsBucket(bucket)
  BY DEF Going, Inv, TypeOK
<1>2. sess[s].op = "rename" /\ sess'[s].op = "rename"
  BY DEF Going, Wanted
<1>3. sess[s].path # <<>> /\ sess[s].new # <<>>
  BY <1>1, WantedFacts DEF Going
<1>4. sess'[s].path = sess[s].path /\ sess'[s].new = sess[s].new
  BY SameRequest DEF Going
<1> QED
  BY <1>1, <1>2, <1>3, <1>4 DEF Request

\* A rename may return at any time: at every moment all is safe.
LEMMA GoneBack ==
  ASSUME NEW s \in Sessions, Going(s), NEW x, Return(s, x), Safe(s, pre[s], sess[s], bucket')
  PROVE  Gone(s)
<1>1. sess'[s].pc = "idle" /\ sess'[s].listed = {}
  BY GoingFacts DEF Return, Request
<1>2. Sees(s, pre[s], sess'[s])
  BY <1>1 DEF Sees, StatCalls, FileCalls, DirCalls
<1>3. Stage(s, pre[s], sess'[s], bucket')
  BY <1>1 DEF Stage, StatCalls
<1>4. Safe(s, pre[s], sess'[s], bucket')
  BY GoingFacts, SameRename
<1> QED
  BY <1>2, <1>3, <1>4 DEF Gone

\* As long as the session has only looked, it sees the bucket it began with.
LEMMA GoneOn ==
  ASSUME NEW s \in Sessions, Going(s), UNCHANGED bucket,
         Mine(s, bucket) = Mine(s, pre[s]), Sees(s, pre[s], sess'[s]),
         sess'[s].pc \in StatCalls \cup {"rename_probe", "rename_probe_dir", "copy_file", "list_keys"},
         sess'[s].listed \subseteq From(s, pre[s], sess[s])
  PROVE  Gone(s)
<1>1. Stage(s, pre[s], sess'[s], bucket')
  BY GoingFacts, SameRename DEF Stage, StatCalls
<1>2. Safe(s, pre[s], sess'[s], bucket')
  BY GoingFacts, SameRename DEF Going
<1> QED
  BY <1>1, <1>2 DEF Gone

\* Stat finds the kind of the old name.
LEMMA GoneStat ==
  ASSUME NEW s \in Sessions, Going(s), StatHead(s) \/ StatList(s)
  PROVE  Gone(s)
<1> DEFINE b == pre[s]
           q == sess[s]
           r == sess'[s]
<1>1. /\ Mine(s, bucket) = Mine(s, b) /\ UNCHANGED bucket
      /\ q.pc \in {"stat_head", "stat_list"}
      /\ q.pc = "stat_list" => Kind(b, Root[s], q.path) # "file"
  BY DEF Going, Stage, Sees, StatHead, StatList, NoEffect, At, StatCalls
<1>2. /\ sess \in [Sessions -> Request] /\ q \in Request /\ r.path = q.path
      /\ key(s, q.path) \in Key /\ HasPrefix(key(s, q.path), Root[s])
      /\ \A k \in Key : HasPrefix(k, keyDir(s, q.path)) => HasPrefix(k, Root[s])
      /\ DOMAIN bucket \subseteq Key /\ DOMAIN b \subseteq Key
  BY GoingFacts, SessionKeys DEF IsBucket
<1>3. key(s, q.path) \in DOMAIN bucket <=> key(s, q.path) \in DOMAIN b
  BY <1>1, <1>2, SameUnder
<1>4. KeysUnder(bucket, keyDir(s, q.path)) = KeysUnder(b, keyDir(s, q.path))
  <2>1. \A k \in Key : HasPrefix(k, keyDir(s, q.path)) => (k \in DOMAIN bucket <=> k \in DOMAIN b)
    BY <1>1, <1>2, SameUnder
  <2> QED
    BY <1>2, <2>1 DEF KeysUnder
<1>5. Sees(s, b, r) /\ r.pc \in StatCalls /\ r.listed = q.listed
  <2>1. CASE StatHead(s)
    <3>1. \/ key(s, q.path) \in DOMAIN bucket /\ r.pc = "stat_done" /\ r.info = "file"
          \/ key(s, q.path) \notin DOMAIN bucket /\ r.pc = "stat_list"
      BY <1>2, <2>1 DEF StatHead, Goto, Request
    <3>2. r.listed = q.listed
      BY <1>2, <2>1 DEF StatHead, Goto, Request
    <3> QED
      BY <1>2, <1>3, <3>1, <3>2 DEF Sees, Kind, key, StatCalls, FileCalls, DirCalls
  <2>2. CASE StatList(s)
    <3>1. /\ r.pc = "stat_done" /\ q.pc = "stat_list" /\ r.listed = q.listed
          /\ r.info = IF KeysUnder(bucket, keyDir(s, q.path)) # {} THEN "dir" ELSE "none"
      BY <1>2, <2>2 DEF StatList, At, Request, prefixHasObjects
    <3>2. key(s, q.path) \notin DOMAIN b
      BY <1>1, <3>1 DEF Kind, key
    <3> QED
      BY <1>2, <1>4, <3>1, <3>2 DEF Sees, Kind, key, keyDir, StatCalls, FileCalls, DirCalls
  <2> QED
    BY <2>1, <2>2
<1>6. q.listed \subseteq From(s, b, q)
  BY DEF Going, Stage
<1> QED
  BY <1>1, <1>5, <1>6, GoneOn DEF StatCalls

\* The checks before the first copy change nothing.
LEMMA GoneProbe ==
  ASSUME NEW s \in Sessions, Going(s), RenameStat(s) \/ RenameProbe(s)
  PROVE  Gone(s)
<1> DEFINE b == pre[s]
           q == sess[s]
           r == sess'[s]
<1>1. UNCHANGED bucket /\ q.pc \in {"stat_done", "rename_probe", "rename_probe_dir"}
  BY DEF RenameStat, RenameProbe, NoEffect, Statted, At
<1>2. Mine(s, bucket) = Mine(s, b) /\ q.listed \subseteq From(s, b, q)
  BY <1>1 DEF Going, Stage, StatCalls
<1>3. sess \in [Sessions -> Request] /\ q \in Request /\ r.path = q.path
  BY GoingFacts
<1>4. ASSUME NEW x, Return(s, x)
      PROVE  Gone(s)
  BY <1>1, <1>4, GoneBack DEF Going
<1>5. ASSUME NEW x, Goto(s, x)
      PROVE  r.pc = x /\ r.listed = q.listed
  BY <1>3, <1>5 DEF Goto, Request
<1>6. CASE Goto(s, "rename_probe") /\ Statted(s, "rename", "file")
  <2>1. Sees(s, b, r)
    BY <1>3, <1>5, <1>6 DEF Going, Sees, Statted, At, StatCalls, FileCalls, DirCalls
  <2> QED
    BY <1>1, <1>2, <1>5, <1>6, <2>1, GoneOn
<1>7. CASE Goto(s, "rename_probe_dir") /\ Statted(s, "rename", "dir")
  <2>1. Sees(s, b, r)
    BY <1>3, <1>5, <1>7 DEF Going, Sees, Statted, At, StatCalls, FileCalls, DirCalls
  <2> QED
    BY <1>1, <1>2, <1>5, <1>7, <2>1, GoneOn
<1>8. CASE Goto(s, "copy_file") /\ At(s, "rename_probe")
  <2>1. Sees(s, b, r)
    BY <1>3, <1>5, <1>8 DEF Going, Sees, At, StatCalls, FileCalls, DirCalls
  <2> QED
    BY <1>1, <1>2, <1>5, <1>8, <2>1, GoneOn
<1>9. CASE Goto(s, "list_keys") /\ At(s, "rename_probe_dir")
  <2>1. Sees(s, b, r)
    BY <1>3, <1>5, <1>9 DEF Going, Sees, At, StatCalls, FileCalls, DirCalls
  <2> QED
    BY <1>1, <1>2, <1>5, <1>9, <2>1, GoneOn
<1> QED
  BY <1>4, <1>6, <1>7, <1>8, <1>9 DEF RenameStat, RenameProbe

\* The copy of a file.
LEMMA GoneCopy ==
  ASSUME NEW s \in Sessions, Going(s), CopyFile(s)
  PROVE  Gone(s)
<1> DEFINE b == pre[s]
           q == sess[s]
           r == sess'[s]
           from == key(s, q.path)
           to == key(s, q.new)
<1>1. /\ q.pc = "copy_file" /\ Mine(s, bucket) = Mine(s, b) /\ Kind(b, Root[s], q.path) = "file"
      /\ Wanted(s, b, q) /\ Safe(s, b, q, bucket) /\ q.listed \subseteq From(s, b, q)
  BY DEF CopyFile, At, Going, Stage, Sees, FileCalls
<1>2. sess \in [Sessions -> Request] /\ q \in Request /\ IsBucket(b) /\ r.path = q.path
  BY GoingFacts
<1>3. From(s, b, q) = {from} /\ To(s, b, q, from) = to
  BY <1>1 DEF From, To, MovedKeys, MovedTo, key
<1>4. CASE Return(s, "s3") /\ NoEffect
  BY <1>1, <1>4, GoneBack DEF NoEffect
<1>5. ASSUME bucket' = PutObject(bucket, to, bucket[from])
      PROVE  Safe(s, b, q, bucket') /\ Copied(s, b, q, bucket', From(s, b, q))
  <2>1. Holds(bucket, from, b[from])
    BY <1>1, <1>2, <1>3, SafeBefore DEF Left
  <2>2. Holds(bucket', to, b[from]) /\ (Spared(s, b, q, bucket) => Spared(s, b, q, bucket'))
    BY <1>1, <1>2, <1>3, <1>5, <2>1, PutTarget
  <2> QED
    BY <1>1, <1>3, <2>2 DEF Safe, Copied
<1>6. CASE Effect(PutObject(bucket, to, bucket[from])) /\ Return(s, "s3")
  BY <1>5, <1>6, GoneBack DEF Effect
<1>7. CASE Effect(PutObject(bucket, to, bucket[from])) /\ Goto(s, "delete_old")
  <2>1. r.pc = "delete_old" /\ r.listed = q.listed
    BY <1>2, <1>7 DEF Goto, Request
  <2>2. Safe(s, b, q, bucket') /\ Copied(s, b, q, bucket', From(s, b, q))
    BY <1>5, <1>7 DEF Effect
  <2>3. Sees(s, b, r)
    BY <1>1, <1>2, <2>1 DEF Sees, StatCalls, FileCalls, DirCalls
  <2>4. Stage(s, b, r, bucket')
    BY <1>1, <2>1, <2>2, GoingFacts, SameRename DEF Stage, StatCalls
  <2>5. Safe(s, b, r, bucket')
    BY <2>2, GoingFacts, SameRename
  <2> QED
    BY <2>3, <2>4, <2>5 DEF Gone
<1> QED
  BY <1>4, <1>6, <1>7 DEF CopyFile

\* The deletion of a file that was copied.
LEMMA GoneDelete ==
  ASSUME NEW s \in Sessions, Going(s), DeleteOld(s)
  PROVE  Gone(s)
<1> DEFINE b == pre[s]
           q == sess[s]
           from == key(s, q.path)
<1>1. /\ q.pc = "delete_old" /\ Kind(b, Root[s], q.path) = "file" /\ Wanted(s, b, q)
      /\ Safe(s, b, q, bucket) /\ Copied(s, b, q, bucket, From(s, b, q))
  BY DEF DeleteOld, At, Going, Stage, Sees, FileCalls
<1>2. q \in Request /\ IsBucket(b)
  BY GoingFacts
<1>3. From(s, b, q) = {from}
  BY <1>1 DEF From, MovedKeys, key
<1>4. bucket' = DeleteObjects(bucket, {from})
  BY DEF DeleteOld, Effect
<1>5. /\ Spared(s, b, q, bucket')
      /\ \A k \in From(s, b, q) : Holds(bucket', To(s, b, q, k), b[k])
  BY <1>1, <1>2, <1>3, <1>4, DropOld DEF Safe, Copied
<1>6. Safe(s, b, q, bucket')
  BY <1>5 DEF Safe
<1> QED
  BY <1>6, GoneBack DEF DeleteOld

\* A page of a directory lists what the rename moves.
LEMMA GoneList ==
  ASSUME NEW s \in Sessions, Going(s), ListKeys(s)
  PROVE  Gone(s)
<1> DEFINE b == pre[s]
           q == sess[s]
           r == sess'[s]
           rest == Remaining(bucket, keyDir(s, q.path), q.token)
           page == Least(PageSize, rest)
           found == q.listed \cup page
<1>1. /\ q.pc = "list_keys" /\ Mine(s, bucket) = Mine(s, b) /\ Kind(b, Root[s], q.path) = "dir"
      /\ Wanted(s, b, q) /\ Safe(s, b, q, bucket) /\ q.listed \subseteq From(s, b, q)
      /\ UNCHANGED bucket
  BY DEF ListKeys, At, Going, Stage, Sees, DirCalls, NoEffect
<1>2. /\ sess \in [Sessions -> Request] /\ q \in Request /\ IsBucket(b) /\ IsBucket(bucket)
      /\ r.path = q.path /\ q.op = "rename" /\ q.path \in Path /\ q.path # <<>>
  BY GoingFacts
<1>3. found \subseteq From(s, b, q)
  <2>1. From(s, b, q) = KeysUnder(b, keyDir(s, q.path))
    BY <1>1 DEF From, MovedKeys, keyDir
  <2>2. page \subseteq KeysUnder(bucket, keyDir(s, q.path))
    BY DEF Least, Remaining
  <2>3. \A k \in page : k \in Key /\ k \in DOMAIN bucket /\ HasPrefix(k, keyDir(s, q.path))
    BY <1>2, <2>2 DEF KeysUnder, IsBucket
  <2>4. \A k \in page : HasPrefix(k, Root[s])
    BY <1>2, <2>3, SessionKeys
  <2>5. \A k \in page : k \in DOMAIN b
    BY <1>1, <2>3, <2>4, SameUnder
  <2> QED
    BY <1>1, <2>1, <2>3, <2>5 DEF KeysUnder
<1> HIDE DEF page, found, rest
<1>4. \/ r.pc = "list_keys" /\ r.listed = found
      \/ r.pc = "copy_keys" /\ r.listed = found /\ r.todo = found
      \/ Return(s, "ok")
  <2>1. CASE \E last \in Greatest(page) : sess' = [sess EXCEPT ![s].listed = found, ![s].token = last]
    BY <1>1, <1>2, <2>1 DEF Request
  <2>2. CASE sess' = [sess EXCEPT ![s].listed = found, ![s].todo = found, ![s].token = <<>>,
                          ![s].pc = IF sess[s].op = "rename" THEN "copy_keys" ELSE "delete_keys"]
    BY <1>1, <1>2, <2>2 DEF Request
  <2>3. CASE AfterDelete(s)
    BY <1>2, <2>3 DEF AfterDelete
  <2> QED
    BY <2>1, <2>2, <2>3 DEF ListKeys, page, found, rest
<1>5. CASE r.pc = "list_keys" /\ r.listed = found
  <2>1. Sees(s, b, r)
    BY <1>1, <1>2, <1>5 DEF Sees, StatCalls, FileCalls, DirCalls
  <2> QED
    BY <1>1, <1>3, <1>5, <2>1, GoneOn
<1>6. CASE r.pc = "copy_keys" /\ r.listed = found /\ r.todo = found
  <2>1. Sees(s, b, r)
    BY <1>1, <1>2, <1>6 DEF Sees, StatCalls, FileCalls, DirCalls
  <2>2. Left(b, bucket', From(s, b, q))
    BY <1>1, <1>2, SafeBefore
  <2>3. Copied(s, b, q, bucket', r.listed \ r.todo)
    BY <1>6 DEF Copied
  <2>4. Stage(s, b, r, bucket')
    BY <1>3, <1>6, <2>2, <2>3, GoingFacts, SameRename DEF Stage, StatCalls
  <2>5. Safe(s, b, r, bucket')
    BY <1>1, GoingFacts, SameRename
  <2> QED
    BY <2>1, <2>4, <2>5 DEF Gone
<1>7. CASE Return(s, "ok")
  BY <1>1, <1>7, GoneBack
<1> QED
  BY <1>4, <1>5, <1>6, <1>7

\* One turn of the copy loop.
LEMMA GoneCopyKey ==
  ASSUME NEW s \in Sessions, Going(s), CopyKey(s)
  PROVE  Gone(s)
<1> DEFINE b == pre[s]
           q == sess[s]
           r == sess'[s]
<1>1. /\ q.pc = "copy_keys" /\ Kind(b, Root[s], q.path) = "dir"
      /\ Wanted(s, b, q) /\ Safe(s, b, q, bucket)
      /\ q.listed \subseteq From(s, b, q) /\ q.todo \subseteq q.listed
      /\ Left(b, bucket, From(s, b, q)) /\ Copied(s, b, q, bucket, q.listed \ q.todo)
  BY DEF CopyKey, At, Going, Stage, Sees, DirCalls
<1>2. sess \in [Sessions -> Request] /\ q \in Request /\ IsBucket(b) /\ r.path = q.path
  BY GoingFacts
<1>3. PICK from \in Least(1, q.todo) :
       \/ from \notin DOMAIN bucket /\ Return(s, "s3") /\ NoEffect
       \/ /\ from \in DOMAIN bucket
          /\ Effect(PutObject(bucket, Target(s, from), bucket[from]))
          /\ \/ "lost" \in Faults /\ Return(s, "s3")
             \/ /\ sess[s].todo # {from}
                /\ sess' = [sess EXCEPT ![s].todo = @ \ {from}]
             \/ /\ sess[s].todo = {from}
                /\ sess' = [sess EXCEPT ![s].todo = sess[s].listed, ![s].pc = "delete_keys"]
  BY DEF CopyKey
<1>4. from \in q.todo /\ from \in From(s, b, q)
  BY <1>1 DEF Least
<1>5. CASE Return(s, "s3") /\ NoEffect
  BY <1>1, <1>5, GoneBack DEF NoEffect
<1>6. ASSUME Effect(PutObject(bucket, Target(s, from), bucket[from]))
      PROVE  /\ Safe(s, b, q, bucket') /\ Left(b, bucket', From(s, b, q))
             /\ Copied(s, b, q, bucket', q.listed \ (q.todo \ {from}))
  <2>1. Target(s, from) = To(s, b, q, from)
    BY <1>1 DEF Target, To, MovedTo, keyDir
  <2>2. Holds(bucket, from, b[from])
    BY <1>1, <1>4 DEF Left
  <2>3. bucket' = PutObject(bucket, To(s, b, q, from), bucket[from])
    BY <1>6, <2>1 DEF Effect
  <2>4. /\ Holds(bucket', To(s, b, q, from), b[from])
        /\ \A k \in From(s, b, q) :
             /\ Holds(bucket, k, b[k]) => Holds(bucket', k, b[k])
             /\ Holds(bucket, To(s, b, q, k), b[k]) => Holds(bucket', To(s, b, q, k), b[k])
        /\ Spared(s, b, q, bucket) => Spared(s, b, q, bucket')
    BY <1>1, <1>2, <1>4, <2>2, <2>3, PutTarget
  <2>5. Left(b, bucket', From(s, b, q))
    BY <1>1, <2>4 DEF Left
  <2>6. Safe(s, b, q, bucket')
    BY <1>1, <2>4, <2>5 DEF Safe, Left
  <2>7. Copied(s, b, q, bucket', q.listed \ (q.todo \ {from}))
    BY <1>1, <2>4 DEF Copied
  <2> QED
    BY <2>5, <2>6, <2>7
<1>7. CASE Effect(PutObject(bucket, Target(s, from), bucket[from])) /\ Return(s, "s3")
  BY <1>6, <1>7, GoneBack
<1>8. CASE /\ Effect(PutObject(bucket, Target(s, from), bucket[from]))
           /\ sess' = [sess EXCEPT ![s].todo = @ \ {from}]
  <2>1. r.pc = "copy_keys" /\ r.listed = q.listed /\ r.todo = q.todo \ {from}
    BY <1>1, <1>2, <1>8 DEF Request
  <2>2. Sees(s, b, r)
    BY <1>1, <1>2, <2>1 DEF Sees, StatCalls, FileCalls, DirCalls
  <2>3. /\ r.todo \subseteq r.listed
        /\ Left(b, bucket', From(s, b, r)) /\ Copied(s, b, r, bucket', r.listed \ r.todo)
        /\ r.listed \subseteq From(s, b, r) /\ Safe(s, b, r, bucket')
    <3>1. /\ Safe(s, b, q, bucket') /\ Left(b, bucket', From(s, b, q))
          /\ Copied(s, b, q, bucket', q.listed \ (q.todo \ {from}))
      BY <1>6, <1>8
    <3>2. /\ From(s, b, r) = From(s, b, q)
          /\ Safe(s, b, r, bucket') <=> Safe(s, b, q, bucket')
          /\ \A K : Copied(s, b, r, bucket', K) <=> Copied(s, b, q, bucket', K)
      BY GoingFacts, SameRename
    <3> QED
      BY <1>1, <2>1, <3>1, <3>2
  <2>4. Stage(s, b, r, bucket')
    BY <2>1, <2>3 DEF Stage, StatCalls
  <2> QED
    BY <2>2, <2>3, <2>4 DEF Gone
<1>9. CASE /\ Effect(PutObject(bucket, Target(s, from), bucket[from])) /\ q.todo = {from}
           /\ sess' = [sess EXCEPT ![s].todo = sess[s].listed, ![s].pc = "delete_keys"]
  <2>1. r.pc = "delete_keys" /\ r.listed = q.listed /\ r.todo = q.listed
    BY <1>1, <1>2, <1>9 DEF Request
  <2>2. Sees(s, b, r)
    BY <1>1, <1>2, <2>1 DEF Sees, StatCalls, FileCalls, DirCalls
  <2>3. Copied(s, b, q, bucket', r.listed)
    BY <1>6, <1>9, <2>1 DEF Copied
  <2>4. Stage(s, b, r, bucket')
    BY <1>1, <2>1, <2>3, GoingFacts, SameRename DEF Stage, StatCalls
  <2>5. Safe(s, b, r, bucket')
    BY <1>6, <1>9, GoingFacts, SameRename
  <2> QED
    BY <2>2, <2>4, <2>5 DEF Gone
<1> QED
  BY <1>3, <1>5, <1>7, <1>8, <1>9

\* One batch of deletions: every key of it was copied.
LEMMA GoneDeleteKeys ==
  ASSUME NEW s \in Sessions, Going(s), DeleteKeys(s)
  PROVE  Gone(s)
<1> DEFINE b == pre[s]
           q == sess[s]
           r == sess'[s]
           batch == Least(BatchSize, q.todo)
<1>1. /\ q.pc = "delete_keys" /\ Kind(b, Root[s], q.path) = "dir"
      /\ Wanted(s, b, q) /\ Safe(s, b, q, bucket)
      /\ q.listed \subseteq From(s, b, q) /\ q.todo \subseteq q.listed
      /\ Copied(s, b, q, bucket, q.listed)
  BY DEF DeleteKeys, At, Going, Stage, Sees, DirCalls
<1>2. /\ sess \in [Sessions -> Request] /\ q \in Request /\ IsBucket(b) /\ r.path = q.path
      /\ q.op = "rename"
  BY GoingFacts
<1>3. PICK kept \in KeyErrors(batch) : Effect(DeleteObjects(bucket, batch \ kept))
  BY DEF DeleteKeys
<1> DEFINE D == batch \ kept
<1>4. D \subseteq q.listed /\ D \subseteq From(s, b, q) /\ bucket' = DeleteObjects(bucket, D)
  BY <1>1, <1>3 DEF Least, Effect
<1> HIDE DEF D, batch
<1>5. /\ \A k \in From(s, b, q) :
           /\ k \notin D /\ Holds(bucket, k, b[k]) => Holds(bucket', k, b[k])
           /\ Holds(bucket, To(s, b, q, k), b[k]) => Holds(bucket', To(s, b, q, k), b[k])
      /\ Spared(s, b, q, bucket) => Spared(s, b, q, bucket')
  BY <1>1, <1>2, <1>4, DropOld
<1>6. Copied(s, b, q, bucket', q.listed)
  BY <1>1, <1>5 DEF Copied
<1>7. Safe(s, b, q, bucket')
  BY <1>1, <1>4, <1>5, <1>6 DEF Safe, Copied
<1>8. CASE \E x : Return(s, x)
  BY <1>7, <1>8, GoneBack
<1>9. CASE sess' = [sess EXCEPT ![s].todo = q.todo \ batch]
  <2>1. r.pc = "delete_keys" /\ r.listed = q.listed /\ r.todo = q.todo \ batch
    BY <1>1, <1>2, <1>9 DEF Request
  <2>2. Sees(s, b, r)
    BY <1>1, <1>2, <2>1 DEF Sees, StatCalls, FileCalls, DirCalls
  <2>3. r.todo \subseteq r.listed
    BY <1>1, <2>1
  <2>4. Stage(s, b, r, bucket')
    BY <1>1, <1>6, <2>1, <2>3, GoingFacts, SameRename DEF Stage, StatCalls
  <2>5. Safe(s, b, r, bucket')
    BY <1>7, GoingFacts, SameRename
  <2> QED
    BY <2>2, <2>4, <2>5 DEF Gone
<1>10. AfterDelete(s) => Return(s, "ok")
  BY <1>2 DEF AfterDelete
<1> QED
  BY <1>8, <1>9, <1>10 DEF DeleteKeys, batch


\* Every step of a rename.
LEMMA GoneStep ==
  ASSUME NEW s \in Sessions, Going(s)
  PROVE  Gone(s)
<1>1. Continue(s) /\ sess[s].op = "rename" /\ sess'[s].op = "rename"
  BY GoingFacts DEF Going
<1>2. sess[s].pc \in {"idle"} \cup StatCalls \cup FileCalls \cup DirCalls
  BY DEF Going, Sees
<1>3. CASE StatHead(s) \/ StatList(s)
  BY <1>3, GoneStat
<1>4. CASE RenameStat(s) \/ RenameProbe(s)
  BY <1>4, GoneProbe
<1>5. CASE CopyFile(s) \/ DeleteOld(s)
  BY <1>5, GoneCopy, GoneDelete
<1>6. CASE ListKeys(s) \/ CopyKey(s) \/ DeleteKeys(s)
  BY <1>6, GoneList, GoneCopyKey, GoneDeleteKeys
<1>7. CASE CallFails(s)
  <2>1. Return(s, "s3") /\ UNCHANGED bucket
    BY <1>1, <1>7 DEF CallFails, NoEffect
  <2> QED
    BY <2>1, GoneBack DEF Going
<1>8. ~(MkdirAllStat(s) \/ RemoveStat(s) \/ RemoveDirStat(s) \/ RemoveAllStat(s))
  BY <1>1 DEF MkdirAllStat, RemoveStat, RemoveDirStat, RemoveAllStat, Statted
<1>9. ~(MkdirHead(s) \/ MkdirList(s) \/ MkdirPut(s) \/ DeleteFile(s) \/ RemoveDirList(s)
        \/ RemoveDirDelete(s) \/ DeleteMarker(s) \/ StorPut(s))
  BY <1>2 DEF MkdirHead, MkdirList, MkdirPut, DeleteFile, RemoveDirList, RemoveDirDelete,
              DeleteMarker, StorPut, At, StatCalls, FileCalls, DirCalls
<1> QED
  BY <1>1, <1>3, <1>4, <1>5, <1>6, <1>7, <1>8, <1>9 DEF Continue

\* What a session that begins an operation has in hand.
LEMMA StartFresh ==
  ASSUME Inv, NEW s \in Sessions, Start(s)
  PROVE  /\ sess'[s].listed = {}
         /\ sess'[s].op = "rename" => sess'[s].pc \in {"stat_head", "idle"}
<1>1. sess \in [Sessions -> Request]
  BY DEF Inv, TypeOK
<1>2. ASSUME NEW op, NEW p, NEW n, NEW c, NEW early, NEW pc, Begin(s, op, p, n, c, early, pc)
      PROVE  sess'[s].listed = {} /\ sess'[s].op = op /\ sess'[s].pc \in {pc, "idle"}
  BY <1>1, <1>2 DEF Begin, Fresh
<1>3. CASE \E p, n \in ClientPaths : Rename(s, p, n)
  BY <1>2, <1>3 DEF Rename
<1>4. CASE \E p \in ClientPaths : Mkdir(s, p) \/ MkdirAll(s, p) \/ Remove(s, p)
  BY <1>2, <1>4 DEF Mkdir, MkdirAll, Remove
<1>5. CASE \E p \in ClientPaths : RemoveDir(s, p) \/ RemoveAll(s, p) \/ \E c \in Content : Stor(s, p, c)
  BY <1>2, <1>5 DEF RemoveDir, RemoveAll, Stor
<1> QED
  BY <1>3, <1>4, <1>5 DEF Start

\* A rename starts from a bucket nothing was done to.
LEMMA StartMoving ==
  ASSUME Inv, Inv', NEW s \in Sessions, Start(s)
  PROVE  Moving(s, pre'[s], sess'[s], bucket')
<1> DEFINE b == pre'[s]
           r == sess'[s]
<1> SUFFICES ASSUME Wanted(s, b, r)
             PROVE  Sees(s, b, r) /\ Stage(s, b, r, bucket') /\ Safe(s, b, r, bucket')
  BY DEF Moving
<1>1. b = bucket' /\ IsBucket(b) /\ r \in Request
  BY StartFrame DEF Inv, TypeOK
<1>2. r.listed = {} /\ r.pc \in {"stat_head", "idle"}
  BY StartFresh DEF Wanted
<1>3. Mine(s, bucket') = Mine(s, b)
  BY <1>1
<1>4. Safe(s, b, r, bucket')
  BY <1>1, <1>3, SafeBefore
<1>5. Sees(s, b, r)
  BY <1>2 DEF Sees, StatCalls, FileCalls, DirCalls
<1>6. Stage(s, b, r, bucket')
  BY <1>2, <1>3 DEF Stage, StatCalls
<1> QED
  BY <1>4, <1>5, <1>6

\* RenameInv is inductive relative to Inv.
LEMMA RenameInvStep ==
  ASSUME Inv, Inv', RenameInv, NEW s \in Sessions, Start(s) \/ Continue(s)
  PROVE  RenameInv'
<1> SUFFICES ASSUME NEW t \in Sessions, Alone(t)
             PROVE  Moving(t, pre'[t], sess'[t], bucket')
  <2>1. \A t \in Sessions : Alone(t)' <=> Alone(t)
    BY DEF Alone, HasPrefix
  <2>2. \A t \in Sessions : Moving(t, pre[t], sess[t], bucket)' <=> Moving(t, pre'[t], sess'[t], bucket')
    OBVIOUS
  <2> QED
    BY <2>1, <2>2 DEF RenameInv
<1>1. Moving(t, pre[t], sess[t], bucket) /\ IsBucket(pre[t]) /\ sess[t] \in Request
  BY DEF RenameInv, Inv, TypeOK
<1>2. CASE t # s
  <2>1. sess'[t] = sess[t] /\ pre'[t] = pre[t]
    BY <1>2, Frame, StartFrame, ContinueFrame
  <2>2. bucket' = bucket \/ Confined(s)
    BY NextStep
  <2>3. Mine(t, bucket') = Mine(t, bucket)
    BY <1>2, <2>2, NotMine
  <2> QED
    BY <1>1, <2>1, <2>3, Rely
<1>3. CASE t = s /\ Start(s)
  BY <1>3, StartMoving
<1>4. CASE t = s /\ Continue(s)
  <2>1. pre' = pre
    BY <1>4, ContinueFrame
  <2> SUFFICES ASSUME Wanted(s, pre[s], sess'[s])
               PROVE  Gone(s)
    BY <1>4, <2>1 DEF Moving, Gone
  <2>2. sess'[s].op = "rename"
    BY DEF Wanted
  <2>3. sess[s].op = "rename" /\ sess'[s].path = sess[s].path /\ sess'[s].new = sess[s].new
    BY <1>4, <2>2, SameRequest
  <2>4. Wanted(s, pre[s], sess[s])
    BY <2>2, <2>3, SameRename
  <2>5. Going(s)
    BY <1>1, <1>4, <2>2, <2>4 DEF Going, Moving
  <2> QED
    BY <2>5, GoneStep
<1> QED
  BY <1>2, <1>3, <1>4

\* A rename of a session that is alone under its prefix, of a file or of a
\* directory of any size, in pages and batches of any size, and however its
\* calls fail: at every moment each object is whole under its old or its new
\* name (dir.go:299-368).
THEOREM RenameKeeps == Spec => []RenameLosesNothing
<1>1. Init => RenameInv
  BY DEF Init, RenameInv, Moving, Wanted, Fresh
<1>2. ASSUME Inv, Inv', RenameInv, [Next]_vars
      PROVE  RenameInv'
  <2>1. CASE Next
    BY <1>2, <2>1, RenameInvStep DEF Next
  <2>2. CASE UNCHANGED vars
    <3>1. \A t \in Sessions : Alone(t)' <=> Alone(t)
      BY DEF Alone, HasPrefix
    <3> QED
      BY <1>2, <2>2, <3>1 DEF vars, RenameInv
  <2> QED
    BY <1>2, <2>1, <2>2
<1>3. Inv /\ RenameInv => RenameLosesNothing
  <2> SUFFICES ASSUME Inv, RenameInv, NEW s \in Sessions,
                      Alone(s), sess[s].op = "rename", Promise(s).reply = "ok", sess[s].path # sess[s].new
               PROVE  LET b     == pre[s]
                          from  == MovedKeys(b, Root[s], sess[s].path)
                          to(k) == MovedTo(b, Root[s], sess[s].path, sess[s].new, k)
                      IN  /\ \A k \in from : Holds(bucket, k, b[k]) \/ Holds(bucket, to(k), b[k])
                          /\ \A k \in DOMAIN Mine(s, b) \ (from \cup {to(j) : j \in from}) :
                               Holds(bucket, k, b[k])
    BY DEF RenameLosesNothing, Holds
  <2>1. ~ReadOnly[s]
    <3> SUFFICES ASSUME ReadOnly[s]
                 PROVE  FALSE
      OBVIOUS
    <3>1. Promise(s) = Outcome("readonly", pre[s])
      BY Zenon DEF Promise, Promised
    <3> QED
      BY <3>1 DEF Outcome
  <2>2. Promise(s) = RenameOutcome(pre[s], Root[s], sess[s].path, sess[s].new)
    BY <2>1, Zenon DEF Promise, Promised
  <2>3. Safe(s, pre[s], sess[s], bucket)
    BY <2>1, <2>2 DEF RenameInv, Moving, Wanted
  <2>4. DOMAIN Mine(s, pre[s]) = KeysUnder(pre[s], Root[s])
    BY DEF Mine
  <2> QED
    BY <2>3, <2>4, Zenon DEF Safe, Spared, Left, From, To, Targets
<1> QED
  BY <1>1, <1>2, <1>3, Invariance, PTL DEF Spec


(***************************************************************************)
(* Every operation keeps its promise                                       *)
(***************************************************************************)

\* Where the copies of the keys in D lie.
CopyOf(s, b, q, D) == {To(s, b, q, k) : k \in D}

\* The bucket b with the copies of the keys in D.
CopyTo(b, root, p, n, D) ==
  LET to == {MovedTo(b, root, p, n, k) : k \in D}
      old(t) == CHOOSE k \in D : MovedTo(b, root, p, n, k) = t
  IN  [k \in DOMAIN b \cup to |-> IF k \in to THEN b[old(k)] ELSE b[k]]

Copies(s, b, q, D) == CopyTo(b, Root[s], q.path, q.new, D)

\* The keys a complete listing of the operation's directory finds.
Listed(s, b, q) == KeysUnder(b, keyDir(s, q.path))

KindOf(s, b, q) == Kind(b, Root[s], q.path)

\* The operations that make each call.
Suits(q) ==
  /\ q.pc \in StatCalls => q.op \in {"mkdirall", "remove", "rmdir", "removeall", "rename"}
  /\ q.pc \in {"mkdir_head", "mkdir_list", "mkdir_put"} => q.op \in {"mkdir", "mkdirall"}
  /\ q.pc = "delete_file" => q.op \in {"remove", "removeall"}
  /\ q.pc \in {"rmdir_list", "rmdir_delete"} => q.op = "rmdir"
  /\ q.pc \in {"list_keys", "delete_keys"} => q.op \in {"removeall", "rename"}
  /\ q.pc = "delete_marker" => q.op = "removeall"
  /\ q.pc \in RenameCalls => q.op = "rename"
  /\ q.pc = "put_object" => q.op = "stor"
  /\ q.pc # "idle" /\ q.op = "rename" => q.path # q.new

\* What the checks an operation has passed say of the bucket it began with.
Knows(s, b, q) ==
  /\ q.pc \in {"stat_list", "mkdir_list"} => KindOf(s, b, q) # "file"
  /\ q.pc = "stat_done" => KindOf(s, b, q) = q.info
  /\ q.pc \in {"mkdir_head", "mkdir_list"} /\ q.op = "mkdirall" =>
       KindOf(s, b, q) = "none" \/ "error" \in Faults
  /\ q.pc = "mkdir_put" => KindOf(s, b, q) = "none" /\ DirMarker[s]
  /\ q.pc \in {"delete_file", "rename_probe", "copy_file", "delete_old"} => KindOf(s, b, q) = "file"
  /\ q.pc \in {"rmdir_list", "rmdir_delete", "rename_probe_dir", "copy_keys"} => KindOf(s, b, q) = "dir"
  /\ q.pc \in {"list_keys", "copy_keys", "delete_keys"} => KindOf(s, b, q) = q.info /\ q.info # "file"
  /\ q.pc = "delete_marker" => KindOf(s, b, q) # "file"
  /\ q.pc = "rmdir_delete" => Listed(s, b, q) = {keyDir(s, q.path)}
  /\ q.pc = "rename_probe_dir" => q.info = "dir" /\ ~HasPrefix(keyDir(s, q.new), keyDir(s, q.path))
  /\ q.op = "rename" /\ q.pc \in {"copy_file", "delete_old", "list_keys", "copy_keys", "delete_keys"} =>
       Wanted(s, b, q)

\* What a listing has found: all up to its token, and in the end all.
Finds(s, b, q) ==
  /\ q.pc \notin {"list_keys", "copy_keys", "delete_keys", "delete_marker"} =>
       q.listed = {} /\ q.token = <<>>
  /\ q.pc = "list_keys" =>
       /\ q.listed \subseteq Listed(s, b, q)
       /\ \A k \in Listed(s, b, q) \ q.listed : q.token = <<>> \/ Before(q.token, k)
  /\ q.pc \in {"copy_keys", "delete_keys"} =>
       q.listed = Listed(s, b, q) /\ q.todo \subseteq q.listed

\* How far the bucket is on its way from b to what is promised.
Reached(s, b, q, c) ==
  /\ q.pc \notin {"idle", "delete_old", "copy_keys", "delete_keys", "delete_marker"} =>
       Mine(s, c) = Mine(s, b)
  /\ q.pc = "delete_old" => Mine(s, c) = Mine(s, Copies(s, b, q, From(s, b, q)))
  /\ q.pc = "copy_keys" => Mine(s, c) = Mine(s, Copies(s, b, q, q.listed \ q.todo))
  /\ q.pc = "delete_keys" /\ q.op = "rename" =>
       Mine(s, c) = Mine(s, DeleteObjects(Copies(s, b, q, q.listed), q.listed \ q.todo))
  /\ q.pc = "delete_keys" /\ q.op = "removeall" =>
       Mine(s, c) = Mine(s, DeleteObjects(b, q.listed \ q.todo))
  /\ q.pc = "delete_marker" => Mine(s, c) = Mine(s, DeleteObjects(b, Listed(s, b, q)))

Gives(s, c, reply, outcome) == reply = outcome.reply /\ Mine(s, c) = Mine(s, outcome.bucket)

\* RemoveAll of a name that is a file and a directory: the file goes.
FileGone(s, b, q, c, reply) ==
  /\ q.op = "removeall" /\ KindOf(s, b, q) = "file" /\ Listed(s, b, q) # {}
  /\ Gives(s, c, reply, Outcome("ok", DeleteObjects(b, {key(s, q.path)})))

Answers(s, b, q, c) ==
  q.pc = "idle" /\ q.reply \notin {"none", "s3"} =>
    \/ Gives(s, c, q.reply, Promised(s, b, q))
    \/ "error" \in Faults /\ q.op = "mkdirall" /\ Gives(s, c, q.reply, Outcome("EEXIST", b))
    \/ FileGone(s, b, q, c, q.reply)

Doing(s, b, q, c) ==
  Suits(q) /\ Knows(s, b, q) /\ Finds(s, b, q) /\ Reached(s, b, q, c) /\ Answers(s, b, q, c)

PromiseInv == \A s \in Sessions : Alone(s) => Doing(s, pre[s], sess[s], bucket)

\* Which promise is meant.
LEMMA PromisedFor ==
  ASSUME NEW s, NEW b, NEW q, ~ReadOnly[s]
  PROVE  /\ q.op = "mkdir" => Promised(s, b, q) = MkdirOutcome(b, Root[s], q.path, DirMarker[s])
         /\ q.op = "mkdirall" => Promised(s, b, q) = MkdirAllOutcome(b, Root[s], q.path, DirMarker[s])
         /\ q.op = "remove" => Promised(s, b, q) = RemoveOutcome(b, Root[s], q.path)
         /\ q.op = "rmdir" => Promised(s, b, q) = RemoveDirOutcome(b, Root[s], q.path)
         /\ q.op = "removeall" => Promised(s, b, q) = RemoveAllOutcome(b, Root[s], q.path)
         /\ q.op = "rename" => Promised(s, b, q) = RenameOutcome(b, Root[s], q.path, q.new)
         /\ q.op = "stor" => Promised(s, b, q) = StorOutcome(b, Root[s], q.path, q.data)
<1>1. q.op = "mkdir" => Promised(s, b, q) = MkdirOutcome(b, Root[s], q.path, DirMarker[s])
  BY Zenon DEF Promised
<1>2. q.op = "mkdirall" => Promised(s, b, q) = MkdirAllOutcome(b, Root[s], q.path, DirMarker[s])
  BY Zenon DEF Promised
<1>3. q.op = "remove" => Promised(s, b, q) = RemoveOutcome(b, Root[s], q.path)
  BY Zenon DEF Promised
<1>4. q.op = "rmdir" => Promised(s, b, q) = RemoveDirOutcome(b, Root[s], q.path)
  BY Zenon DEF Promised
<1>5. q.op = "removeall" => Promised(s, b, q) = RemoveAllOutcome(b, Root[s], q.path)
  BY Zenon DEF Promised
<1>6. q.op = "rename" => Promised(s, b, q) = RenameOutcome(b, Root[s], q.path, q.new)
  BY Zenon DEF Promised
<1>7. q.op = "stor" => Promised(s, b, q) = StorOutcome(b, Root[s], q.path, q.data)
  BY Zenon DEF Promised
<1> QED
  BY <1>1, <1>2, <1>3, <1>4, <1>5, <1>6, <1>7

\* What is promised, by the kind of what the path names.
LEMMA MkdirPromise ==
  ASSUME NEW b, NEW r, NEW p, NEW m, p # <<>>
  PROVE  /\ Kind(b, r, p) # "none" => MkdirOutcome(b, r, p, m) = Outcome("EEXIST", b)
         /\ Kind(b, r, p) = "none" =>
              MkdirOutcome(b, r, p, m) = Outcome("ok", IF m THEN PutObject(b, dirKey(r, p), Empty) ELSE b)
         /\ Kind(b, r, p) # "none" => MkdirAllOutcome(b, r, p, m) = Outcome("ok", b)
         /\ Kind(b, r, p) = "none" => MkdirAllOutcome(b, r, p, m) = MkdirOutcome(b, r, p, m)
<1>1. Kind(b, r, p) # "none" => MkdirOutcome(b, r, p, m) = Outcome("EEXIST", b)
  BY Zenon DEF MkdirOutcome
<1>2. Kind(b, r, p) = "none" =>
        MkdirOutcome(b, r, p, m) = Outcome("ok", IF m THEN PutObject(b, dirKey(r, p), Empty) ELSE b)
  BY Zenon DEF MkdirOutcome
<1> QED
  BY <1>1, <1>2, Zenon DEF MkdirAllOutcome

\* What is promised for a rename, by the kind of the old name and by the new.
LEMMA RenamePromise ==
  ASSUME NEW b, NEW r, NEW p, NEW n, p # <<>>, n # <<>>, p # n
  PROVE  LET full == KeysUnder(b, dirKey(r, n)) # {}
             into == HasPrefix(dirKey(r, n), dirKey(r, p))
         IN  /\ Kind(b, r, p) = "none" => RenameOutcome(b, r, p, n) = Outcome("ENOENT", b)
             /\ Kind(b, r, p) = "dir" /\ into => RenameOutcome(b, r, p, n) = Outcome("EINVAL", b)
             /\ Kind(b, r, p) = "file" /\ full => RenameOutcome(b, r, p, n) = Outcome("EISDIR", b)
             /\ Kind(b, r, p) = "dir" /\ ~into /\ full =>
                  RenameOutcome(b, r, p, n) = Outcome("ENOTEMPTY", b)
             /\ (Kind(b, r, p) = "file" \/ (Kind(b, r, p) = "dir" /\ ~into)) /\ ~full =>
                  RenameOutcome(b, r, p, n) = Outcome("ok", Moved(b, r, p, n))
<1> DEFINE k == Kind(b, r, p)
           full == KeysUnder(b, dirKey(r, n)) # {}
           into == HasPrefix(dirKey(r, n), dirKey(r, p))
<1>1. RenameOutcome(b, r, p, n) =
         CASE k = "none" -> Outcome("ENOENT", b)
           [] k = "dir" /\ into -> Outcome("EINVAL", b)
           [] k = "file" /\ full -> Outcome("EISDIR", b)
           [] k = "dir" /\ ~into /\ full -> Outcome("ENOTEMPTY", b)
           [] OTHER -> Outcome("ok", Moved(b, r, p, n))
  BY Zenon DEF RenameOutcome
<1>2. full \in BOOLEAN /\ into \in BOOLEAN
  BY Zenon DEF HasPrefix
<1> HIDE DEF k, full, into
<1>3. k = "none" => RenameOutcome(b, r, p, n) = Outcome("ENOENT", b)
  BY <1>1, Zenon
<1>4. k = "dir" /\ into => RenameOutcome(b, r, p, n) = Outcome("EINVAL", b)
  BY <1>1, Zenon
<1>5. k = "file" /\ full => RenameOutcome(b, r, p, n) = Outcome("EISDIR", b)
  BY <1>1, Zenon
<1>6. k = "dir" /\ ~into /\ full => RenameOutcome(b, r, p, n) = Outcome("ENOTEMPTY", b)
  BY <1>1, Zenon
<1>7. (k = "file" \/ (k = "dir" /\ ~into)) /\ ~full => RenameOutcome(b, r, p, n) = Outcome("ok", Moved(b, r, p, n))
  BY <1>1, Zenon
<1> QED
  BY <1>3, <1>4, <1>5, <1>6, <1>7, Zenon DEF k, full, into

\* A reply and a bucket.
LEMMA OutcomeFacts ==
  ASSUME NEW x, NEW b
  PROVE  Outcome(x, b).reply = x /\ Outcome(x, b).bucket = b
  BY DEF Outcome

(***************************************************************************)
(* Buckets that look the same                                              *)
(***************************************************************************)
\* Two buckets look the same to a session when they agree under its root.
LEMMA MineEqual ==
  ASSUME NEW s, NEW b, NEW c,
         \A k : HasPrefix(k, Root[s]) => /\ k \in DOMAIN c <=> k \in DOMAIN b
                                         /\ k \in DOMAIN b => c[k] = b[k]
  PROVE  Mine(s, c) = Mine(s, b)
<1>1. KeysUnder(c, Root[s]) = KeysUnder(b, Root[s])
  BY DEF KeysUnder
<1>2. \A k \in KeysUnder(b, Root[s]) : c[k] = b[k]
  BY DEF KeysUnder
<1> QED
  BY <1>1, <1>2 DEF Mine

\* The same call has the same effect on them.
LEMMA MinePut ==
  ASSUME NEW s \in Sessions, NEW b, NEW c, Mine(s, c) = Mine(s, b), NEW k, NEW v
  PROVE  Mine(s, PutObject(c, k, v)) = Mine(s, PutObject(b, k, v))
<1>1. \A j : HasPrefix(j, Root[s]) => /\ j \in DOMAIN c <=> j \in DOMAIN b
                                      /\ j \in DOMAIN b => c[j] = b[j]
  BY SameUnder
<1>2. /\ DOMAIN PutObject(c, k, v) = DOMAIN c \cup {k} /\ DOMAIN PutObject(b, k, v) = DOMAIN b \cup {k}
      /\ \A j \in DOMAIN c \cup {k} : PutObject(c, k, v)[j] = IF j = k THEN v ELSE c[j]
      /\ \A j \in DOMAIN b \cup {k} : PutObject(b, k, v)[j] = IF j = k THEN v ELSE b[j]
  BY DEF PutObject
<1> QED
  BY <1>1, <1>2, MineEqual

\* So has the same deletion.
LEMMA MineDelete ==
  ASSUME NEW s \in Sessions, NEW b, NEW c, Mine(s, c) = Mine(s, b), NEW D
  PROVE  Mine(s, DeleteObjects(c, D)) = Mine(s, DeleteObjects(b, D))
<1>1. \A j : HasPrefix(j, Root[s]) => /\ j \in DOMAIN c <=> j \in DOMAIN b
                                      /\ j \in DOMAIN b => c[j] = b[j]
  BY SameUnder
<1>2. /\ DOMAIN DeleteObjects(c, D) = DOMAIN c \ D /\ DOMAIN DeleteObjects(b, D) = DOMAIN b \ D
      /\ \A j \in DOMAIN c \ D : DeleteObjects(c, D)[j] = c[j]
      /\ \A j \in DOMAIN b \ D : DeleteObjects(b, D)[j] = b[j]
  BY DEF DeleteObjects
<1> QED
  BY <1>1, <1>2, MineEqual

\* Deleting in batches is deleting.
LEMMA DeleteTwice ==
  ASSUME NEW b, NEW D, NEW E
  PROVE  DeleteObjects(DeleteObjects(b, D), E) = DeleteObjects(b, D \cup E)
  BY DEF DeleteObjects

\* Deleting nothing changes nothing.
LEMMA DeleteNothing ==
  ASSUME NEW b, IsBucket(b), NEW D, D \cap DOMAIN b = {}
  PROVE  DeleteObjects(b, D) = b
  BY DEF DeleteObjects, IsBucket

(***************************************************************************)
(* Copies                                                                  *)
(***************************************************************************)

\* What copying the keys in D does to the bucket b.
CopyAdds(s, b, q, D) ==
  /\ DOMAIN Copies(s, b, q, D) = DOMAIN b \cup CopyOf(s, b, q, D)
  /\ \A j \in D : To(s, b, q, j) \in CopyOf(s, b, q, D) /\ Copies(s, b, q, D)[To(s, b, q, j)] = b[j]
  /\ \A k \in DOMAIN b \ CopyOf(s, b, q, D) : Copies(s, b, q, D)[k] = b[k]
  /\ From(s, b, q) \cap CopyOf(s, b, q, D) = {}

\* Copies add what they are copies of, and disturb nothing else.
LEMMA CopyFacts ==
  ASSUME NEW s \in Sessions, NEW b, IsBucket(b), NEW q \in Request, Wanted(s, b, q),
         NEW D, D \subseteq From(s, b, q)
  PROVE  CopyAdds(s, b, q, D)
<1> DEFINE C == CopyOf(s, b, q, D)
           T(j) == To(s, b, q, j)
           F == From(s, b, q)
<1>1. /\ \A j, k \in F : T(j) = T(k) => j = k
      /\ \A j \in F : T(j) \notin F
  BY Geometry
<1>2. C = {T(k) : k \in D}
  BY DEF CopyOf
<1>3. Copies(s, b, q, D) = [k \in DOMAIN b \cup C |-> IF k \in C THEN b[CHOOSE j \in D : T(j) = k] ELSE b[k]]
  BY DEF Copies, CopyTo, CopyOf, To
<1> HIDE DEF C, T, F
<1>4. ASSUME NEW j \in D
      PROVE  (CHOOSE i \in D : T(i) = T(j)) = j
  <2>1. \A i \in D : T(i) = T(j) <=> i = j
    BY <1>1 DEF F
  <2>2. \E i \in D : T(i) = T(j)
    BY <2>1
  <2> QED
    BY <2>1, <2>2
<1>5. \A j \in D : T(j) \in C
  BY <1>2
<1>6. \A j \in D : Copies(s, b, q, D)[T(j)] = b[j]
  BY <1>3, <1>4, <1>5
<1>7. F \cap C = {}
  BY <1>1, <1>2 DEF F
<1> QED
  BY <1>3, <1>5, <1>6, <1>7 DEF C, T, F, CopyAdds

\* No copies, no change.
LEMMA CopyNone ==
  ASSUME NEW s, NEW b, IsBucket(b), NEW q
  PROVE  Copies(s, b, q, {}) = b
<1>1. CopyOf(s, b, q, {}) = {}
  BY DEF CopyOf
<1> QED
  BY <1>1 DEF Copies, CopyTo, CopyOf, To, IsBucket

\* One turn of the copy loop.
LEMMA CopyOne ==
  ASSUME NEW s \in Sessions, NEW b, IsBucket(b), NEW q \in Request, Wanted(s, b, q),
         NEW D, D \subseteq From(s, b, q), NEW f \in From(s, b, q)
  PROVE  PutObject(Copies(s, b, q, D), To(s, b, q, f), b[f]) = Copies(s, b, q, D \cup {f})
<1> DEFINE E == D \cup {f}
           T(j) == To(s, b, q, j)
           L == PutObject(Copies(s, b, q, D), T(f), b[f])
           R == Copies(s, b, q, E)
<1>1. E \subseteq From(s, b, q)
  OBVIOUS
<1>2. CopyOf(s, b, q, E) = CopyOf(s, b, q, D) \cup {T(f)}
  BY DEF CopyOf
<1>3. /\ DOMAIN Copies(s, b, q, D) = DOMAIN b \cup CopyOf(s, b, q, D)
      /\ \A j \in D : T(j) \in CopyOf(s, b, q, D) /\ Copies(s, b, q, D)[T(j)] = b[j]
      /\ \A k \in DOMAIN b \ CopyOf(s, b, q, D) : Copies(s, b, q, D)[k] = b[k]
  <2>1. CopyAdds(s, b, q, D)
    BY CopyFacts
  <2> QED
    BY <2>1 DEF CopyAdds
<1>4. /\ DOMAIN R = DOMAIN b \cup CopyOf(s, b, q, E)
      /\ \A j \in E : T(j) \in CopyOf(s, b, q, E) /\ R[T(j)] = b[j]
      /\ \A k \in DOMAIN b \ CopyOf(s, b, q, E) : R[k] = b[k]
  <2>1. CopyAdds(s, b, q, E)
    BY <1>1, CopyFacts
  <2> QED
    BY <2>1 DEF CopyAdds
<1>5. /\ L = [k \in DOMAIN L |-> L[k]] /\ R = [k \in DOMAIN R |-> R[k]]
      /\ DOMAIN L = DOMAIN Copies(s, b, q, D) \cup {T(f)}
      /\ \A k \in DOMAIN L : L[k] = IF k = T(f) THEN b[f] ELSE Copies(s, b, q, D)[k]
  BY DEF PutObject, Copies, CopyTo
<1>6. \A k \in CopyOf(s, b, q, D) : \E j \in D : k = T(j)
  BY DEF CopyOf
<1> HIDE DEF L, R, T, E
<1>7. DOMAIN L = DOMAIN R
  BY <1>2, <1>3, <1>4, <1>5
<1>8. ASSUME NEW k \in DOMAIN R
      PROVE  L[k] = R[k]
  <2>1. CASE k = T(f)
    BY <1>4, <1>5, <1>7, <2>1 DEF E
  <2>2. CASE k # T(f) /\ k \in CopyOf(s, b, q, D)
    BY <1>3, <1>4, <1>5, <1>6, <1>7, <2>2 DEF E
  <2>3. CASE k # T(f) /\ k \notin CopyOf(s, b, q, D)
    BY <1>2, <1>3, <1>4, <1>5, <1>7, <2>3
  <2> QED
    BY <2>1, <2>2, <2>3
<1>9. L = R
  BY <1>5, <1>7, <1>8
<1> QED
  BY <1>9 DEF L, R, T, E

\* All copied and all the old deleted: the promise of Rename.
LEMMA CopyAll ==
  ASSUME NEW s \in Sessions, NEW b, IsBucket(b), NEW q \in Request, Wanted(s, b, q)
  PROVE  DeleteObjects(Copies(s, b, q, From(s, b, q)), From(s, b, q)) = Moved(b, Root[s], q.path, q.new)
<1> DEFINE F == From(s, b, q)
           C == CopyOf(s, b, q, F)
           T(j) == To(s, b, q, j)
<1>1. /\ DOMAIN Copies(s, b, q, F) = DOMAIN b \cup C /\ F \cap C = {}
  BY CopyFacts DEF CopyAdds
<1>2. Copies(s, b, q, F) = [k \in DOMAIN b \cup C |-> IF k \in C THEN b[CHOOSE j \in F : T(j) = k] ELSE b[k]]
  BY DEF Copies, CopyTo, CopyOf, To
<1>3. Moved(b, Root[s], q.path, q.new) =
        [k \in (DOMAIN b \ F) \cup C |-> IF k \in C THEN b[CHOOSE j \in F : T(j) = k] ELSE b[k]]
  BY DEF Moved, From, To, CopyOf
<1> HIDE DEF F, C, T
<1>4. (DOMAIN b \cup C) \ F = (DOMAIN b \ F) \cup C
  BY <1>1
<1>5. DeleteObjects(Copies(s, b, q, F), F) =
        [k \in (DOMAIN b \cup C) \ F |-> IF k \in C THEN b[CHOOSE j \in F : T(j) = k] ELSE b[k]]
  BY <1>2 DEF DeleteObjects
<1> QED
  BY <1>3, <1>4, <1>5 DEF F, C, T

(***************************************************************************)
(* The bucket stays finite                                                 *)
(***************************************************************************)
Finite == IsFiniteSet(DOMAIN bucket)

\* A call adds one key or takes some away.
LEMMA FiniteStep ==
  ASSUME Finite, NEW s \in Sessions, Start(s) \/ Continue(s)
  PROVE  Finite'
<1>1. ASSUME bucket' = bucket
      PROVE  Finite'
  BY <1>1 DEF Finite
<1>2. ASSUME NEW k, NEW c, Effect(PutObject(bucket, k, c))
      PROVE  Finite'
  <2>1. DOMAIN bucket' = DOMAIN bucket \cup {k}
    BY <1>2 DEF Effect, PutObject
  <2> QED
    BY <2>1, FS_AddElement DEF Finite
<1>3. ASSUME NEW D, Effect(DeleteObjects(bucket, D))
      PROVE  Finite'
  <2>1. DOMAIN bucket' \in SUBSET DOMAIN bucket
    BY <1>3 DEF Effect, DeleteObjects
  <2> QED
    BY <2>1, FS_Subset DEF Finite
<1>4. CASE Start(s)
  BY <1>1, <1>4 DEF Start, Mkdir, MkdirAll, Remove, RemoveDir, RemoveAll, Rename, Stor, Begin
<1>5. CASE NoEffect
  BY <1>1, <1>5 DEF NoEffect
<1>6. CASE \/ StatHead(s) \/ StatList(s) \/ MkdirHead(s) \/ MkdirList(s) \/ MkdirAllStat(s)
           \/ RemoveStat(s) \/ RemoveDirStat(s) \/ RemoveDirList(s) \/ RemoveAllStat(s)
           \/ RenameStat(s) \/ RenameProbe(s) \/ CallFails(s) \/ ListKeys(s)
  BY <1>5, <1>6 DEF StatHead, StatList, MkdirHead, MkdirList, MkdirAllStat, RemoveStat,
                    RemoveDirStat, RemoveDirList, RemoveAllStat, RenameStat, RenameProbe,
                    CallFails, ListKeys
<1>7. CASE MkdirPut(s) \/ StorPut(s) \/ CopyFile(s) \/ CopyKey(s)
  BY <1>2, <1>5, <1>7 DEF MkdirPut, StorPut, CopyFile, CopyKey
<1>8. CASE DeleteFile(s) \/ RemoveDirDelete(s) \/ DeleteMarker(s) \/ DeleteOld(s) \/ DeleteKeys(s)
  BY <1>3, <1>8 DEF DeleteFile, RemoveDirDelete, DeleteMarker, DeleteOld, DeleteKeys
<1> QED
  BY <1>4, <1>6, <1>7, <1>8 DEF Continue

(***************************************************************************)
(* One step of an operation                                                *)
(***************************************************************************)

\* The session s goes on with its operation.
Running(s) ==
  /\ Inv /\ Inv' /\ Finite /\ Continue(s) /\ "keyerr" \notin Faults
  /\ Doing(s, pre[s], sess[s], bucket)

Ran(s) == Doing(s, pre[s], sess'[s], bucket')

\* A session that is idle does not go on.
LEMMA Busy ==
  ASSUME NEW s \in Sessions, Continue(s)
  PROVE  sess[s].pc # "idle"
<1>1. CASE StatHead(s) \/ StatList(s) \/ MkdirHead(s) \/ MkdirList(s) \/ MkdirPut(s) \/ MkdirAllStat(s)
  BY <1>1 DEF StatHead, StatList, MkdirHead, MkdirList, MkdirPut, MkdirAllStat, Statted, At
<1>2. CASE RemoveStat(s) \/ DeleteFile(s) \/ RemoveDirStat(s) \/ RemoveDirList(s) \/ RemoveDirDelete(s)
  BY <1>2 DEF RemoveStat, DeleteFile, RemoveDirStat, RemoveDirList, RemoveDirDelete, Statted, At
<1>3. CASE RemoveAllStat(s) \/ ListKeys(s) \/ DeleteKeys(s) \/ DeleteMarker(s) \/ RenameStat(s)
  BY <1>3 DEF RemoveAllStat, ListKeys, DeleteKeys, DeleteMarker, RenameStat, Statted, At
<1>4. CASE RenameProbe(s) \/ CopyFile(s) \/ DeleteOld(s) \/ CopyKey(s) \/ StorPut(s) \/ CallFails(s)
  BY <1>4 DEF RenameProbe, CopyFile, DeleteOld, CopyKey, StorPut, CallFails, Calls, At
<1> QED
  BY <1>1, <1>2, <1>3, <1>4 DEF Continue

\* What the steps need.
LEMMA RunningFacts ==
  ASSUME NEW s \in Sessions, Running(s)
  PROVE  /\ sess \in [Sessions -> Request] /\ sess[s] \in Request /\ sess'[s] \in Request
         /\ IsBucket(pre[s]) /\ IsBucket(bucket)
         /\ sess[s].pc # "idle" /\ ~ReadOnly[s]
         /\ sess[s].path \in Path /\ sess[s].new \in Path /\ sess[s].path # <<>>
         /\ sess[s].op = "rename" => sess[s].new # <<>> /\ sess[s].path # sess[s].new
         /\ sess'[s].path = sess[s].path /\ sess'[s].new = sess[s].new
         /\ pre' = pre
<1>1. /\ sess \in [Sessions -> Request] /\ sess[s] \in Request /\ sess'[s] \in Request
      /\ IsBucket(pre[s]) /\ IsBucket(bucket)
  BY DEF Running, Inv, TypeOK
<1>2. sess[s].pc # "idle"
  BY Busy DEF Running
<1>3. /\ sess[s].path # <<>> /\ ~ReadOnly[s]
      /\ sess[s].op = "rename" => sess[s].new # <<>>
  BY <1>2 DEF Running, Inv, Sound
<1>4. sess[s].op = "rename" => sess[s].path # sess[s].new
  BY <1>2 DEF Running, Doing, Suits
<1>5. sess'[s].path = sess[s].path /\ sess'[s].new = sess[s].new /\ pre' = pre
  BY SameRequest, ContinueFrame DEF Running
<1> QED
  BY <1>1, <1>2, <1>3, <1>4, <1>5 DEF Request

\* What of a request the judgements depend on.
LEMMA SameTarget ==
  ASSUME NEW s, NEW b, NEW q, NEW r, r.path = q.path
  PROVE  KindOf(s, b, r) = KindOf(s, b, q) /\ Listed(s, b, r) = Listed(s, b, q)
  BY DEF KindOf, Listed

\* The copies depend on the two paths only.
LEMMA SameCopies ==
  ASSUME NEW s, NEW b, NEW q, NEW r, r.path = q.path, r.new = q.new, NEW D
  PROVE  Copies(s, b, r, D) = Copies(s, b, q, D) /\ From(s, b, r) = From(s, b, q)
  BY DEF Copies, From

\* The kinds of the paths of a view that looks as it did.
LEMMA SameView ==
  ASSUME NEW s \in Sessions, NEW b, NEW c, IsBucket(b), IsBucket(c), Mine(s, c) = Mine(s, b),
         NEW p \in Path, p # <<>>
  PROVE  /\ key(s, p) \in DOMAIN c <=> key(s, p) \in DOMAIN b
         /\ KeysUnder(c, keyDir(s, p)) = KeysUnder(b, keyDir(s, p))
<1>1. /\ HasPrefix(key(s, p), Root[s]) /\ DOMAIN b \subseteq Key /\ DOMAIN c \subseteq Key
      /\ \A k \in Key : HasPrefix(k, keyDir(s, p)) => HasPrefix(k, Root[s])
  BY SessionKeys DEF IsBucket
<1>2. key(s, p) \in DOMAIN c <=> key(s, p) \in DOMAIN b
  BY <1>1, SameUnder
<1>3. \A k \in Key : HasPrefix(k, keyDir(s, p)) => (k \in DOMAIN c <=> k \in DOMAIN b)
  BY <1>1, SameUnder
<1> QED
  BY <1>1, <1>2, <1>3 DEF KeysUnder

\* The kind of a path.
LEMMA KindFacts ==
  ASSUME NEW s, NEW b, NEW q
  PROVE  /\ KindOf(s, b, q) \in {"none", "file", "dir"}
         /\ KindOf(s, b, q) = "file" <=> key(s, q.path) \in DOMAIN b
         /\ KindOf(s, b, q) = "dir" <=> key(s, q.path) \notin DOMAIN b /\ Listed(s, b, q) # {}
         /\ KindOf(s, b, q) = "none" <=> key(s, q.path) \notin DOMAIN b /\ Listed(s, b, q) = {}
  BY DEF KindOf, Kind, Listed, key, keyDir

\* An operation ends.
LEMMA RanBack ==
  ASSUME NEW s \in Sessions, Running(s), NEW x, Return(s, x),
         \/ x = "s3"
         \/ Gives(s, bucket', x, Promised(s, pre[s], sess[s]))
         \/ /\ "error" \in Faults /\ sess[s].op = "mkdirall"
            /\ Gives(s, bucket', x, Outcome("EEXIST", pre[s]))
         \/ FileGone(s, pre[s], sess[s], bucket', x)
  PROVE  Ran(s)
<1> DEFINE b == pre[s]
           q == sess[s]
           r == sess'[s]
<1>1. /\ r.pc = "idle" /\ r.reply = x /\ r.listed = {} /\ r.token = <<>>
      /\ r.op = q.op /\ r.path = q.path /\ r.new = q.new /\ r.data = q.data
  BY RunningFacts DEF Return, Request
<1>2. Promised(s, b, r) = Promised(s, b, q)
  <2>1. q.op \in {"mkdir", "mkdirall", "remove", "rmdir", "removeall", "rename", "stor"}
    BY RunningFacts DEF Running, Doing, Suits, Request, Calls, StatCalls, RenameCalls
  <2> QED
    BY <1>1, <2>1, RunningFacts, PromisedFor
<1>3. Suits(r) /\ Knows(s, b, r)
  BY <1>1 DEF Suits, Knows, StatCalls, RenameCalls
<1>4. Finds(s, b, r) /\ Reached(s, b, r, bucket')
  BY <1>1 DEF Finds, Reached
<1>5. FileGone(s, b, q, bucket', x) => FileGone(s, b, r, bucket', x)
  BY <1>1, SameTarget DEF FileGone
<1>6. Answers(s, b, r, bucket')
  BY <1>1, <1>2, <1>5 DEF Answers
<1> QED
  BY <1>3, <1>4, <1>6 DEF Ran, Doing

\* An operation that has only looked, goes on.
LEMMA RanOn ==
  ASSUME NEW s \in Sessions, Running(s), NoEffect, Mine(s, bucket) = Mine(s, pre[s]),
         sess'[s].pc \notin {"idle", "delete_old", "copy_keys", "delete_keys", "delete_marker"},
         Suits(sess'[s]), Knows(s, pre[s], sess'[s]), Finds(s, pre[s], sess'[s])
  PROVE  Ran(s)
<1>1. Reached(s, pre[s], sess'[s], bucket')
  BY DEF Reached, NoEffect
<1>2. Answers(s, pre[s], sess'[s], bucket')
  BY DEF Answers
<1> QED
  BY <1>1, <1>2 DEF Ran, Doing

\* Goto changes the position.
LEMMA GotoSame ==
  ASSUME NEW s \in Sessions, Running(s), NEW c, Goto(s, c)
  PROVE  /\ sess'[s].pc = c /\ sess'[s].op = sess[s].op /\ sess'[s].path = sess[s].path
         /\ sess'[s].new = sess[s].new /\ sess'[s].info = sess[s].info
         /\ sess'[s].listed = sess[s].listed /\ sess'[s].token = sess[s].token
         /\ sess'[s].todo = sess[s].todo
  BY RunningFacts DEF Goto, Request

\* What a session that has only looked knows.
LEMMA OnlyLooked ==
  ASSUME NEW s \in Sessions, Running(s),
         sess[s].pc \notin {"delete_old", "copy_keys", "delete_keys", "delete_marker"}
  PROVE  /\ Mine(s, bucket) = Mine(s, pre[s])
         /\ key(s, sess[s].path) \in DOMAIN bucket <=> key(s, sess[s].path) \in DOMAIN pre[s]
         /\ KeysUnder(bucket, keyDir(s, sess[s].path)) = Listed(s, pre[s], sess[s])
         /\ sess[s].pc # "list_keys" => sess[s].listed = {} /\ sess[s].token = <<>>
<1>1. Mine(s, bucket) = Mine(s, pre[s])
  BY RunningFacts DEF Running, Doing, Reached
<1>2. sess[s].pc # "list_keys" => sess[s].listed = {} /\ sess[s].token = <<>>
  BY DEF Running, Doing, Finds
<1> QED
  BY <1>1, <1>2, RunningFacts, SameView DEF Listed

(***************************************************************************)
(* Stat                                                                    *)
(***************************************************************************)
\* Stat finds the kind of its path.
LEMMA RanStat ==
  ASSUME NEW s \in Sessions, Running(s), StatHead(s) \/ StatList(s)
  PROVE  Ran(s)
<1> DEFINE b == pre[s]
           q == sess[s]
           r == sess'[s]
<1>1. /\ q.pc \in {"stat_head", "stat_list"} /\ NoEffect
      /\ sess \in [Sessions -> Request] /\ q \in Request
  BY RunningFacts DEF StatHead, StatList, At
<1>2. /\ Mine(s, bucket) = Mine(s, b) /\ q.listed = {} /\ q.token = <<>>
      /\ key(s, q.path) \in DOMAIN bucket <=> key(s, q.path) \in DOMAIN b
      /\ KeysUnder(bucket, keyDir(s, q.path)) = Listed(s, b, q)
  BY <1>1, OnlyLooked
<1>3. Suits(q) /\ Knows(s, b, q)
  BY DEF Running, Doing
<1>4. /\ r.op = q.op /\ r.path = q.path /\ r.new = q.new /\ r.listed = {} /\ r.token = <<>>
      /\ \/ r.pc = "stat_done" /\ KindOf(s, b, q) = r.info
         \/ r.pc = "stat_list" /\ KindOf(s, b, q) # "file"
  <2>1. CASE StatHead(s) /\ key(s, q.path) \in DOMAIN bucket
    <3>1. r.pc = "stat_done" /\ r.info = "file"
      BY <1>1, <2>1 DEF StatHead, Request
    <3>2. r.op = q.op /\ r.path = q.path /\ r.new = q.new /\ r.listed = {} /\ r.token = <<>>
      BY <1>1, <1>2, <2>1 DEF StatHead, Request
    <3> QED
      BY <1>2, <2>1, <3>1, <3>2, KindFacts
  <2>2. CASE StatHead(s) /\ key(s, q.path) \notin DOMAIN bucket
    <3>1. Goto(s, "stat_list")
      BY <2>2 DEF StatHead
    <3> QED
      BY <1>2, <2>2, <3>1, GotoSame, KindFacts
  <2>3. CASE StatList(s)
    <3>1. r.pc = "stat_done" /\ r.info = IF Listed(s, b, q) # {} THEN "dir" ELSE "none"
      BY <1>1, <1>2, <2>3 DEF StatList, Request, prefixHasObjects
    <3>2. r.op = q.op /\ r.path = q.path /\ r.new = q.new /\ r.listed = {} /\ r.token = <<>>
      BY <1>1, <1>2, <2>3 DEF StatList, Request
    <3>3. KindOf(s, b, q) # "file"
      BY <1>3, <2>3 DEF StatList, At, Knows
    <3> QED
      BY <3>1, <3>2, <3>3, KindFacts
  <2> QED
    BY <2>1, <2>2, <2>3
<1>5. Suits(r)
  BY <1>1, <1>3, <1>4, RunningFacts DEF Suits, StatCalls, RenameCalls
<1>6. KindOf(s, b, r) = KindOf(s, b, q)
  BY <1>4, SameTarget
<1>7. Knows(s, b, r)
  BY <1>4, <1>6 DEF Knows
<1>8. Finds(s, b, r)
  BY <1>4 DEF Finds
<1> QED
  BY <1>1, <1>2, <1>4, <1>5, <1>7, <1>8, RanOn

\* A look that ends the operation: the promise leaves the bucket alone.
LEMMA RanLook ==
  ASSUME NEW s \in Sessions, Running(s), NEW x, Return(s, x), NoEffect,
         Mine(s, bucket) = Mine(s, pre[s]),
         Promised(s, pre[s], sess[s]) = Outcome(x, pre[s])
  PROVE  Ran(s)
<1>1. Gives(s, bucket', x, Promised(s, pre[s], sess[s]))
  BY OutcomeFacts DEF Gives, NoEffect
<1> QED
  BY <1>1, RanBack

\* A change that ends the operation; its answer may be lost.
LEMMA RanChange ==
  ASSUME NEW s \in Sessions, Running(s), \E lost \in Lost : Return(s, IF lost THEN "s3" ELSE "ok"),
         NEW d, Mine(s, bucket') = Mine(s, d), Promised(s, pre[s], sess[s]) = Outcome("ok", d)
  PROVE  Ran(s)
<1>1. PICK lost \in Lost : Return(s, IF lost THEN "s3" ELSE "ok")
  OBVIOUS
<1>2. Return(s, "s3") \/ Return(s, "ok")
  BY <1>1
<1>3. Gives(s, bucket', "ok", Promised(s, pre[s], sess[s]))
  BY OutcomeFacts DEF Gives
<1> QED
  BY <1>2, <1>3, RanBack

(***************************************************************************)
(* Mkdir, MkdirAll                                                         *)
(***************************************************************************)
\* Mkdir finds a file in the way.
LEMMA RanMkdirHead ==
  ASSUME NEW s \in Sessions, Running(s), MkdirHead(s)
  PROVE  Ran(s)
<1> DEFINE b == pre[s]
           q == sess[s]
           r == sess'[s]
<1>1. q.pc = "mkdir_head" /\ NoEffect
  BY DEF MkdirHead, At
<1>2. /\ Mine(s, bucket) = Mine(s, b) /\ q.listed = {} /\ q.token = <<>>
      /\ key(s, q.path) \in DOMAIN bucket <=> key(s, q.path) \in DOMAIN b
  BY <1>1, OnlyLooked
<1>3. q.op \in {"mkdir", "mkdirall"} /\ Suits(q) /\ Knows(s, b, q)
  BY <1>1 DEF Running, Doing, Suits
<1>4. CASE key(s, q.path) \in DOMAIN bucket
  <2>1. Return(s, "EEXIST") /\ KindOf(s, b, q) = "file"
    BY <1>2, <1>4, KindFacts DEF MkdirHead
  <2>2. CASE q.op = "mkdir"
    <3>1. Promised(s, b, q) = Outcome("EEXIST", b)
      BY <2>1, <2>2, RunningFacts, PromisedFor, MkdirPromise DEF KindOf
    <3> QED
      BY <1>1, <1>2, <2>1, <3>1, RanLook
  <2>3. CASE q.op = "mkdirall"
    <3>1. "error" \in Faults
      BY <1>1, <1>3, <2>1, <2>3 DEF Knows
    <3>2. Gives(s, bucket', "EEXIST", Outcome("EEXIST", b))
      BY <1>1, <1>2, OutcomeFacts DEF Gives, NoEffect
    <3> QED
      BY <2>1, <2>3, <3>1, <3>2, RanBack
  <2> QED
    BY <1>3, <2>2, <2>3
<1>5. CASE key(s, q.path) \notin DOMAIN bucket
  <2>1. Goto(s, "mkdir_list") /\ KindOf(s, b, q) # "file"
    BY <1>2, <1>5, KindFacts DEF MkdirHead
  <2>2. /\ r.pc = "mkdir_list" /\ r.op = q.op /\ r.path = q.path /\ r.listed = {} /\ r.token = <<>>
    BY <1>2, <2>1, GotoSame
  <2>3. Suits(r)
    BY <1>3, <2>2 DEF Suits, StatCalls, RenameCalls
  <2>4. KindOf(s, b, r) = KindOf(s, b, q)
    BY <2>2, SameTarget
  <2>5. Knows(s, b, r)
    BY <1>1, <1>3, <2>1, <2>2, <2>4 DEF Knows
  <2>6. Finds(s, b, r)
    BY <2>2 DEF Finds
  <2> QED
    BY <1>1, <1>2, <2>2, <2>3, <2>5, <2>6, RanOn
<1> QED
  BY <1>4, <1>5

\* Mkdir finds a directory in the way, or may go on.
LEMMA RanMkdirList ==
  ASSUME NEW s \in Sessions, Running(s), MkdirList(s)
  PROVE  Ran(s)
<1> DEFINE b == pre[s]
           q == sess[s]
           r == sess'[s]
<1>1. q.pc = "mkdir_list" /\ NoEffect
  BY DEF MkdirList, At
<1>2. /\ Mine(s, bucket) = Mine(s, b) /\ q.listed = {} /\ q.token = <<>>
      /\ KeysUnder(bucket, keyDir(s, q.path)) = Listed(s, b, q)
  BY <1>1, OnlyLooked
<1>3. q.op \in {"mkdir", "mkdirall"} /\ Suits(q) /\ Knows(s, b, q) /\ KindOf(s, b, q) # "file"
  BY <1>1 DEF Running, Doing, Suits, Knows
<1>4. CASE Listed(s, b, q) # {} /\ Return(s, "EEXIST")
  <2>1. KindOf(s, b, q) = "dir"
    BY <1>3, <1>4, KindFacts
  <2>2. CASE q.op = "mkdir"
    <3>1. Promised(s, b, q) = Outcome("EEXIST", b)
      BY <2>1, <2>2, RunningFacts, PromisedFor, MkdirPromise DEF KindOf
    <3> QED
      BY <1>1, <1>2, <1>4, <3>1, RanLook
  <2>3. CASE q.op = "mkdirall"
    <3>1. "error" \in Faults
      BY <1>1, <1>3, <2>1, <2>3 DEF Knows
    <3>2. Gives(s, bucket', "EEXIST", Outcome("EEXIST", b))
      BY <1>1, <1>2, OutcomeFacts DEF Gives, NoEffect
    <3> QED
      BY <1>4, <2>3, <3>1, <3>2, RanBack
  <2> QED
    BY <1>3, <2>2, <2>3
<1>5. CASE Listed(s, b, q) = {} /\ ~DirMarker[s] /\ Return(s, "ok")
  <2>1. KindOf(s, b, q) = "none"
    BY <1>3, <1>5, KindFacts
  <2>2. Promised(s, b, q) = MkdirOutcome(b, Root[s], q.path, DirMarker[s])
    BY <1>3, <2>1, RunningFacts, PromisedFor, MkdirPromise DEF KindOf
  <2>3. Promised(s, b, q) = Outcome("ok", b)
    BY <1>5, <2>1, <2>2, RunningFacts, MkdirPromise DEF KindOf
  <2> QED
    BY <1>1, <1>2, <1>5, <2>3, RanLook
<1>6. CASE Listed(s, b, q) = {} /\ DirMarker[s] /\ Goto(s, "mkdir_put")
  <2>1. KindOf(s, b, q) = "none"
    BY <1>3, <1>6, KindFacts
  <2>2. /\ r.pc = "mkdir_put" /\ r.op = q.op /\ r.path = q.path /\ r.listed = {} /\ r.token = <<>>
    BY <1>2, <1>6, GotoSame
  <2>3. Suits(r)
    BY <1>3, <2>2 DEF Suits, StatCalls, RenameCalls
  <2>4. KindOf(s, b, r) = "none"
    BY <2>1, <2>2, SameTarget
  <2>5. Knows(s, b, r)
    BY <1>3, <1>6, <2>2, <2>4 DEF Knows
  <2>6. Finds(s, b, r)
    BY <2>2 DEF Finds
  <2> QED
    BY <1>1, <1>2, <2>2, <2>3, <2>5, <2>6, RanOn
<1> QED
  BY <1>2, <1>4, <1>5, <1>6 DEF MkdirList, prefixHasObjects

\* The marker of the new directory.
LEMMA RanMkdirPut ==
  ASSUME NEW s \in Sessions, Running(s), MkdirPut(s)
  PROVE  Ran(s)
<1> DEFINE b == pre[s]
           q == sess[s]
           d == PutObject(b, keyDir(s, q.path), Empty)
<1>1. q.pc = "mkdir_put" /\ bucket' = PutObject(bucket, keyDir(s, q.path), Empty)
  BY DEF MkdirPut, At, Effect
<1>2. Mine(s, bucket) = Mine(s, b)
  BY <1>1, OnlyLooked
<1>3. Mine(s, bucket') = Mine(s, d)
  BY <1>1, <1>2, MinePut
<1>4. q.op \in {"mkdir", "mkdirall"} /\ Kind(b, Root[s], q.path) = "none"
  BY <1>1 DEF Running, Doing, Suits, Knows, KindOf
<1>5. DirMarker[s]
  BY <1>1 DEF Running, Doing, Knows
<1>6. Promised(s, b, q) = Outcome("ok", d)
  <2>1. Promised(s, b, q) = MkdirOutcome(b, Root[s], q.path, DirMarker[s])
    BY <1>4, RunningFacts, PromisedFor, MkdirPromise
  <2>2. MkdirOutcome(b, Root[s], q.path, DirMarker[s]) = Outcome("ok", IF DirMarker[s] THEN d ELSE b)
    BY <1>4, RunningFacts, MkdirPromise DEF keyDir
  <2> QED
    BY <1>5, <2>1, <2>2, Zenon
<1> QED
  BY <1>3, <1>6, RanChange DEF MkdirPut

\* MkdirAll is done when there is something, and calls Mkdir when not.
LEMMA RanMkdirAllStat ==
  ASSUME NEW s \in Sessions, Running(s), MkdirAllStat(s)
  PROVE  Ran(s)
<1> DEFINE b == pre[s]
           q == sess[s]
           r == sess'[s]
<1>1. q.pc = "stat_done" /\ q.op = "mkdirall" /\ NoEffect
  BY DEF MkdirAllStat, Statted, At
<1>2. Mine(s, bucket) = Mine(s, b) /\ q.listed = {} /\ q.token = <<>>
  BY <1>1, OnlyLooked
<1>3. KindOf(s, b, q) = q.info /\ Suits(q)
  BY <1>1 DEF Running, Doing, Knows
<1>4. CASE q.info = "none" /\ Goto(s, "mkdir_head")
  <2>1. /\ r.pc = "mkdir_head" /\ r.op = q.op /\ r.path = q.path /\ r.listed = {} /\ r.token = <<>>
    BY <1>2, <1>4, GotoSame
  <2>2. KindOf(s, b, r) = "none"
    BY <1>3, <1>4, <2>1, SameTarget
  <2>3. Suits(r) /\ Finds(s, b, r)
    BY <1>1, <2>1 DEF Suits, StatCalls, RenameCalls, Finds
  <2>4. Knows(s, b, r)
    BY <1>1, <2>1, <2>2 DEF Knows
  <2> QED
    BY <1>1, <1>2, <2>1, <2>3, <2>4, RanOn
<1>5. CASE q.info \in {"file", "dir"} /\ Return(s, "ok")
  <2>1. Promised(s, b, q) = Outcome("ok", b)
    BY <1>1, <1>3, <1>5, RunningFacts, PromisedFor, MkdirPromise DEF KindOf
  <2> QED
    BY <1>1, <1>2, <1>5, <2>1, RanLook
<1> QED
  BY <1>4, <1>5 DEF MkdirAllStat, Statted

\* A failing call: MkdirAll goes on from a failing Stat, all else returns.
LEMMA RanFails ==
  ASSUME NEW s \in Sessions, Running(s), CallFails(s)
  PROVE  Ran(s)
<1> DEFINE b == pre[s]
           q == sess[s]
           r == sess'[s]
<1>1. "error" \in Faults /\ NoEffect
  BY DEF CallFails
<1>2. CASE Return(s, "s3")
  BY <1>2, RanBack
<1>3. CASE q.op = "mkdirall" /\ q.pc \in {"stat_head", "stat_list"} /\ Goto(s, "mkdir_head")
  <2>1. Mine(s, bucket) = Mine(s, b) /\ q.listed = {} /\ q.token = <<>>
    BY <1>3, OnlyLooked
  <2>2. /\ r.pc = "mkdir_head" /\ r.op = q.op /\ r.path = q.path /\ r.listed = {} /\ r.token = <<>>
    BY <1>3, <2>1, GotoSame
  <2>3. Suits(r) /\ Finds(s, b, r)
    BY <1>3, <2>2 DEF Suits, StatCalls, RenameCalls, Finds
  <2>4. Knows(s, b, r)
    BY <1>1, <1>3, <2>2 DEF Knows
  <2> QED
    BY <1>1, <2>1, <2>2, <2>3, <2>4, RanOn
<1> QED
  BY <1>2, <1>3 DEF CallFails

\* The upload becomes visible.
LEMMA RanStor ==
  ASSUME NEW s \in Sessions, Running(s), StorPut(s)
  PROVE  Ran(s)
<1> DEFINE b == pre[s]
           q == sess[s]
           d == PutObject(b, key(s, q.path), q.data)
<1>1. q.pc = "put_object" /\ bucket' = PutObject(bucket, key(s, q.path), q.data)
  BY DEF StorPut, At, Effect
<1>2. Mine(s, bucket') = Mine(s, d)
  BY <1>1, OnlyLooked, MinePut
<1>3. q.op = "stor"
  BY <1>1 DEF Running, Doing, Suits
<1>4. Promised(s, b, q) = Outcome("ok", d)
  BY <1>3, RunningFacts, PromisedFor DEF StorOutcome, key
<1> QED
  BY <1>2, <1>4, RanChange DEF StorPut

(***************************************************************************)
(* Remove, RemoveDir                                                       *)
(***************************************************************************)
\* What is promised for a removal, by what the path names.
LEMMA RemovalPromise ==
  ASSUME NEW s \in Sessions, Running(s)
  PROVE  LET b == pre[s]
             q == sess[s]
             file == DeleteObjects(b, {key(s, q.path)})
         IN  /\ q.op \in {"remove", "rmdir"} /\ KindOf(s, b, q) = "none" =>
                  Promised(s, b, q) = Outcome("ENOENT", b)
             /\ q.op = "rmdir" /\ KindOf(s, b, q) = "file" => Promised(s, b, q) = Outcome("ENOTDIR", b)
             /\ q.op = "remove" /\ KindOf(s, b, q) = "file" => Promised(s, b, q) = Outcome("ok", file)
             /\ q.op = "removeall" /\ KindOf(s, b, q) = "file" /\ Listed(s, b, q) = {} =>
                  Promised(s, b, q) = Outcome("ok", file)
             /\ q.op = "rmdir" /\ KindOf(s, b, q) = "dir" /\ Listed(s, b, q) = {keyDir(s, q.path)} =>
                  Promised(s, b, q) = Outcome("ok", DeleteObjects(b, {keyDir(s, q.path)}))
             /\ q.op = "rmdir" /\ KindOf(s, b, q) = "dir" /\ Listed(s, b, q) # {keyDir(s, q.path)} =>
                  Promised(s, b, q) = Outcome("ENOTEMPTY", b)
             /\ q.op = "removeall" /\ KindOf(s, b, q) # "file" =>
                  Promised(s, b, q) = Outcome("ok", DeleteObjects(b, Listed(s, b, q)))
<1> DEFINE b == pre[s]
           q == sess[s]
           p == q.path
           r == Root[s]
<1>1. p # <<>> /\ ~ReadOnly[s]
  BY RunningFacts
<1>2. /\ q.op = "remove" => Promised(s, b, q) = RemoveOutcome(b, r, p)
      /\ q.op = "rmdir" => Promised(s, b, q) = RemoveDirOutcome(b, r, p)
      /\ q.op = "removeall" => Promised(s, b, q) = RemoveAllOutcome(b, r, p)
  BY <1>1, PromisedFor
<1>3. /\ KindOf(s, b, q) = Kind(b, r, p) /\ Listed(s, b, q) = KeysUnder(b, dirKey(r, p))
      /\ key(s, p) = joinRoot(r, p) /\ keyDir(s, p) = dirKey(r, p)
  BY DEF KindOf, Listed, key, keyDir
<1> HIDE DEF b, q, p, r
<1>4. Kind(b, r, p) = "none" => RemoveDirOutcome(b, r, p) = Outcome("ENOENT", b)
  BY <1>1, Zenon DEF RemoveDirOutcome
<1>5. Kind(b, r, p) = "file" => RemoveDirOutcome(b, r, p) = Outcome("ENOTDIR", b)
  BY <1>1, Zenon DEF RemoveDirOutcome
<1>6. Kind(b, r, p) = "dir" /\ KeysUnder(b, dirKey(r, p)) = {dirKey(r, p)} =>
        RemoveDirOutcome(b, r, p) = Outcome("ok", DeleteObjects(b, {dirKey(r, p)}))
  BY <1>1, Zenon DEF RemoveDirOutcome
<1>7. Kind(b, r, p) = "dir" /\ KeysUnder(b, dirKey(r, p)) # {dirKey(r, p)} =>
        RemoveDirOutcome(b, r, p) = Outcome("ENOTEMPTY", b)
  BY <1>1, Zenon DEF RemoveDirOutcome
<1>8. /\ Kind(b, r, p) = "file" => RemoveOutcome(b, r, p) = Outcome("ok", DeleteObjects(b, {joinRoot(r, p)}))
      /\ Kind(b, r, p) # "file" => RemoveOutcome(b, r, p) = RemoveDirOutcome(b, r, p)
  BY <1>1, Zenon DEF RemoveOutcome
<1> DEFINE below == KeysUnder(b, dirKey(r, p))
<1>9. RemoveAllOutcome(b, r, p) = Outcome("ok", DeleteObjects(b, {joinRoot(r, p)} \cup below))
  BY <1>1, Zenon DEF RemoveAllOutcome
<1>10. below = {} => RemoveAllOutcome(b, r, p) = Outcome("ok", DeleteObjects(b, {joinRoot(r, p)}))
  <2>1. below = {} => {joinRoot(r, p)} \cup below = {joinRoot(r, p)}
    OBVIOUS
  <2> QED
    BY <1>9, <2>1, Zenon
<1>11. Kind(b, r, p) # "file" => RemoveAllOutcome(b, r, p) = Outcome("ok", DeleteObjects(b, below))
  <2>1. Kind(b, r, p) # "file" => joinRoot(r, p) \notin DOMAIN b
    BY DEF Kind
  <2>2. joinRoot(r, p) \notin DOMAIN b => DOMAIN b \ ({joinRoot(r, p)} \cup below) = DOMAIN b \ below
    OBVIOUS
  <2>3. Kind(b, r, p) # "file" => DeleteObjects(b, {joinRoot(r, p)} \cup below) = DeleteObjects(b, below)
    BY <2>1, <2>2, Zenon DEF DeleteObjects
  <2> QED
    BY <1>9, <2>3, Zenon
<1>12. /\ q.op \in {"remove", "rmdir"} /\ KindOf(s, b, q) = "none" => Promised(s, b, q) = Outcome("ENOENT", b)
       /\ q.op = "rmdir" /\ KindOf(s, b, q) = "file" => Promised(s, b, q) = Outcome("ENOTDIR", b)
       /\ q.op = "remove" /\ KindOf(s, b, q) = "file" =>
            Promised(s, b, q) = Outcome("ok", DeleteObjects(b, {key(s, p)}))
       /\ q.op = "removeall" /\ KindOf(s, b, q) = "file" /\ Listed(s, b, q) = {} =>
            Promised(s, b, q) = Outcome("ok", DeleteObjects(b, {key(s, p)}))
  BY <1>2, <1>3, <1>4, <1>5, <1>8, <1>10
<1>13. /\ q.op = "rmdir" /\ KindOf(s, b, q) = "dir" /\ Listed(s, b, q) = {keyDir(s, p)} =>
            Promised(s, b, q) = Outcome("ok", DeleteObjects(b, {keyDir(s, p)}))
       /\ q.op = "rmdir" /\ KindOf(s, b, q) = "dir" /\ Listed(s, b, q) # {keyDir(s, p)} =>
            Promised(s, b, q) = Outcome("ENOTEMPTY", b)
       /\ q.op = "removeall" /\ KindOf(s, b, q) # "file" =>
            Promised(s, b, q) = Outcome("ok", DeleteObjects(b, Listed(s, b, q)))
  BY <1>2, <1>3, <1>6, <1>7, <1>11
<1> QED
  BY <1>12, <1>13 DEF b, q, p, r

\* Remove by what the path names; a directory is left to RemoveDir.
LEMMA RanRemoveStat ==
  ASSUME NEW s \in Sessions, Running(s), RemoveStat(s)
  PROVE  Ran(s)
<1> DEFINE b == pre[s]
           q == sess[s]
           r == sess'[s]
<1>1. q.pc = "stat_done" /\ q.op = "remove" /\ NoEffect
  BY DEF RemoveStat, Statted, At
<1>2. Mine(s, bucket) = Mine(s, b) /\ q.listed = {} /\ q.token = <<>>
  BY <1>1, OnlyLooked
<1>3. KindOf(s, b, q) = q.info
  BY <1>1 DEF Running, Doing, Knows
<1>4. CASE q.info = "none" /\ Return(s, "ENOENT")
  <2>1. Promised(s, b, q) = Outcome("ENOENT", b)
    BY <1>1, <1>3, <1>4, RemovalPromise
  <2> QED
    BY <1>1, <1>2, <1>4, <2>1, RanLook
<1>5. CASE sess' = [sess EXCEPT ![s].op = "rmdir", ![s].pc = "stat_head", ![s].info = "none"]
  <2>1. r.pc = "stat_head" /\ r.op = "rmdir" /\ r.listed = {} /\ r.token = <<>>
    BY <1>2, <1>5, RunningFacts DEF Request
  <2>2. Suits(r) /\ Finds(s, b, r)
    BY <2>1 DEF Suits, StatCalls, RenameCalls, Finds
  <2>3. Knows(s, b, r)
    BY <2>1 DEF Knows
  <2> QED
    BY <1>1, <1>2, <2>1, <2>2, <2>3, RanOn
<1>6. CASE q.info = "file" /\ Goto(s, "delete_file")
  <2>1. r.pc = "delete_file" /\ r.op = "remove" /\ r.path = q.path /\ r.listed = {} /\ r.token = <<>>
    BY <1>1, <1>2, <1>6, GotoSame
  <2>2. KindOf(s, b, r) = "file"
    BY <1>3, <1>6, <2>1, SameTarget
  <2>3. Suits(r) /\ Finds(s, b, r)
    BY <2>1 DEF Suits, StatCalls, RenameCalls, Finds
  <2>4. Knows(s, b, r)
    BY <2>1, <2>2 DEF Knows
  <2> QED
    BY <1>1, <1>2, <2>1, <2>3, <2>4, RanOn
<1> QED
  BY <1>4, <1>5, <1>6 DEF RemoveStat, Statted

\* The deletion of a file.
LEMMA RanDeleteFile ==
  ASSUME NEW s \in Sessions, Running(s), DeleteFile(s)
  PROVE  Ran(s)
<1> DEFINE b == pre[s]
           q == sess[s]
           d == DeleteObjects(b, {key(s, q.path)})
<1>1. q.pc = "delete_file" /\ bucket' = DeleteObjects(bucket, {key(s, q.path)})
  BY DEF DeleteFile, At, Effect
<1>2. Mine(s, bucket') = Mine(s, d)
  BY <1>1, OnlyLooked, MineDelete
<1>3. q.op \in {"remove", "removeall"} /\ KindOf(s, b, q) = "file"
  BY <1>1 DEF Running, Doing, Suits, Knows
<1>4. CASE q.op = "remove" \/ Listed(s, b, q) = {}
  <2>1. Promised(s, b, q) = Outcome("ok", d)
    BY <1>3, <1>4, RemovalPromise
  <2> QED
    BY <1>2, <2>1, RanChange DEF DeleteFile
<1>5. CASE q.op = "removeall" /\ Listed(s, b, q) # {}
  <2>1. Return(s, "s3") \/ Return(s, "ok")
    BY DEF DeleteFile
  <2>2. FileGone(s, b, q, bucket', "ok")
    BY <1>2, <1>3, <1>5, OutcomeFacts DEF FileGone, Gives
  <2> QED
    BY <2>1, <2>2, RanBack
<1> QED
  BY <1>3, <1>4, <1>5

\* RemoveDir by what the path names.
LEMMA RanRemoveDirStat ==
  ASSUME NEW s \in Sessions, Running(s), RemoveDirStat(s)
  PROVE  Ran(s)
<1> DEFINE b == pre[s]
           q == sess[s]
           r == sess'[s]
<1>1. q.pc = "stat_done" /\ q.op = "rmdir" /\ NoEffect
  BY DEF RemoveDirStat, Statted, At
<1>2. Mine(s, bucket) = Mine(s, b) /\ q.listed = {} /\ q.token = <<>>
  BY <1>1, OnlyLooked
<1>3. KindOf(s, b, q) = q.info
  BY <1>1 DEF Running, Doing, Knows
<1>4. CASE q.info = "none" /\ Return(s, "ENOENT")
  <2>1. Promised(s, b, q) = Outcome("ENOENT", b)
    BY <1>1, <1>3, <1>4, RemovalPromise
  <2> QED
    BY <1>1, <1>2, <1>4, <2>1, RanLook
<1>5. CASE q.info = "file" /\ Return(s, "ENOTDIR")
  <2>1. Promised(s, b, q) = Outcome("ENOTDIR", b)
    BY <1>1, <1>3, <1>5, RemovalPromise
  <2> QED
    BY <1>1, <1>2, <1>5, <2>1, RanLook
<1>6. CASE q.info = "dir" /\ Goto(s, "rmdir_list")
  <2>1. r.pc = "rmdir_list" /\ r.op = "rmdir" /\ r.path = q.path /\ r.listed = {} /\ r.token = <<>>
    BY <1>1, <1>2, <1>6, GotoSame
  <2>2. KindOf(s, b, r) = "dir"
    BY <1>3, <1>6, <2>1, SameTarget
  <2>3. Suits(r) /\ Finds(s, b, r)
    BY <2>1 DEF Suits, StatCalls, RenameCalls, Finds
  <2>4. Knows(s, b, r)
    BY <2>1, <2>2 DEF Knows
  <2> QED
    BY <1>1, <1>2, <2>1, <2>3, <2>4, RanOn
<1> QED
  BY <1>4, <1>5, <1>6 DEF RemoveDirStat, Statted

\* The keys of a directory are a finite set of keys.
LEMMA FiniteListing ==
  ASSUME NEW s \in Sessions, Running(s), NEW p
  PROVE  IsFiniteSet(KeysUnder(bucket, p)) /\ KeysUnder(bucket, p) \subseteq Key
<1>1. KeysUnder(bucket, p) \in SUBSET DOMAIN bucket
  BY DEF KeysUnder
<1>2. IsFiniteSet(KeysUnder(bucket, p))
  BY <1>1, FS_Subset DEF Running, Finite
<1> QED
  BY <1>1, <1>2, RunningFacts DEF IsBucket

\* RemoveDir asks for two keys, and knows from them what all the keys are.
LEMMA RanRemoveDirList ==
  ASSUME NEW s \in Sessions, Running(s), RemoveDirList(s)
  PROVE  Ran(s)
<1> DEFINE b == pre[s]
           q == sess[s]
           r == sess'[s]
           prefix == keyDir(s, q.path)
<1>1. q.pc = "rmdir_list" /\ NoEffect
  BY DEF RemoveDirList, At
<1>2. /\ Mine(s, bucket) = Mine(s, b) /\ q.listed = {} /\ q.token = <<>>
      /\ KeysUnder(bucket, prefix) = Listed(s, b, q)
  BY <1>1, OnlyLooked
<1>3. q.op = "rmdir" /\ KindOf(s, b, q) = "dir"
  BY <1>1 DEF Running, Doing, Suits, Knows
<1>4. Listed(s, b, q) # {} /\ Listed(s, b, q) \subseteq Key /\ IsFiniteSet(Listed(s, b, q))
  BY <1>2, <1>3, KindFacts, FiniteListing
<1>5. (\E k \in Least(2, Listed(s, b, q)) : k # prefix) <=> Listed(s, b, q) # {prefix}
  BY <1>4, LeastTwo
<1>6. CASE Listed(s, b, q) # {prefix} /\ Return(s, "ENOTEMPTY")
  <2>1. Promised(s, b, q) = Outcome("ENOTEMPTY", b)
    BY <1>3, <1>6, RemovalPromise
  <2> QED
    BY <1>1, <1>2, <1>6, <2>1, RanLook
<1>7. CASE Listed(s, b, q) = {prefix} /\ Goto(s, "rmdir_delete")
  <2>1. r.pc = "rmdir_delete" /\ r.op = "rmdir" /\ r.path = q.path /\ r.listed = {} /\ r.token = <<>>
    BY <1>2, <1>3, <1>7, GotoSame
  <2>2. KindOf(s, b, r) = "dir" /\ Listed(s, b, r) = {keyDir(s, r.path)}
    <3>1. KindOf(s, b, r) = KindOf(s, b, q) /\ Listed(s, b, r) = Listed(s, b, q)
      BY <2>1, SameTarget
    <3> QED
      BY <1>3, <1>7, <2>1, <3>1
  <2>3. Suits(r) /\ Finds(s, b, r)
    BY <2>1 DEF Suits, StatCalls, RenameCalls, Finds
  <2>4. Knows(s, b, r)
    BY <2>1, <2>2 DEF Knows
  <2> QED
    BY <1>1, <1>2, <2>1, <2>3, <2>4, RanOn
<1> QED
  BY <1>2, <1>5, <1>6, <1>7 DEF RemoveDirList

\* The deletion of the marker of an empty directory.
LEMMA RanRemoveDirDelete ==
  ASSUME NEW s \in Sessions, Running(s), RemoveDirDelete(s)
  PROVE  Ran(s)
<1> DEFINE b == pre[s]
           q == sess[s]
           d == DeleteObjects(b, {keyDir(s, q.path)})
<1>1. q.pc = "rmdir_delete" /\ bucket' = DeleteObjects(bucket, {keyDir(s, q.path)})
  BY DEF RemoveDirDelete, At, Effect
<1>2. Mine(s, bucket') = Mine(s, d)
  BY <1>1, OnlyLooked, MineDelete
<1>3. q.op = "rmdir" /\ KindOf(s, b, q) = "dir" /\ Listed(s, b, q) = {keyDir(s, q.path)}
  BY <1>1 DEF Running, Doing, Suits, Knows
<1>4. Promised(s, b, q) = Outcome("ok", d)
  BY <1>3, RemovalPromise
<1> QED
  BY <1>2, <1>4, RanChange DEF RemoveDirDelete

(***************************************************************************)
(* RemoveAll, and the loops it shares with Rename                          *)
(***************************************************************************)
\* RemoveAll by what the path names.
LEMMA RanRemoveAllStat ==
  ASSUME NEW s \in Sessions, Running(s), RemoveAllStat(s)
  PROVE  Ran(s)
<1> DEFINE b == pre[s]
           q == sess[s]
           r == sess'[s]
<1>1. q.pc = "stat_done" /\ q.op = "removeall" /\ NoEffect
  BY DEF RemoveAllStat, Statted, At
<1>2. Mine(s, bucket) = Mine(s, b) /\ q.listed = {} /\ q.token = <<>>
  BY <1>1, OnlyLooked
<1>3. KindOf(s, b, q) = q.info
  BY <1>1 DEF Running, Doing, Knows
<1>4. CASE q.info = "file" /\ Goto(s, "delete_file")
  <2>1. r.pc = "delete_file" /\ r.op = "removeall" /\ r.path = q.path /\ r.listed = {} /\ r.token = <<>>
    BY <1>1, <1>2, <1>4, GotoSame
  <2>2. KindOf(s, b, r) = "file"
    BY <1>3, <1>4, <2>1, SameTarget
  <2>3. Suits(r) /\ Finds(s, b, r)
    BY <2>1 DEF Suits, StatCalls, RenameCalls, Finds
  <2>4. Knows(s, b, r)
    BY <2>1, <2>2 DEF Knows
  <2> QED
    BY <1>1, <1>2, <2>1, <2>3, <2>4, RanOn
<1>5. CASE q.info \in {"none", "dir"} /\ Goto(s, "list_keys")
  <2>1. /\ r.pc = "list_keys" /\ r.op = "removeall" /\ r.path = q.path /\ r.listed = {} /\ r.token = <<>>
        /\ r.info = q.info
    BY <1>1, <1>2, <1>5, GotoSame
  <2>2. KindOf(s, b, r) = r.info /\ r.info # "file"
    BY <1>3, <1>5, <2>1, SameTarget
  <2>3. Suits(r) /\ Finds(s, b, r)
    BY <2>1 DEF Suits, StatCalls, RenameCalls, Finds
  <2>4. Knows(s, b, r)
    BY <2>1, <2>2 DEF Knows
  <2> QED
    BY <1>1, <1>2, <2>1, <2>3, <2>4, RanOn
<1> QED
  BY <1>4, <1>5 DEF RemoveAllStat, Statted

\* What is promised for a rename, by what the two paths name.
LEMMA RenamingPromise ==
  ASSUME NEW s \in Sessions, Running(s), sess[s].op = "rename"
  PROVE  LET b == pre[s]
             q == sess[s]
             full == KeysUnder(b, keyDir(s, q.new)) # {}
             into == HasPrefix(keyDir(s, q.new), keyDir(s, q.path))
         IN  /\ KindOf(s, b, q) = "none" => Promised(s, b, q) = Outcome("ENOENT", b)
             /\ KindOf(s, b, q) = "dir" /\ into => Promised(s, b, q) = Outcome("EINVAL", b)
             /\ KindOf(s, b, q) = "file" /\ full => Promised(s, b, q) = Outcome("EISDIR", b)
             /\ KindOf(s, b, q) = "dir" /\ ~into /\ full => Promised(s, b, q) = Outcome("ENOTEMPTY", b)
             /\ KindOf(s, b, q) = "file" /\ ~full =>
                  Wanted(s, b, q) /\ Promised(s, b, q) = Outcome("ok", Moved(b, Root[s], q.path, q.new))
             /\ KindOf(s, b, q) = "dir" /\ ~into /\ ~full =>
                  Wanted(s, b, q) /\ Promised(s, b, q) = Outcome("ok", Moved(b, Root[s], q.path, q.new))
<1> DEFINE b == pre[s]
           q == sess[s]
           r == Root[s]
           full == KeysUnder(b, keyDir(s, q.new)) # {}
           into == HasPrefix(keyDir(s, q.new), keyDir(s, q.path))
           P == Promised(s, b, q)
<1>1. q.path # <<>> /\ q.new # <<>> /\ q.path # q.new /\ ~ReadOnly[s]
  BY RunningFacts
<1>2. P = RenameOutcome(b, r, q.path, q.new)
  BY <1>1, PromisedFor
<1>3. keyDir(s, q.new) = dirKey(r, q.new) /\ keyDir(s, q.path) = dirKey(r, q.path)
      /\ KindOf(s, b, q) = Kind(b, r, q.path)
  BY DEF keyDir, KindOf
<1>4. P.reply = "ok" => Wanted(s, b, q)
  BY <1>1, <1>2 DEF Wanted
<1>5. /\ KindOf(s, b, q) = "none" => P = Outcome("ENOENT", b)
      /\ KindOf(s, b, q) = "dir" /\ into => P = Outcome("EINVAL", b)
      /\ KindOf(s, b, q) = "file" /\ full => P = Outcome("EISDIR", b)
      /\ KindOf(s, b, q) = "dir" /\ ~into /\ full => P = Outcome("ENOTEMPTY", b)
      /\ (KindOf(s, b, q) = "file" \/ (KindOf(s, b, q) = "dir" /\ ~into)) /\ ~full =>
           P = Outcome("ok", Moved(b, r, q.path, q.new))
  BY <1>1, <1>2, <1>3, RenamePromise
<1> HIDE DEF P, full, into
<1>6. P = Outcome("ok", Moved(b, r, q.path, q.new)) => Wanted(s, b, q)
  BY <1>4, OutcomeFacts
<1> QED
  BY <1>5, <1>6 DEF P, full, into

\* What a rename that can be done is promised, and what it moves.
LEMMA WantedPromise ==
  ASSUME NEW s \in Sessions, Running(s), Wanted(s, pre[s], sess[s])
  PROVE  /\ Promised(s, pre[s], sess[s]) =
              Outcome("ok", Moved(pre[s], Root[s], sess[s].path, sess[s].new))
         /\ KindOf(s, pre[s], sess[s]) = "file" => From(s, pre[s], sess[s]) = {key(s, sess[s].path)}
         /\ KindOf(s, pre[s], sess[s]) # "file" => From(s, pre[s], sess[s]) = Listed(s, pre[s], sess[s])
         /\ KindOf(s, pre[s], sess[s]) # "none"
<1> DEFINE b == pre[s]
           q == sess[s]
<1>1. q \in Request /\ q.op = "rename"
  BY RunningFacts DEF Wanted
<1>2. /\ KindOf(s, b, q) \in {"file", "dir"}
      /\ KindOf(s, b, q) = "dir" => ~HasPrefix(keyDir(s, q.new), keyDir(s, q.path))
      /\ KeysUnder(b, keyDir(s, q.new)) = {}
  BY <1>1, WantedFacts DEF KindOf
<1>3. Promised(s, b, q) = Outcome("ok", Moved(b, Root[s], q.path, q.new))
  BY <1>1, <1>2, RenamingPromise
<1>4. /\ KindOf(s, b, q) = "file" => From(s, b, q) = {key(s, q.path)}
      /\ KindOf(s, b, q) # "file" => From(s, b, q) = Listed(s, b, q)
  BY DEF From, MovedKeys, KindOf, Listed, key, keyDir
<1> QED
  BY <1>2, <1>3, <1>4

\* Rename by what the old name is.
LEMMA RanRenameStat ==
  ASSUME NEW s \in Sessions, Running(s), RenameStat(s)
  PROVE  Ran(s)
<1> DEFINE b == pre[s]
           q == sess[s]
           r == sess'[s]
           into == HasPrefix(keyDir(s, q.new), keyDir(s, q.path))
<1>1. q.pc = "stat_done" /\ q.op = "rename" /\ NoEffect
  BY DEF RenameStat, Statted, At
<1>2. Mine(s, bucket) = Mine(s, b) /\ q.listed = {} /\ q.token = <<>>
  BY <1>1, OnlyLooked
<1>3. KindOf(s, b, q) = q.info /\ q.path # q.new
  BY <1>1, RunningFacts DEF Running, Doing, Knows
<1>4. CASE q.info = "none" /\ Return(s, "ENOENT")
  BY <1>1, <1>2, <1>3, <1>4, RenamingPromise, RanLook
<1>5. CASE q.info = "dir" /\ into /\ Return(s, "EINVAL")
  BY <1>1, <1>2, <1>3, <1>5, RenamingPromise, RanLook
<1>6. CASE q.info = "file" /\ Goto(s, "rename_probe")
  <2>1. /\ r.pc = "rename_probe" /\ r.op = "rename" /\ r.path = q.path /\ r.new = q.new
        /\ r.listed = {} /\ r.token = <<>>
    BY <1>1, <1>2, <1>6, GotoSame
  <2>2. KindOf(s, b, r) = "file"
    BY <1>3, <1>6, <2>1, SameTarget
  <2>3. Suits(r) /\ Finds(s, b, r)
    BY <1>3, <2>1 DEF Suits, StatCalls, RenameCalls, Finds
  <2>4. Knows(s, b, r)
    BY <2>1, <2>2 DEF Knows
  <2> QED
    BY <1>1, <1>2, <2>1, <2>3, <2>4, RanOn
<1>7. CASE q.info = "dir" /\ ~into /\ Goto(s, "rename_probe_dir")
  <2>1. /\ r.pc = "rename_probe_dir" /\ r.op = "rename" /\ r.path = q.path /\ r.new = q.new
        /\ r.listed = {} /\ r.token = <<>> /\ r.info = q.info
    BY <1>1, <1>2, <1>7, GotoSame
  <2>2. KindOf(s, b, r) = "dir" /\ r.info = "dir" /\ ~HasPrefix(keyDir(s, r.new), keyDir(s, r.path))
    BY <1>3, <1>7, <2>1, SameTarget
  <2>3. Suits(r) /\ Finds(s, b, r)
    BY <1>3, <2>1 DEF Suits, StatCalls, RenameCalls, Finds
  <2>4. Knows(s, b, r)
    BY <2>1, <2>2 DEF Knows
  <2> QED
    BY <1>1, <1>2, <2>1, <2>3, <2>4, RanOn
<1> QED
  BY <1>4, <1>5, <1>6, <1>7 DEF RenameStat, Statted

\* Rename by what the new name is; from here on the rename can be done.
LEMMA RanRenameProbe ==
  ASSUME NEW s \in Sessions, Running(s), RenameProbe(s)
  PROVE  Ran(s)
<1> DEFINE b == pre[s]
           q == sess[s]
           r == sess'[s]
           full == KeysUnder(b, keyDir(s, q.new)) # {}
<1>1. q.pc \in {"rename_probe", "rename_probe_dir"} /\ NoEffect
  BY DEF RenameProbe, At
<1>2. Mine(s, bucket) = Mine(s, b) /\ q.listed = {} /\ q.token = <<>>
  BY <1>1, OnlyLooked
<1>3. q.op = "rename" /\ q.path # q.new /\ q.new \in Path /\ q.new # <<>>
  BY <1>1, RunningFacts DEF Running, Doing, Suits, RenameCalls
<1>4. KeysUnder(bucket, keyDir(s, q.new)) = KeysUnder(b, keyDir(s, q.new))
  BY <1>2, <1>3, RunningFacts, SameView
<1>5. /\ q.pc = "rename_probe" => KindOf(s, b, q) = "file"
      /\ q.pc = "rename_probe_dir" =>
           KindOf(s, b, q) = "dir" /\ q.info = "dir" /\ ~HasPrefix(keyDir(s, q.new), keyDir(s, q.path))
  BY DEF Running, Doing, Knows
<1>6. CASE q.pc = "rename_probe" /\ full /\ Return(s, "EISDIR")
  BY <1>1, <1>2, <1>3, <1>5, <1>6, RenamingPromise, RanLook
<1>7. CASE q.pc = "rename_probe_dir" /\ full /\ Return(s, "ENOTEMPTY")
  BY <1>1, <1>2, <1>3, <1>5, <1>7, RenamingPromise, RanLook
<1>8. CASE q.pc = "rename_probe" /\ ~full /\ Goto(s, "copy_file")
  <2>1. /\ r.pc = "copy_file" /\ r.op = "rename" /\ r.path = q.path /\ r.new = q.new
        /\ r.listed = {} /\ r.token = <<>>
    BY <1>2, <1>3, <1>8, GotoSame
  <2>2. KindOf(s, b, r) = "file"
    BY <1>5, <1>8, <2>1, SameTarget
  <2>3. Wanted(s, b, q)
    BY <1>3, <1>5, <1>8, RenamingPromise
  <2>4. Wanted(s, b, r)
    BY <1>3, <2>1, <2>3, SameRename
  <2>5. Suits(r) /\ Finds(s, b, r)
    BY <1>3, <2>1 DEF Suits, StatCalls, RenameCalls, Finds
  <2>6. Knows(s, b, r)
    BY <2>1, <2>2, <2>4 DEF Knows
  <2> QED
    BY <1>1, <1>2, <2>1, <2>5, <2>6, RanOn
<1>9. CASE q.pc = "rename_probe_dir" /\ ~full /\ Goto(s, "list_keys")
  <2>1. /\ r.pc = "list_keys" /\ r.op = "rename" /\ r.path = q.path /\ r.new = q.new
        /\ r.listed = {} /\ r.token = <<>> /\ r.info = q.info
    BY <1>2, <1>3, <1>9, GotoSame
  <2>2. KindOf(s, b, r) = "dir" /\ r.info = "dir"
    BY <1>5, <1>9, <2>1, SameTarget
  <2>3. Wanted(s, b, q)
    BY <1>3, <1>5, <1>9, RenamingPromise
  <2>4. Wanted(s, b, r)
    BY <1>3, <2>1, <2>3, SameRename
  <2>5. Suits(r) /\ Finds(s, b, r)
    BY <1>3, <2>1 DEF Suits, StatCalls, RenameCalls, Finds
  <2>6. Knows(s, b, r)
    BY <2>1, <2>2, <2>4 DEF Knows
  <2> QED
    BY <1>1, <1>2, <2>1, <2>5, <2>6, RanOn
<1> QED
  BY <1>4, <1>6, <1>7, <1>8, <1>9 DEF RenameProbe, prefixHasObjects, At

\* An operation that has changed something, goes on.
LEMMA RanAt ==
  ASSUME NEW s, sess'[s].pc # "idle", Suits(sess'[s]), Knows(s, pre[s], sess'[s]),
         Finds(s, pre[s], sess'[s]), Reached(s, pre[s], sess'[s], bucket')
  PROVE  Ran(s)
  BY DEF Ran, Doing, Answers

\* The copy of a file.
LEMMA RanCopyFile ==
  ASSUME NEW s \in Sessions, Running(s), CopyFile(s)
  PROVE  Ran(s)
<1> DEFINE b == pre[s]
           q == sess[s]
           r == sess'[s]
           from == key(s, q.path)
           to == key(s, q.new)
<1>1. q.pc = "copy_file"
  BY DEF CopyFile, At
<1>2. Mine(s, bucket) = Mine(s, b) /\ q.listed = {} /\ q.token = <<>>
  BY <1>1, OnlyLooked
<1>3. q.op = "rename" /\ KindOf(s, b, q) = "file"
  BY <1>1 DEF Running, Doing, Suits, Knows, RenameCalls
<1>4. Wanted(s, b, q)
  BY <1>1, <1>3 DEF Running, Doing, Knows
<1>5. CASE Return(s, "s3")
  BY <1>5, RanBack
<1>6. CASE bucket' = PutObject(bucket, to, bucket[from]) /\ Goto(s, "delete_old")
  <2>1. /\ r.pc = "delete_old" /\ r.op = "rename" /\ r.path = q.path /\ r.new = q.new
        /\ r.listed = {} /\ r.token = <<>>
    BY <1>2, <1>3, <1>6, GotoSame
  <2>2. KindOf(s, b, r) = "file"
    BY <1>3, <2>1, SameTarget
  <2>3. Wanted(s, b, r)
    BY <1>3, <1>4, <2>1, SameRename
  <2>4. Suits(r) /\ Finds(s, b, r)
    BY <2>1, <2>3 DEF Suits, StatCalls, RenameCalls, Finds, Wanted
  <2>5. Knows(s, b, r)
    BY <2>1, <2>2, <2>3 DEF Knows
  <2>6. Mine(s, bucket') = Mine(s, Copies(s, b, q, From(s, b, q)))
    <3>1. From(s, b, q) = {from} /\ To(s, b, q, from) = to
      BY <1>3, <1>4, WantedPromise DEF To, MovedTo, KindOf, key
    <3>2. from \in DOMAIN b /\ HasPrefix(from, Root[s])
      BY <1>3, KindFacts, RunningFacts, SessionKeys
    <3>3. bucket[from] = b[from]
      BY <1>2, <3>2, SameUnder
    <3>4. Mine(s, bucket') = Mine(s, PutObject(b, to, b[from]))
      BY <1>2, <1>6, <3>3, MinePut
    <3>5. Copies(s, b, q, {}) = b
      BY RunningFacts, CopyNone
    <3>6. {} \subseteq From(s, b, q) /\ {} \cup {from} = From(s, b, q) /\ from \in From(s, b, q)
      BY <3>1
    <3>7. PutObject(Copies(s, b, q, {}), To(s, b, q, from), b[from]) = Copies(s, b, q, {} \cup {from})
      BY <1>4, <3>6, RunningFacts, CopyOne
    <3> QED
      BY <3>1, <3>4, <3>5, <3>6, <3>7
  <2>7. Reached(s, b, r, bucket')
    BY <2>1, <2>6, SameCopies DEF Reached
  <2> QED
    BY <2>1, <2>4, <2>5, <2>7, RanAt
<1> QED
  BY <1>5, <1>6 DEF CopyFile, Effect

\* The deletion of the file that was copied.
LEMMA RanDeleteOld ==
  ASSUME NEW s \in Sessions, Running(s), DeleteOld(s)
  PROVE  Ran(s)
<1> DEFINE b == pre[s]
           q == sess[s]
           F == From(s, b, q)
           d == Moved(b, Root[s], q.path, q.new)
<1>1. q.pc = "delete_old" /\ bucket' = DeleteObjects(bucket, {key(s, q.path)})
  BY DEF DeleteOld, At, Effect
<1>2. q.op = "rename" /\ KindOf(s, b, q) = "file"
  BY <1>1 DEF Running, Doing, Suits, Knows, RenameCalls
<1>3. Wanted(s, b, q)
  BY <1>1, <1>2 DEF Running, Doing, Knows
<1>4. Mine(s, bucket) = Mine(s, Copies(s, b, q, F))
  BY <1>1 DEF Running, Doing, Reached
<1>5. F = {key(s, q.path)} /\ Promised(s, b, q) = Outcome("ok", d)
  BY <1>2, <1>3, WantedPromise
<1>6. DeleteObjects(Copies(s, b, q, F), F) = d
  BY <1>3, RunningFacts, CopyAll
<1>7. Mine(s, bucket') = Mine(s, d)
  BY <1>1, <1>4, <1>5, <1>6, MineDelete
<1> QED
  BY <1>5, <1>7, RanChange DEF DeleteOld

\* A page of the listing.
LEMMA RanListKeys ==
  ASSUME NEW s \in Sessions, Running(s), ListKeys(s)
  PROVE  Ran(s)
<1> DEFINE b == pre[s]
           q == sess[s]
           r == sess'[s]
           all == Listed(s, b, q)
           rest == Remaining(bucket, keyDir(s, q.path), q.token)
           page == Least(PageSize, rest)
           found == q.listed \cup page
<1>1. q.pc = "list_keys" /\ NoEffect
  BY DEF ListKeys, At
<1>2. Mine(s, bucket) = Mine(s, b) /\ KeysUnder(bucket, keyDir(s, q.path)) = all
  BY <1>1, OnlyLooked
<1>3. /\ q.op \in {"removeall", "rename"} /\ KindOf(s, b, q) = q.info /\ q.info # "file"
      /\ q.op = "rename" => Wanted(s, b, q) /\ q.path # q.new
      /\ q.listed \subseteq all
      /\ \A k \in all \ q.listed : q.token = <<>> \/ Before(q.token, k)
  BY <1>1 DEF Running, Doing, Suits, Knows, Finds
<1>4. /\ rest \subseteq all /\ all \ q.listed \subseteq rest
      /\ page \subseteq rest /\ found \subseteq all
      /\ rest \subseteq Key /\ IsFiniteSet(rest)
  <2>1. rest = {k \in all : q.token = <<>> \/ Before(q.token, k)}
    BY <1>2 DEF Remaining
  <2>2. all \subseteq Key /\ IsFiniteSet(all)
    BY <1>2, FiniteListing
  <2>3. page \subseteq rest
    BY DEF Least
  <2> HIDE DEF rest, page, all
  <2>4. rest \in SUBSET all
    BY <2>1
  <2>5. IsFiniteSet(rest)
    BY <2>2, <2>4, FS_Subset
  <2> QED
    BY <1>3, <2>1, <2>2, <2>3, <2>5 DEF all
<1>5. page = rest => found = all
  BY <1>4
<1>6. sess \in [Sessions -> Request] /\ q \in Request /\ IsBucket(b)
  BY RunningFacts
<1> HIDE DEF page, rest, all, found
<1>7. CASE \E last \in Greatest(page) : sess' = [sess EXCEPT ![s].listed = found, ![s].token = last]
  <2>1. PICK last \in Greatest(page) : sess' = [sess EXCEPT ![s].listed = found, ![s].token = last]
    BY <1>7
  <2>2. /\ r.pc = "list_keys" /\ r.op = q.op /\ r.path = q.path /\ r.new = q.new /\ r.info = q.info
        /\ r.listed = found /\ r.token = last
    BY <1>1, <1>6, <2>1 DEF Request
  <2>3. KindOf(s, b, r) = q.info /\ Listed(s, b, r) = all
    BY <1>3, <2>2, SameTarget DEF all
  <2>4. r.op = "rename" => Wanted(s, b, r)
    BY <1>3, <2>2, SameRename
  <2>5. Suits(r)
    BY <1>3, <2>2 DEF Suits, StatCalls, RenameCalls
  <2>6. Knows(s, b, r)
    BY <1>3, <2>2, <2>3, <2>4 DEF Knows
  <2>7. \A k \in all \ found : Before(last, k)
    <3>1. PageSize \in Nat
      BY S3FSAssumption
    <3>2. \A k \in all \ found : k \in rest /\ k \notin page
      BY <1>4 DEF found
    <3> QED
      BY <1>4, <3>1, <3>2, NextPage DEF page
  <2>8. Finds(s, b, r)
    BY <1>4, <2>2, <2>3, <2>7 DEF Finds
  <2> QED
    BY <1>1, <1>2, <2>2, <2>5, <2>6, <2>8, RanOn
<1>8. CASE /\ page = rest
           /\ sess' = [sess EXCEPT ![s].listed = found, ![s].todo = found, ![s].token = <<>>,
                          ![s].pc = IF sess[s].op = "rename" THEN "copy_keys" ELSE "delete_keys"]
  <2>1. /\ r.pc = IF q.op = "rename" THEN "copy_keys" ELSE "delete_keys"
        /\ r.op = q.op /\ r.path = q.path /\ r.new = q.new /\ r.info = q.info
        /\ r.listed = all /\ r.todo = all
    BY <1>5, <1>6, <1>8 DEF Request
  <2>2. KindOf(s, b, r) = q.info /\ Listed(s, b, r) = all
    BY <1>3, <2>1, SameTarget DEF all
  <2>3. r.op = "rename" => Wanted(s, b, r) /\ q.info = "dir"
    <3>1. r.op = "rename" => Wanted(s, b, r) /\ Wanted(s, b, q)
      BY <1>3, <2>1, SameRename
    <3>2. Wanted(s, b, q) => KindOf(s, b, q) # "none"
      BY WantedPromise
    <3>3. KindOf(s, b, q) \in {"none", "file", "dir"}
      BY KindFacts
    <3> QED
      BY <1>3, <3>1, <3>2, <3>3
  <2>4. Suits(r)
    BY <1>3, <2>1 DEF Suits, StatCalls, RenameCalls
  <2>5. Knows(s, b, r)
    BY <1>3, <2>1, <2>2, <2>3 DEF Knows
  <2>6. Finds(s, b, r)
    BY <2>1, <2>2 DEF Finds
  <2>7. bucket' = bucket /\ r.listed \ r.todo = {}
    BY <1>1, <2>1 DEF NoEffect
  <2>8. Copies(s, b, r, {}) = b /\ DeleteObjects(b, {}) = b
    BY <1>6, CopyNone, DeleteNothing
  <2>9. Reached(s, b, r, bucket')
    BY <1>2, <1>3, <2>1, <2>7, <2>8 DEF Reached
  <2> QED
    BY <2>1, <2>4, <2>5, <2>6, <2>9, RanAt
<1>9. CASE page = rest /\ found = {} /\ AfterDelete(s)
  <2>1. all = {} /\ DeleteObjects(b, all) = b
    BY <1>5, <1>6, <1>9, DeleteNothing
  <2>2. q.op = "removeall"
    BY <1>3, <2>1, WantedPromise, KindFacts DEF all
  <2>3. Promised(s, b, q) = Outcome("ok", b)
    BY <1>3, <2>1, <2>2, RemovalPromise DEF all
  <2>4. CASE Return(s, "ok")
    BY <1>1, <1>2, <2>3, <2>4, RanLook
  <2>5. CASE Goto(s, "delete_marker")
    <3>1. /\ r.pc = "delete_marker" /\ r.op = "removeall" /\ r.path = q.path
      BY <2>2, <2>5, GotoSame
    <3>2. KindOf(s, b, r) = q.info /\ Listed(s, b, r) = all
      BY <1>3, <3>1, SameTarget DEF all
    <3>3. Suits(r) /\ Finds(s, b, r)
      BY <3>1 DEF Suits, StatCalls, RenameCalls, Finds
    <3>4. Knows(s, b, r)
      BY <1>3, <3>1, <3>2 DEF Knows
    <3>5. Reached(s, b, r, bucket')
      BY <1>1, <1>2, <2>1, <3>1, <3>2 DEF Reached, NoEffect
    <3> QED
      BY <3>1, <3>3, <3>4, <3>5, RanAt
  <2> QED
    BY <1>9, <2>4, <2>5 DEF AfterDelete
<1> QED
  BY <1>7, <1>8, <1>9 DEF ListKeys, page, rest, found

\* One turn of the copy loop.
LEMMA RanCopyKey ==
  ASSUME NEW s \in Sessions, Running(s), CopyKey(s)
  PROVE  Ran(s)
<1> DEFINE b == pre[s]
           q == sess[s]
           r == sess'[s]
           D == q.listed \ q.todo
<1>1. q.pc = "copy_keys"
  BY DEF CopyKey, At
<1>2. /\ q.op = "rename" /\ q.path # q.new /\ KindOf(s, b, q) = "dir" /\ q.info = "dir" /\ q.listed = Listed(s, b, q)
      /\ q.todo \subseteq q.listed /\ Mine(s, bucket) = Mine(s, Copies(s, b, q, D))
  BY <1>1 DEF Running, Doing, Suits, Knows, Finds, Reached, RenameCalls
<1>3. Wanted(s, b, q)
  BY <1>1, <1>2 DEF Running, Doing, Knows
<1>4. sess \in [Sessions -> Request] /\ q \in Request /\ IsBucket(b)
  BY RunningFacts
<1>5. From(s, b, q) = q.listed
  BY <1>2, <1>3, WantedPromise
<1>6. PICK from \in Least(1, q.todo) :
       \/ from \notin DOMAIN bucket /\ Return(s, "s3") /\ NoEffect
       \/ /\ from \in DOMAIN bucket
          /\ Effect(PutObject(bucket, Target(s, from), bucket[from]))
          /\ \/ "lost" \in Faults /\ Return(s, "s3")
             \/ /\ sess[s].todo # {from}
                /\ sess' = [sess EXCEPT ![s].todo = @ \ {from}]
             \/ /\ sess[s].todo = {from}
                /\ sess' = [sess EXCEPT ![s].todo = sess[s].listed, ![s].pc = "delete_keys"]
  BY DEF CopyKey
<1>7. from \in q.todo /\ from \in From(s, b, q) /\ D \subseteq From(s, b, q)
  BY <1>2, <1>5 DEF Least
<1>8. CASE Return(s, "s3")
  BY <1>8, RanBack
<1>9. ASSUME Effect(PutObject(bucket, Target(s, from), bucket[from]))
      PROVE  Mine(s, bucket') = Mine(s, Copies(s, b, q, q.listed \ (q.todo \ {from})))
  <2>1. Target(s, from) = To(s, b, q, from)
    BY <1>2 DEF Target, To, MovedTo, keyDir, KindOf
  <2>2. from \in DOMAIN b /\ HasPrefix(from, Root[s])
    BY <1>3, <1>4, <1>7, Geometry
  <2>3. /\ from \in DOMAIN Copies(s, b, q, D) /\ Copies(s, b, q, D)[from] = b[from]
    <3>1. CopyAdds(s, b, q, D)
      BY <1>3, <1>4, <1>7, CopyFacts
    <3> QED
      BY <1>7, <2>2, <3>1 DEF CopyAdds
  <2>4. bucket[from] = b[from]
    BY <1>2, <2>2, <2>3, SameUnder
  <2>5. bucket' = PutObject(bucket, To(s, b, q, from), b[from])
    BY <1>9, <2>1, <2>4 DEF Effect
  <2>6. Mine(s, bucket') = Mine(s, PutObject(Copies(s, b, q, D), To(s, b, q, from), b[from]))
    BY <1>2, <2>5, MinePut
  <2> HIDE DEF D
  <2>7. PutObject(Copies(s, b, q, D), To(s, b, q, from), b[from]) = Copies(s, b, q, D \cup {from})
    BY <1>3, <1>4, <1>7, CopyOne
  <2>8. D \cup {from} = q.listed \ (q.todo \ {from})
    BY <1>2, <1>7 DEF D
  <2> QED
    BY <2>6, <2>7, <2>8
<1>10. CASE /\ Effect(PutObject(bucket, Target(s, from), bucket[from]))
            /\ sess' = [sess EXCEPT ![s].todo = @ \ {from}]
  <2>1. /\ r.pc = "copy_keys" /\ r.op = "rename" /\ r.path = q.path /\ r.new = q.new
        /\ r.listed = q.listed /\ r.todo = q.todo \ {from} /\ r.info = q.info
    BY <1>1, <1>2, <1>4, <1>10 DEF Request
  <2>2. KindOf(s, b, r) = "dir" /\ r.info = "dir" /\ Listed(s, b, r) = r.listed /\ r.todo \subseteq r.listed
    BY <1>2, <2>1, SameTarget
  <2>3. Wanted(s, b, r)
    BY <1>2, <1>3, <2>1, SameRename
  <2>4. Suits(r) /\ Finds(s, b, r)
    BY <1>2, <2>1, <2>2 DEF Suits, StatCalls, RenameCalls, Finds
  <2>5. Knows(s, b, r)
    BY <2>1, <2>2, <2>3 DEF Knows
  <2>6. Copies(s, b, r, r.listed \ r.todo) = Copies(s, b, q, q.listed \ (q.todo \ {from}))
    BY <2>1, SameCopies
  <2>7. Reached(s, b, r, bucket')
    BY <1>9, <1>10, <2>1, <2>6 DEF Reached
  <2> QED
    BY <2>1, <2>4, <2>5, <2>7, RanAt
<1>11. CASE /\ Effect(PutObject(bucket, Target(s, from), bucket[from])) /\ q.todo = {from}
            /\ sess' = [sess EXCEPT ![s].todo = sess[s].listed, ![s].pc = "delete_keys"]
  <2>1. /\ r.pc = "delete_keys" /\ r.op = "rename" /\ r.path = q.path /\ r.new = q.new
        /\ r.listed = q.listed /\ r.todo = q.listed /\ r.info = q.info
    BY <1>1, <1>2, <1>4, <1>11 DEF Request
  <2>2. KindOf(s, b, r) = "dir" /\ Listed(s, b, r) = r.listed /\ r.info = "dir"
    BY <1>2, <2>1, SameTarget
  <2>3. Wanted(s, b, r)
    BY <1>2, <1>3, <2>1, SameRename
  <2>4. Suits(r) /\ Finds(s, b, r)
    BY <1>2, <2>1, <2>2 DEF Suits, StatCalls, RenameCalls, Finds
  <2>5. Knows(s, b, r)
    BY <2>1, <2>2, <2>3 DEF Knows
  <2>6. r.listed \ r.todo = {} /\ q.listed \ (q.todo \ {from}) = r.listed
    BY <1>11, <2>1
  <2>7. Mine(s, bucket') = Mine(s, Copies(s, b, q, r.listed))
    BY <1>9, <1>11, <2>6
  <2>8. DeleteObjects(Copies(s, b, r, r.listed), {}) = Copies(s, b, r, r.listed)
    BY DEF DeleteObjects, Copies, CopyTo
  <2>9. Copies(s, b, r, r.listed) = Copies(s, b, q, r.listed)
    BY <2>1, SameCopies
  <2>10. Reached(s, b, r, bucket')
    BY <2>1, <2>6, <2>7, <2>8, <2>9 DEF Reached
  <2> QED
    BY <2>1, <2>4, <2>5, <2>10, RanAt
<1> QED
  BY <1>6, <1>8, <1>10, <1>11

\* One batch of deletions.
LEMMA RanDeleteKeys ==
  ASSUME NEW s \in Sessions, Running(s), DeleteKeys(s)
  PROVE  Ran(s)
<1> DEFINE b == pre[s]
           q == sess[s]
           r == sess'[s]
           batch == Least(BatchSize, q.todo)
           rest == q.todo \ batch
           full == IF q.op = "rename" THEN Copies(s, b, q, q.listed) ELSE b
<1>1. q.pc = "delete_keys"
  BY DEF DeleteKeys, At
<1>2. /\ q.op \in {"removeall", "rename"} /\ (q.op = "rename" => q.path # q.new)
      /\ KindOf(s, b, q) = q.info /\ q.info # "file"
      /\ q.listed = Listed(s, b, q) /\ q.todo \subseteq q.listed
  BY <1>1 DEF Running, Doing, Suits, Knows, Finds
<1>3. q.op = "rename" => Wanted(s, b, q)
  BY <1>1 DEF Running, Doing, Knows
<1>4. Mine(s, bucket) = Mine(s, DeleteObjects(full, q.listed \ q.todo))
  BY <1>1, <1>2 DEF Running, Doing, Reached
<1>5. sess \in [Sessions -> Request] /\ q \in Request /\ IsBucket(b)
  BY RunningFacts
<1>6. bucket' = DeleteObjects(bucket, batch)
  <2>1. PICK kept \in KeyErrors(batch) : Effect(DeleteObjects(bucket, batch \ kept))
    BY DEF DeleteKeys
  <2>2. kept = {}
    BY DEF KeyErrors, Running
  <2>3. batch \ kept = batch
    BY <2>2
  <2> QED
    BY <2>1, <2>3 DEF Effect
<1>7. batch \subseteq q.todo
  BY DEF Least
<1> HIDE DEF batch, full
<1>8. Mine(s, bucket') = Mine(s, DeleteObjects(full, q.listed \ rest))
  <2>1. Mine(s, bucket') = Mine(s, DeleteObjects(DeleteObjects(full, q.listed \ q.todo), batch))
    BY <1>4, <1>6, MineDelete
  <2>2. (q.listed \ q.todo) \cup batch = q.listed \ rest
    BY <1>2, <1>7
  <2> QED
    BY <2>1, <2>2, DeleteTwice
<1>9. CASE Return(s, "s3")
  BY <1>9, RanBack
<1>10. CASE sess' = [sess EXCEPT ![s].todo = rest]
  <2>1. /\ r.pc = "delete_keys" /\ r.op = q.op /\ r.path = q.path /\ r.new = q.new
        /\ r.listed = q.listed /\ r.todo = rest /\ r.info = q.info
    BY <1>1, <1>5, <1>10 DEF Request
  <2>2. KindOf(s, b, r) = r.info /\ Listed(s, b, r) = r.listed /\ r.todo \subseteq r.listed
    BY <1>2, <2>1, SameTarget
  <2>3. r.op = "rename" => Wanted(s, b, r)
    BY <1>3, <2>1, SameRename
  <2>4. Suits(r) /\ Finds(s, b, r)
    BY <1>2, <2>1, <2>2 DEF Suits, StatCalls, RenameCalls, Finds
  <2>5. Knows(s, b, r)
    BY <1>2, <2>1, <2>2, <2>3 DEF Knows
  <2>6. Copies(s, b, r, r.listed) = Copies(s, b, q, q.listed)
    BY <2>1, SameCopies
  <2>7. Reached(s, b, r, bucket')
    BY <1>8, <2>1, <2>6 DEF Reached, full
  <2> QED
    BY <2>1, <2>4, <2>5, <2>7, RanAt
<1>11. CASE rest = {} /\ AfterDelete(s)
  <2>1. Mine(s, bucket') = Mine(s, DeleteObjects(full, q.listed))
    <3>1. q.listed \ rest = q.listed
      BY <1>11
    <3> QED
      BY <1>8, <3>1
  <2>2. CASE q.op = "rename"
    <3>1. Return(s, "ok")
      BY <1>11, <2>2 DEF AfterDelete
    <3>2. From(s, b, q) = q.listed
      BY <1>2, <1>3, <2>2, WantedPromise
    <3>3. DeleteObjects(full, q.listed) = Moved(b, Root[s], q.path, q.new)
      BY <1>3, <1>5, <2>2, <3>2, CopyAll DEF full
    <3>4. Promised(s, b, q) = Outcome("ok", Moved(b, Root[s], q.path, q.new))
      BY <1>3, <2>2, WantedPromise
    <3>5. Gives(s, bucket', "ok", Promised(s, b, q))
      BY <2>1, <3>3, <3>4, OutcomeFacts DEF Gives
    <3> QED
      BY <3>1, <3>5, RanBack
  <2>3. CASE q.op = "removeall" /\ Return(s, "ok")
    <3>1. full = b
      BY <2>3 DEF full
    <3>2. Promised(s, b, q) = Outcome("ok", DeleteObjects(b, q.listed))
      BY <1>2, <2>3, RemovalPromise
    <3>3. Gives(s, bucket', "ok", Promised(s, b, q))
      BY <2>1, <3>1, <3>2, OutcomeFacts DEF Gives
    <3> QED
      BY <2>3, <3>3, RanBack
  <2>4. CASE q.op = "removeall" /\ Goto(s, "delete_marker")
    <3>1. r.pc = "delete_marker" /\ r.op = "removeall" /\ r.path = q.path
      BY <2>4, GotoSame
    <3>2. KindOf(s, b, r) = q.info /\ Listed(s, b, r) = q.listed /\ full = b
      BY <1>2, <2>4, <3>1, SameTarget DEF full
    <3>3. Suits(r) /\ Finds(s, b, r)
      BY <3>1 DEF Suits, StatCalls, RenameCalls, Finds
    <3>4. Knows(s, b, r)
      BY <1>2, <3>1, <3>2 DEF Knows
    <3>5. Reached(s, b, r, bucket')
      BY <2>1, <3>1, <3>2 DEF Reached
    <3> QED
      BY <3>1, <3>3, <3>4, <3>5, RanAt
  <2> QED
    BY <1>2, <1>11, <2>2, <2>3, <2>4 DEF AfterDelete
<1> QED
  BY <1>9, <1>10, <1>11 DEF DeleteKeys, batch

\* The marker, which the listing has found already if there was one.
LEMMA RanDeleteMarker ==
  ASSUME NEW s \in Sessions, Running(s), DeleteMarker(s)
  PROVE  Ran(s)
<1> DEFINE b == pre[s]
           q == sess[s]
           K == Listed(s, b, q)
           d == DeleteObjects(b, K)
           marker == keyDir(s, q.path)
<1>1. q.pc = "delete_marker" /\ bucket' = DeleteObjects(bucket, {marker})
  BY DEF DeleteMarker, At, Effect
<1>2. q.op = "removeall" /\ KindOf(s, b, q) # "file" /\ Mine(s, bucket) = Mine(s, d)
  BY <1>1 DEF Running, Doing, Suits, Knows, Reached
<1>3. Promised(s, b, q) = Outcome("ok", d)
  BY <1>2, RemovalPromise
<1>4. DeleteObjects(d, {marker}) = d
  <2>1. HasPrefix(marker, marker)
    BY RunningFacts, SessionKeys DEF HasPrefix, Key
  <2>2. marker \in DOMAIN b => marker \in K
    BY <2>1 DEF Listed, KeysUnder
  <2>3. IsBucket(b)
    BY RunningFacts
  <2> HIDE DEF K, marker
  <2>4. IsBucket(d) /\ {marker} \cap DOMAIN d = {}
    BY <2>2, <2>3 DEF IsBucket, DeleteObjects
  <2> QED
    BY <2>4, DeleteNothing
<1>5. Mine(s, bucket') = Mine(s, d)
  BY <1>1, <1>2, <1>4, MineDelete
<1> QED
  BY <1>3, <1>5, RanChange DEF DeleteMarker

\* Every step of an operation.
LEMMA RanStep ==
  ASSUME NEW s \in Sessions, Running(s)
  PROVE  Ran(s)
<1>1. Continue(s)
  BY DEF Running
<1>2. CASE StatHead(s) \/ StatList(s) \/ CallFails(s) \/ StorPut(s)
  BY <1>2, RanStat, RanFails, RanStor
<1>3. CASE MkdirHead(s) \/ MkdirList(s) \/ MkdirPut(s) \/ MkdirAllStat(s)
  BY <1>3, RanMkdirHead, RanMkdirList, RanMkdirPut, RanMkdirAllStat
<1>4. CASE RemoveStat(s) \/ DeleteFile(s) \/ RemoveDirStat(s) \/ RemoveDirList(s) \/ RemoveDirDelete(s)
  BY <1>4, RanRemoveStat, RanDeleteFile, RanRemoveDirStat, RanRemoveDirList, RanRemoveDirDelete
<1>5. CASE RemoveAllStat(s) \/ ListKeys(s) \/ DeleteKeys(s) \/ DeleteMarker(s)
  BY <1>5, RanRemoveAllStat, RanListKeys, RanDeleteKeys, RanDeleteMarker
<1>6. CASE RenameStat(s) \/ RenameProbe(s) \/ CopyFile(s) \/ DeleteOld(s) \/ CopyKey(s)
  BY <1>6, RanRenameStat, RanRenameProbe, RanCopyFile, RanDeleteOld, RanCopyKey
<1> QED
  BY <1>1, <1>2, <1>3, <1>4, <1>5, <1>6 DEF Continue

\* What is promised where an operation returns at once.
LEMMA EarlyPromise ==
  ASSUME NEW s, NEW b, NEW q
  PROVE  /\ q.op = "stor" /\ q.path = <<>> => Promised(s, b, q) = Outcome("EISDIR", b)
         /\ ReadOnly[s] /\ ~(q.op = "stor" /\ q.path = <<>>) => Promised(s, b, q) = Outcome("readonly", b)
         /\ ~ReadOnly[s] /\ q.op \in {"mkdir", "mkdirall"} /\ q.path = <<>> =>
              Promised(s, b, q) = Outcome("ok", b)
         /\ ~ReadOnly[s] /\ q.op \in {"remove", "rmdir", "removeall"} /\ q.path = <<>> =>
              Promised(s, b, q) = Outcome("EACCES", b)
         /\ ~ReadOnly[s] /\ q.op = "rename" /\ q.path = q.new => Promised(s, b, q) = Outcome("ok", b)
         /\ ~ReadOnly[s] /\ q.op = "rename" /\ q.path # q.new /\ <<>> \in {q.path, q.new} =>
              Promised(s, b, q) = Outcome("EACCES", b)
<1> DEFINE P == Promised(s, b, q)
           r == Root[s]
<1>1. ReadOnly[s] => P = Outcome(IF q.op = "stor" /\ q.path = <<>> THEN "EISDIR" ELSE "readonly", b)
  BY Zenon DEF Promised
<1>2. ~ReadOnly[s] /\ q.op = "stor" /\ q.path = <<>> => P = Outcome("EISDIR", b)
  <2>1. q.path = <<>> => StorOutcome(b, r, q.path, q.data) = Outcome("EISDIR", b)
    BY Zenon DEF StorOutcome
  <2> QED
    BY <2>1, PromisedFor
<1>3. ~ReadOnly[s] /\ q.op \in {"mkdir", "mkdirall"} /\ q.path = <<>> => P = Outcome("ok", b)
  <2>1. q.path = <<>> => MkdirOutcome(b, r, q.path, DirMarker[s]) = Outcome("ok", b)
    BY Zenon DEF MkdirOutcome
  <2>2. q.path = <<>> => MkdirAllOutcome(b, r, q.path, DirMarker[s]) = Outcome("ok", b)
    BY Zenon DEF MkdirAllOutcome
  <2> QED
    BY <2>1, <2>2, PromisedFor
<1>4. ~ReadOnly[s] /\ q.op \in {"remove", "rmdir", "removeall"} /\ q.path = <<>> => P = Outcome("EACCES", b)
  <2>1. q.path = <<>> => RemoveDirOutcome(b, r, q.path) = Outcome("EACCES", b)
    BY Zenon DEF RemoveDirOutcome
  <2>2. q.path = <<>> => RemoveOutcome(b, r, q.path) = Outcome("EACCES", b)
    BY <2>1, Zenon DEF RemoveOutcome
  <2>3. q.path = <<>> => RemoveAllOutcome(b, r, q.path) = Outcome("EACCES", b)
    BY Zenon DEF RemoveAllOutcome
  <2> QED
    BY <2>1, <2>2, <2>3, PromisedFor
<1>5. ~ReadOnly[s] /\ q.op = "rename" /\ q.path = q.new => P = Outcome("ok", b)
  <2>1. q.path = q.new => RenameOutcome(b, r, q.path, q.new) = Outcome("ok", b)
    BY Zenon DEF RenameOutcome
  <2> QED
    BY <2>1, PromisedFor
<1>6. ~ReadOnly[s] /\ q.op = "rename" /\ q.path # q.new /\ <<>> \in {q.path, q.new} => P = Outcome("EACCES", b)
  <2>1. q.path # q.new /\ <<>> \in {q.path, q.new} =>
          RenameOutcome(b, r, q.path, q.new) = Outcome("EACCES", b)
    BY Zenon DEF RenameOutcome
  <2> QED
    BY <2>1, PromisedFor
<1> HIDE DEF P, r
<1>7. ReadOnly[s] /\ q.op = "stor" /\ q.path = <<>> => P = Outcome("EISDIR", b)
  BY <1>1, Zenon
<1>8. ReadOnly[s] /\ ~(q.op = "stor" /\ q.path = <<>>) => P = Outcome("readonly", b)
  BY <1>1, Zenon
<1> QED
  BY <1>2, <1>3, <1>4, <1>5, <1>6, <1>7, <1>8, Zenon DEF P

\* An operation that returns at once has done what is promised; one that
\* does not, has everything before it.
LEMMA BeginDoes ==
  ASSUME Inv, NEW s \in Sessions, NEW op, NEW p, NEW n, NEW c, NEW early, NEW pc,
         Begin(s, op, p, n, c, early, pc),
         \/ pc = "stat_head" /\ op \in {"mkdirall", "remove", "rmdir", "removeall", "rename"}
         \/ pc = "mkdir_head" /\ op = "mkdir"
         \/ pc = "put_object" /\ op = "stor",
         early = "none" /\ op = "rename" => p # n,
         \A q : early # "none" /\ q.op = op /\ q.path = p /\ q.new = n =>
                  Promised(s, bucket, q) = Outcome(early, bucket)
  PROVE  Doing(s, pre'[s], sess'[s], bucket')
<1> DEFINE r == sess'[s]
           b == pre'[s]
<1>1. b = bucket /\ bucket' = bucket
  BY DEF Begin, Inv, TypeOK
<1>2. /\ r.op = op /\ r.path = p /\ r.new = n /\ r.listed = {} /\ r.token = <<>> /\ r.reply = early
      /\ r.pc = IF early = "none" THEN pc ELSE "idle"
  BY DEF Begin, Inv, TypeOK, Fresh
<1> HIDE DEF r, b
<1>3. CASE early = "none"
  <2>1. Suits(r)
    BY <1>2, <1>3 DEF Suits, StatCalls, RenameCalls
  <2>2. Knows(s, b, r)
    BY <1>2, <1>3 DEF Knows
  <2>3. Finds(s, b, r) /\ Answers(s, b, r, bucket')
    BY <1>2, <1>3 DEF Finds, Answers
  <2>4. Reached(s, b, r, bucket')
    BY <1>1, <1>2, <1>3 DEF Reached
  <2> QED
    BY <2>1, <2>2, <2>3, <2>4 DEF Doing, r, b
<1>4. CASE early # "none"
  <2>1. Suits(r)
    BY <1>2, <1>4 DEF Suits, StatCalls, RenameCalls
  <2>2. Knows(s, b, r)
    BY <1>2, <1>4 DEF Knows
  <2>3. Finds(s, b, r) /\ Reached(s, b, r, bucket')
    BY <1>2, <1>4 DEF Finds, Reached
  <2>4. Promised(s, b, r) = Outcome(early, bucket)
    BY <1>1, <1>2, <1>4
  <2>5. Answers(s, b, r, bucket')
    BY <1>1, <1>2, <2>4, OutcomeFacts DEF Answers, Gives
  <2> QED
    BY <2>1, <2>2, <2>3, <2>5 DEF Doing, r, b
<1> QED
  BY <1>3, <1>4

\* Every operation, at its start.
LEMMA StartDoes ==
  ASSUME Inv, NEW s \in Sessions, Start(s)
  PROVE  Doing(s, pre'[s], sess'[s], bucket')
<1> DEFINE Early(op, p, n, early) ==
             \A q : early # "none" /\ q.op = op /\ q.path = p /\ q.new = n =>
                      Promised(s, bucket, q) = Outcome(early, bucket)
<1>1. ASSUME NEW p, NEW op \in {"mkdir", "mkdirall"}
      PROVE  Early(op, p, <<>>, Guarded(s, p, "ok"))
  BY EarlyPromise DEF Guarded
<1>2. ASSUME NEW p, NEW op \in {"remove", "rmdir", "removeall"}
      PROVE  Early(op, p, <<>>, Guarded(s, p, "EACCES"))
  BY EarlyPromise DEF Guarded
<1>3. ASSUME NEW p, NEW n
      PROVE  Early("rename", p, n, RenameGuard(s, p, n)) /\ (RenameGuard(s, p, n) = "none" => p # n)
  <2>1. /\ ReadOnly[s] => RenameGuard(s, p, n) = "readonly"
        /\ ~ReadOnly[s] /\ p = n => RenameGuard(s, p, n) = "ok"
    BY Zenon DEF RenameGuard
  <2>2. ~ReadOnly[s] /\ p # n /\ <<>> \in {p, n} => RenameGuard(s, p, n) = "EACCES"
    BY Zenon DEF RenameGuard
  <2>3. ~ReadOnly[s] /\ p # n /\ <<>> \notin {p, n} => RenameGuard(s, p, n) = "none"
    BY Zenon DEF RenameGuard
  <2> QED
    BY <2>1, <2>2, <2>3, EarlyPromise
<1>4. ASSUME NEW p
      PROVE  Early("stor", p, <<>>, StorGuard(s, p))
  BY EarlyPromise DEF StorGuard
<1>5. CASE \E p \in ClientPaths : Mkdir(s, p) \/ MkdirAll(s, p)
  BY <1>1, <1>5, BeginDoes DEF Mkdir, MkdirAll
<1>6. CASE \E p \in ClientPaths : Remove(s, p) \/ RemoveDir(s, p) \/ RemoveAll(s, p)
  BY <1>2, <1>6, BeginDoes DEF Remove, RemoveDir, RemoveAll
<1>7. CASE \E p, n \in ClientPaths : Rename(s, p, n)
  BY <1>3, <1>7, BeginDoes DEF Rename
<1>8. CASE \E p \in ClientPaths, c \in Content : Stor(s, p, c)
  BY <1>4, <1>8, BeginDoes DEF Stor
<1> QED
  BY <1>5, <1>6, <1>7, <1>8 DEF Start

\* What others do outside the session's view does not matter.
LEMMA DoesStill ==
  ASSUME NEW s, NEW b, NEW q, NEW c, NEW d, Mine(s, d) = Mine(s, c), Doing(s, b, q, c)
  PROVE  Doing(s, b, q, d)
<1>1. Reached(s, b, q, d)
  BY DEF Doing, Reached
<1>2. Answers(s, b, q, d)
  BY DEF Doing, Answers, FileGone, Gives
<1> QED
  BY <1>1, <1>2 DEF Doing

\* PromiseInv is inductive relative to Inv.
LEMMA PromiseStep ==
  ASSUME Inv, Inv', Finite, "keyerr" \notin Faults, PromiseInv, NEW s \in Sessions, Start(s) \/ Continue(s)
  PROVE  PromiseInv'
<1> SUFFICES ASSUME NEW t \in Sessions, Alone(t)
             PROVE  Doing(t, pre'[t], sess'[t], bucket')
  <2>1. \A t \in Sessions : Alone(t)' <=> Alone(t)
    BY DEF Alone, HasPrefix
  <2>2. \A t \in Sessions : Doing(t, pre[t], sess[t], bucket)' <=> Doing(t, pre'[t], sess'[t], bucket')
    OBVIOUS
  <2> QED
    BY <2>1, <2>2 DEF PromiseInv
<1>1. Doing(t, pre[t], sess[t], bucket)
  BY DEF PromiseInv
<1>2. CASE t # s
  <2>1. sess'[t] = sess[t] /\ pre'[t] = pre[t]
    BY <1>2, Frame, StartFrame, ContinueFrame
  <2>2. bucket' = bucket \/ Confined(s)
    BY NextStep
  <2>3. Mine(t, bucket') = Mine(t, bucket)
    BY <1>2, <2>2, NotMine
  <2> QED
    BY <1>1, <2>1, <2>3, DoesStill
<1>3. CASE t = s /\ Start(s)
  BY <1>3, StartDoes
<1>4. CASE t = s /\ Continue(s)
  <2>1. Running(s)
    BY <1>1, <1>4 DEF Running
  <2>2. Ran(s) /\ pre' = pre
    BY <1>4, <2>1, RanStep, ContinueFrame
  <2> QED
    BY <1>4, <2>2 DEF Ran
<1> QED
  BY <1>2, <1>3, <1>4

\* The bucket never holds infinitely many keys.
LEMMA StaysFinite == Spec => []Finite
<1>1. Init => Finite
  BY S3FSAssumption DEF Init, Finite
<1>2. ASSUME Finite, [Next]_vars
      PROVE  Finite'
  <2>1. CASE Next
    BY <1>2, <2>1, FiniteStep DEF Next
  <2>2. CASE UNCHANGED vars
    BY <1>2, <2>2 DEF vars, Finite
  <2> QED
    BY <1>2, <2>1, <2>2
<1> QED
  BY <1>1, <1>2, PTL DEF Spec

\* Every operation of a session that is alone under its prefix (Mkdir,
\* MkdirAll, Remove, RemoveDir, RemoveAll, Rename of dir.go, and the upload's
\* visible effect) that reports no S3 error gave the reply and left the
\* objects the atomic operation of FileTree promises: for buckets and
\* directories of any size, pages and batches of any size, and whichever
\* calls fail or lose their answers.  DeleteObjects must not keep keys
\* silently: deleteKeys would not notice (dir.go:426-434).  MatchesPromise
\* names the two cases in which the code does something else: a MkdirAll
\* misled by a failed probe, and a RemoveAll of a name that is a file and a
\* directory, which deletes the file only (dir.go:268-269).
THEOREM OperationsDeliver ==
  ASSUME "keyerr" \notin Faults
  PROVE  Spec => []MatchesPromise
<1>1. Init => PromiseInv
  <2> SUFFICES ASSUME Init, NEW s \in Sessions
               PROVE  Doing(s, pre[s], sess[s], bucket)
    BY DEF PromiseInv
  <2>1. sess[s] = Fresh
    BY DEF Init
  <2>2. Suits(sess[s]) /\ Knows(s, pre[s], sess[s])
    BY <2>1 DEF Fresh, Suits, Knows, StatCalls, RenameCalls
  <2>3. Finds(s, pre[s], sess[s]) /\ Reached(s, pre[s], sess[s], bucket)
    BY <2>1 DEF Fresh, Finds, Reached
  <2>4. Answers(s, pre[s], sess[s], bucket)
    BY <2>1 DEF Fresh, Answers
  <2> QED
    BY <2>2, <2>3, <2>4 DEF Doing
<1>2. ASSUME Inv, Inv', Finite, PromiseInv, [Next]_vars
      PROVE  PromiseInv'
  <2>1. CASE Next
    BY <1>2, <2>1, PromiseStep DEF Next
  <2>2. CASE UNCHANGED vars
    <3>1. \A t \in Sessions : Alone(t)' <=> Alone(t)
      BY DEF Alone, HasPrefix
    <3> QED
      BY <1>2, <2>2, <3>1 DEF vars, PromiseInv
  <2> QED
    BY <1>2, <2>1, <2>2
<1>3. PromiseInv => MatchesPromise
  <2> SUFFICES ASSUME PromiseInv, NEW s \in Sessions, Alone(s), Idle(s), sess[s].reply \notin {"none", "s3"}
               PROVE  Delivers(s, Promise(s)) \/ Misled(s) \/ RemovesFileOnly(s)
    BY DEF MatchesPromise
  <2>1. Answers(s, pre[s], sess[s], bucket)
    BY DEF PromiseInv, Doing
  <2>2. FileGone(s, pre[s], sess[s], bucket, sess[s].reply) => RemovesFileOnly(s)
    BY DEF FileGone, RemovesFileOnly, Gives, Delivers, KindOf, Listed
  <2> QED
    BY <2>1, <2>2 DEF Answers, Gives, Delivers, Misled, Promise, Idle, At
<1> QED
  BY <1>1, <1>2, <1>3, Invariance, StaysFinite, PTL DEF Spec

=============================================================================
