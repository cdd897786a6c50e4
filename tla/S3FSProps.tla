----------------------------- MODULE S3FSProps -----------------------------
(***************************************************************************)
(* The properties of module S3FS.                                          *)
(***************************************************************************)
EXTENDS S3FS, FileTree

Idle(s) == At(s, "idle")

\* What a session can see and reach: the part of a bucket under its root.
Mine(s, b) == [k \in KeysUnder(b, Root[s]) |-> b[k]]

\* What FileTree promises for the request q of session s on the bucket b.
Promised(s, b, q) ==
  LET r == Root[s]
      p == q.path
  IN  IF ReadOnly[s]
      THEN Outcome(IF q.op = "stor" /\ p = <<>> THEN "EISDIR" ELSE "readonly", b)
      ELSE CASE q.op = "mkdir" -> MkdirOutcome(b, r, p, DirMarker[s])
             [] q.op = "mkdirall" -> MkdirAllOutcome(b, r, p, DirMarker[s])
             [] q.op = "remove" -> RemoveOutcome(b, r, p)
             [] q.op = "rmdir" -> RemoveDirOutcome(b, r, p)
             [] q.op = "removeall" -> RemoveAllOutcome(b, r, p)
             [] q.op = "rename" -> RenameOutcome(b, r, p, q.new)
             [] q.op = "stor" -> StorOutcome(b, r, p, q.data)

\* The promise for the operation session s ran last, from the bucket it found.
Promise(s) == Promised(s, pre[s], sess[s])

\* No other session writes where s reads.
Alone(s) ==
  \A t \in Sessions \ {s} :
    ReadOnly[t] \/ ~(HasPrefix(Root[t], Root[s]) \/ HasPrefix(Root[s], Root[t]))

Delivers(s, outcome) ==
  sess[s].reply = outcome.reply /\ Mine(s, bucket) = Mine(s, outcome.bucket)

\* MkdirAll takes a failing Stat for a missing path, and Mkdir then decides.
Misled(s) ==
  "error" \in Faults /\ sess[s].op = "mkdirall" /\ Delivers(s, Outcome("EEXIST", pre[s]))

\* RemoveAll of a name that is a file and a directory removes the file only
\* (dir.go:268-269), although it "removes a path and everything below it"
\* (dir.go:249).
RemovesFileOnly(s) ==
  /\ sess[s].op = "removeall"
  /\ Kind(pre[s], Root[s], sess[s].path) = "file"
  /\ KeysUnder(pre[s], keyDir(s, sess[s].path)) # {}
  /\ Delivers(s, Outcome("ok", DeleteObjects(pre[s], {key(s, sess[s].path)})))

\* An operation that reports no S3 error gave the reply and left the bucket
\* the atomic operation promises (Stat, Mkdir, MkdirAll, Remove, RemoveDir,
\* RemoveAll, Rename of fs.go and dir.go), paging and batching included, for
\* every session that is alone under its prefix and whatever calls failed:
\* no error of the call chains is swallowed.  The two cases in which the code
\* does something else are named, with what it does.
MatchesPromise ==
  \A s \in Sessions :
    Alone(s) /\ Idle(s) /\ sess[s].reply \notin {"none", "s3"} =>
      Delivers(s, Promise(s)) \/ Misled(s) \/ RemovesFileOnly(s)

\* An operation the gateway refuses (an errno of dir.go, or read-only) has
\* changed nothing: every check comes before the first mutating call.
RefusalsChangeNothing ==
  \A s \in Sessions :
    Alone(s) /\ Idle(s) /\ sess[s].reply \in Refusals => Mine(s, bucket) = Mine(s, pre[s])

\* At every moment of a Rename (dir.go:299-368), and however it ends, each
\* object it found under the old name is whole under the old or the new
\* name, and no object outside both was touched.
RenameLosesNothing ==
  \A s \in Sessions :
    Alone(s) /\ sess[s].op = "rename" /\ Promise(s).reply = "ok" /\ sess[s].path # sess[s].new =>
      LET b     == pre[s]
          from  == MovedKeys(b, Root[s], sess[s].path)
          to(k) == MovedTo(b, Root[s], sess[s].path, sess[s].new, k)
          Holds(k, c) == k \in DOMAIN bucket /\ bucket[k] = c
      IN  /\ \A k \in from : Holds(k, b[k]) \/ Holds(to(k), b[k])
          /\ \A k \in DOMAIN Mine(s, b) \ (from \cup {to(j) : j \in from}) : Holds(k, b[k])

\* Objects whose key ends in "/" are directory markers and hold no data, in
\* every interleaving: uploads never write one and Rename moves markers to
\* markers and files to files (dir.go:360-365, path.go:43-50).
MarkersEmpty == \A k \in DOMAIN bucket : EndsInSlash(k) => bucket[k] = Empty

\* Removing a directory (RemoveDir, dir.go:200-247) never destroys a file,
\* even when one is uploaded into it between the emptiness check and the
\* deletion of the marker.
RmdirKeepsFiles ==
  [][\A s \in Sessions :
       sess[s].op = "rmdir" /\ sess'[s] # sess[s] =>
         \A k \in DOMAIN bucket : ~EndsInSlash(k) => k \in DOMAIN bucket' /\ bucket'[k] = bucket[k]]_vars

Changed(b, c) == {k \in DOMAIN b \cup DOMAIN c :
                    k \notin DOMAIN b \/ k \notin DOMAIN c \/ b[k] # c[k]}

\* Every object that changes is changed by a session that may write, under
\* that session's own root prefix (AuthUser's rootPrefix and readOnly).
Isolation ==
  [][\A k \in Changed(bucket, bucket') :
       \E s \in Sessions : sess'[s] # sess[s] /\ ~ReadOnly[s] /\ HasPrefix(k, Root[s])]_vars

\* Every operation ends: the paging, copy and delete loops of dir.go make
\* progress with every call while other sessions change the bucket.
OperationsEnd == \A s \in Sessions : sess[s].pc # "idle" ~> sess[s].pc = "idle"

\* Mkdir refuses to create a directory that a file of the same name would
\* shadow (dir.go:114-115): the marker is never put beside such a file.
MkdirNeverShadowed ==
  [][\A s \in Sessions :
       At(s, "mkdir_put") /\ sess'[s].reply = "ok" => key(s, sess[s].path) \notin DOMAIN bucket]_vars

\* RemoveAll "removes a path and everything below it" (dir.go:249).
RemoveAllRemovesAll ==
  \A s \in Sessions :
    Idle(s) /\ sess[s].op = "removeall" /\ sess[s].reply = "ok" =>
      Kind(bucket, Root[s], sess[s].path) = "none"

=============================================================================
