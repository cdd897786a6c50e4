------------------------------ MODULE FileTree -----------------------------
(***************************************************************************)
(* What the filesystem operations promise: each as one atomic step on the  *)
(* bucket, its reply and its effect together.  Module S3FS is what the     *)
(* code does, call by call; it is compared with this one.                  *)
(***************************************************************************)
EXTENDS S3Bucket

Outcome(reply, b) == [reply |-> reply, bucket |-> b]

Kind(b, root, p) ==
  IF joinRoot(root, p) \in DOMAIN b THEN "file"
  ELSE IF KeysUnder(b, dirKey(root, p)) # {} THEN "dir"
  ELSE "none"

\* A directory without a marker object cannot be created.
MkdirOutcome(b, root, p, marker) ==
  CASE p = <<>> -> Outcome("ok", b)
    [] p # <<>> /\ Kind(b, root, p) # "none" -> Outcome("EEXIST", b)
    [] OTHER -> Outcome("ok", IF marker THEN PutObject(b, dirKey(root, p), Empty) ELSE b)

MkdirAllOutcome(b, root, p, marker) ==
  IF p = <<>> \/ Kind(b, root, p) # "none"
    THEN Outcome("ok", b)
    ELSE MkdirOutcome(b, root, p, marker)

\* Only a directory that holds nothing but its marker is removed.
RemoveDirOutcome(b, root, p) ==
  CASE p = <<>> -> Outcome("EACCES", b)
    [] p # <<>> /\ Kind(b, root, p) = "none" -> Outcome("ENOENT", b)
    [] p # <<>> /\ Kind(b, root, p) = "file" -> Outcome("ENOTDIR", b)
    [] p # <<>> /\ Kind(b, root, p) = "dir" ->
         IF KeysUnder(b, dirKey(root, p)) = {dirKey(root, p)}
           THEN Outcome("ok", DeleteObjects(b, {dirKey(root, p)}))
           ELSE Outcome("ENOTEMPTY", b)

RemoveOutcome(b, root, p) ==
  IF p # <<>> /\ Kind(b, root, p) = "file"
    THEN Outcome("ok", DeleteObjects(b, {joinRoot(root, p)}))
    ELSE RemoveDirOutcome(b, root, p)

\* A path and everything below it, whether it is a file, a directory or both.
RemoveAllOutcome(b, root, p) ==
  IF p = <<>>
    THEN Outcome("EACCES", b)
    ELSE Outcome("ok", DeleteObjects(b, {joinRoot(root, p)} \cup KeysUnder(b, dirKey(root, p))))

\* The keys a rename moves, and where each goes.
MovedKeys(b, root, p) ==
  IF Kind(b, root, p) = "file" THEN {joinRoot(root, p)} ELSE KeysUnder(b, dirKey(root, p))

MovedTo(b, root, p, n, k) ==
  IF Kind(b, root, p) = "file"
    THEN joinRoot(root, n)
    ELSE Retarget(k, dirKey(root, p), dirKey(root, n))

Moved(b, root, p, n) ==
  LET from == MovedKeys(b, root, p)
      to   == {MovedTo(b, root, p, n, k) : k \in from}
      old(t) == CHOOSE k \in from : MovedTo(b, root, p, n, k) = t
  IN  [k \in (DOMAIN b \ from) \cup to |-> IF k \in to THEN b[old(k)] ELSE b[k]]

\* A file may replace a file; nothing may be moved onto a directory, nor a
\* directory into itself.
RenameOutcome(b, root, p, n) ==
  CASE p = n -> Outcome("ok", b)
    [] p # n /\ <<>> \in {p, n} -> Outcome("EACCES", b)
    [] p # n /\ <<>> \notin {p, n} ->
         CASE Kind(b, root, p) = "none" -> Outcome("ENOENT", b)
           [] Kind(b, root, p) = "dir" /\ HasPrefix(dirKey(root, n), dirKey(root, p)) ->
                Outcome("EINVAL", b)
           [] Kind(b, root, p) = "file" /\ KeysUnder(b, dirKey(root, n)) # {} ->
                Outcome("EISDIR", b)
           [] Kind(b, root, p) = "dir" /\ ~HasPrefix(dirKey(root, n), dirKey(root, p))
                /\ KeysUnder(b, dirKey(root, n)) # {} -> Outcome("ENOTEMPTY", b)
           [] OTHER -> Outcome("ok", Moved(b, root, p, n))

StorOutcome(b, root, p, c) ==
  IF p = <<>> THEN Outcome("EISDIR", b) ELSE Outcome("ok", PutObject(b, joinRoot(root, p), c))

=============================================================================
