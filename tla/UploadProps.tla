---------------------------- MODULE UploadProps ----------------------------
(***************************************************************************)
(* The properties of module Upload.                                        *)
(***************************************************************************)
EXTENDS Upload

Phase ==
  CASE reply = "ok" -> "ended"
    [] reply # "ok" /\ err # "none" -> "failed"
    [] reply # "ok" /\ err = "none" /\ werr = "EOF" -> "finishing"
    [] OTHER -> "streaming"

Atomic == INSTANCE AtomicUpload WITH acked <- written, phase <- Phase

\* The handle of upload.go, its pipe and its two goroutines implement an
\* upload that replaces the object once and whole, with everything the client
\* was told is written, and never after TransferError; Close returns nil only
\* for an upload that did.
Implements == Atomic!Spec

\* When Close has returned, no parts are left behind (README.md:187), unless S3
\* failed the one call that aborts the upload (backend.go:101 asks for it): the
\* context outlives the uploader (upload.go:257-258).  An upload may also stay
\* open because the answer that named it was lost: it holds no part.
NoOrphanedParts ==
  pc = "closed" => /\ mpu = "open" => abortFailed
                   /\ mpu = "unnamed" => parts = 0

\* A resume behind the end of the object is refused by Seek (upload.go:188),
\* but its handle is closed like any other and stores what it read: the object
\* keeps its content, unless another writer changed it meanwhile.
RefusedResumeKeeps ==
  [][committed' /\ ~committed /\ mode = "rest" /\ prefixLen < offset /\ others = MaxOthers =>
       object' = object]_vars

\* The error a client is told is the first one: it is never replaced
\* (upload.go:120-124, 233-237), and Close never forgets it.
ErrorSticks == [][err # "none" => err' = err /\ reply' # "ok"]_vars

\* A Write always returns, although its data is taken by a goroutine that may
\* fail at any point (upload.go:126 closes the pipe for it).
WritesReturn == pc = "write" ~> pc # "write"

\* Close always returns, and a failed transfer is always closed: neither side
\* of the pipe waits for the other for ever.
CloseEnds == pc \in {"fail", "close", "wait"} ~> pc = "closed"

\* Resuming keeps the object up to the offset and puts the client's data
\* behind it: "existing [0,offset) + new data" (README.md:155).
ResumesAtOffset ==
  \A c \in object :
    reply = "ok" /\ mode = "rest" =>
      \A i \in 1 .. Len(c) : c[i][1] = "new" => i > offset

=============================================================================
