------------------------------- MODULE Upload ------------------------------
(***************************************************************************)
(* One upload handle (internal/s3fs/upload.go): the FTP transfer goroutine *)
(* that opens, writes and closes it, the run goroutine that feeds the S3   *)
(* uploader, and the io.Pipe between them.                                 *)
(*                                                                         *)
(* Content is a sequence of units; the unit <<"new", i>> is the i-th the   *)
(* client sends.  The pipe, the uploader (aws-sdk-go-v2 manager.Uploader,  *)
(* which leaves no parts on error) and the order of the calls the FTP      *)
(* library makes on the handle are external.                               *)
(***************************************************************************)
EXTENDS Integers, Sequences

CONSTANTS Objects,     \* contents the object may have at the start
          Units,       \* contents another writer may store
          Modes,       \* which of "stor", "appe", "rest" are opened
          Offsets,     \* REST offsets, none of them 0
          Faults,      \* which of "error", "lost", "noabort" S3 may show
          PartSize,    \* units per part
          Concurrency, \* parts in flight
          MaxParts,    \* parts per upload (manager.MaxUploadParts)
          MaxChunk,    \* bound: units per Write
          MaxData,     \* bound: units the client sends
          MaxOthers    \* bound: changes by other writers

Unit == {"old", "new", "other"} \X Nat

Content == Seq(Unit)

ASSUME UploadAssumption ==
  /\ \A o \in Objects : o \subseteq Content /\ \A c, d \in o : c = d
  /\ Units \subseteq Content
  /\ Modes \subseteq {"stor", "appe", "rest"}
  /\ Offsets \subseteq Nat \ {0}
  /\ Faults \subseteq {"error", "lost", "noabort"}
  /\ {PartSize, Concurrency, MaxParts, MaxChunk} \subseteq Nat \ {0}
  /\ MaxData \in Nat /\ MaxOthers \in Nat

VARIABLES
  object,     \* the visible object's content, as a set of at most one content
  mpu,        \* the multipart upload: "none", "open", "completed", "aborted",
              \* or "unnamed": open, and its id lost with the answer
  others,     \* changes other writers may still make
  \* the transfer goroutine
  pc,         \* where it is
  mode, offset,
  offer,      \* units of the current Write not yet taken from the pipe
  seen,       \* Close's local copy of the recorded error
  reply,      \* what Close returned: "none", "ok", "error"
  \* the uploadFile
  prefixLen, err, closed, written, cancelled,
  \* the pipe
  rerr, werr, \* how its reader and writer ends were closed
  \* the run goroutine
  run,        \* where it is
  snap,       \* what is left of the old content to prepend
  body,       \* what it has read
  buf,        \* units of the part being read
  eof,        \* whether the body ended
  parts, inflight, bad, \* parts sent, parts unanswered, whether one failed
  \* history
  base,       \* the old content it was given to keep
  committed,  \* whether the object was replaced
  gaveUp,     \* whether the transfer ended in a TransferError
  abortFailed \* whether S3 failed to abort the multipart upload

callerVars == <<pc, mode, offset, offer, seen, reply, gaveUp>>
fileVars == <<prefixLen, err, closed, written, cancelled>>
pipeVars == <<rerr, werr>>
runVars == <<run, snap, body, buf, eof, parts, inflight, bad, base>>
storeVars == <<object, mpu, committed, abortFailed>>
vars == <<object, mpu, others, pc, mode, offset, offer, seen, reply, prefixLen, err, closed,
          written, cancelled, rerr, werr, run, snap, body, buf, eof, parts, inflight, bad,
          base, committed, gaveUp, abortFailed>>

CallerPCs == {"open", "seek", "ready", "write", "fail", "close_pipes", "close",
              "close_pipe", "wait", "closed", "refused"}

RunPCs == {"unborn", "get", "read", "put", "create", "send", "drain", "complete",
           "abort", "fail", "fail_close", "finish", "done"}

CountsOK ==
  /\ others \in 0 .. MaxOthers
  /\ offer \in 0 .. MaxChunk
  /\ prefixLen \in Nat
  /\ written \in 0 .. MaxData
  /\ buf \in 0 .. PartSize
  /\ parts \in 0 .. MaxParts
  /\ inflight \in 0 .. Concurrency

ContentsOK == object \subseteq Content /\ {snap, body, base} \subseteq Content

StatesOK ==
  /\ mpu \in {"none", "open", "unnamed", "completed", "aborted"}
  /\ pc \in CallerPCs /\ mode \in Modes /\ offset \in Offsets \cup {0}
  /\ seen \in BOOLEAN /\ reply \in {"none", "ok", "error"}
  /\ err \in {"none", "transfer", "s3"} /\ closed \in BOOLEAN /\ cancelled \in BOOLEAN
  /\ rerr \in {"none", "error"} /\ werr \in {"none", "EOF", "error"}
  /\ run \in RunPCs /\ eof \in BOOLEAN /\ bad \in BOOLEAN
  /\ committed \in BOOLEAN /\ gaveUp \in BOOLEAN /\ abortFailed \in BOOLEAN

TypeOK == CountsOK /\ ContentsOK /\ StatesOK

Init ==
  /\ object \in Objects
  /\ mpu = "none" /\ others = MaxOthers
  /\ pc = "open" /\ mode \in Modes
  /\ IF mode = "rest" THEN offset \in Offsets ELSE offset = 0
  /\ offer = 0 /\ seen = FALSE /\ reply = "none"
  /\ prefixLen = 0 /\ err = "none" /\ closed = FALSE /\ written = 0 /\ cancelled = FALSE
  /\ rerr = "none" /\ werr = "none"
  /\ run = "unborn" /\ snap = <<>> /\ body = <<>> /\ buf = 0 /\ eof = FALSE
  /\ parts = 0 /\ inflight = 0 /\ bad = FALSE
  /\ base = <<>> /\ committed = FALSE /\ gaveUp = FALSE /\ abortFailed = FALSE

Least2(m, n) == IF m < n THEN m ELSE n

(***************************************************************************)
(* The pipe (external, io.Pipe)                                            *)
(***************************************************************************)
PipeDone == rerr # "none" \/ werr # "none"

\* What Read reports once the pipe is done: the writer's error, "EOF" for a
\* plain Close, unless the reader end was closed too.
ReadEnds == IF rerr = "none" THEN werr ELSE "error"

CloseReader == rerr' = IF rerr = "none" THEN "error" ELSE rerr

CloseWriter(e) == werr' = IF werr = "none" THEN e ELSE werr

\* Mutant: the last error is kept.
RecordLast(e) == err' = e

\* The first error is kept (fail, TransferError).
Record(e) == err' = IF err = "none" THEN e ELSE err

(***************************************************************************)
(* The transfer goroutine                                                  *)
(***************************************************************************)
Goes(next) == pc' = next /\ UNCHANGED <<mode, offset, offer, seen, reply, gaveUp>>

\* openUpload; the run goroutine is born with the handle.
Opened(n, next) ==
  /\ prefixLen' = n
  /\ run' = IF n > 0 THEN "get" ELSE "read"
  /\ Goes(next)
  /\ UNCHANGED <<storeVars, others, err, closed, written, cancelled, pipeVars>>
  /\ UNCHANGED <<snap, body, buf, eof, parts, inflight, bad, base>>

Refused ==
  /\ cancelled' = TRUE
  /\ Goes("refused")
  /\ UNCHANGED <<storeVars, others, prefixLen, err, closed, written, pipeVars, runVars>>

OpenTruncate == pc = "open" /\ mode = "stor" /\ Opened(0, "ready")

\* The size of the object comes from a HeadObject; a failing one refuses.
OpenAppend ==
  /\ pc = "open" /\ mode = "appe"
  /\ \/ object = {} /\ Opened(0, "ready")
     \/ \E c \in object : Opened(Len(c), "ready")
     \/ "error" \in Faults /\ Refused

\* Mutant: what is kept is computed from the wrong end of the object.
OpenResumeFromEnd ==
  /\ pc = "open" /\ mode = "rest"
  /\ \E c \in object : Opened(Len(c) - offset, "seek")

\* Mutant: one unit less is kept.
OpenResumeShort ==
  /\ pc = "open" /\ mode = "rest"
  /\ \/ object = {} /\ Refused
     \/ \E c \in object : Opened(Least2(offset - 1, Len(c)), "seek")

OpenResume ==
  /\ pc = "open" /\ mode = "rest"
  /\ \/ object = {} /\ Refused
     \/ \E c \in object : Opened(Least2(offset, Len(c)), "seek")
     \/ "error" \in Faults /\ Refused

\* Only the resume position is accepted; after an error the handle is closed.
Seek ==
  /\ pc = "seek"
  /\ Goes(IF offset = prefixLen THEN "ready" ELSE "close")
  /\ UNCHANGED <<storeVars, others, fileVars, pipeVars, runVars>>

Write ==
  /\ pc = "ready"
  /\ \E n \in 1 .. MaxChunk : written + n =< MaxData /\ offer' = n
  /\ pc' = "write"
  /\ UNCHANGED <<storeVars, others, mode, offset, seen, reply, gaveUp, fileVars, pipeVars, runVars>>

\* Write returns: all of it was taken, or the pipe is done and it fails.
WriteReturns ==
  /\ pc = "write"
  /\ \/ offer = 0 /\ Goes("ready") /\ UNCHANGED <<err, rerr>>
     \/ /\ offer > 0 /\ PipeDone
        /\ Record("s3") /\ CloseReader
        /\ Goes("fail")
  /\ UNCHANGED <<storeVars, others, prefixLen, closed, written, cancelled, werr, runVars>>

\* Mutant: the error of the transfer is not recorded, nor the pipe closed.
TransferErrorIgnored ==
  /\ pc \in {"fail", "ready"}
  /\ pc' = "close" /\ gaveUp' = TRUE
  /\ UNCHANGED <<mode, offset, offer, seen, reply>>
  /\ UNCHANGED <<storeVars, others, fileVars, pipeVars, runVars>>

\* TransferError: after a failed Write, or because the client aborted or
\* went away.
TransferError ==
  /\ pc \in {"fail", "ready"}
  /\ Record("transfer")
  /\ pc' = "close_pipes" /\ gaveUp' = TRUE
  /\ UNCHANGED <<mode, offset, offer, seen, reply>>
  /\ UNCHANGED <<storeVars, others, prefixLen, closed, written, cancelled, pipeVars, runVars>>

TransferErrorPipes ==
  /\ pc = "close_pipes"
  /\ CloseReader /\ CloseWriter("error")
  /\ Goes("close")
  /\ UNCHANGED <<storeVars, others, fileVars, runVars>>

\* Mutant: the context is cancelled before the uploader is waited for.
CloseCancels ==
  /\ pc \in {"ready", "close"}
  /\ closed' = TRUE /\ cancelled' = TRUE
  /\ seen' = (err # "none")
  /\ pc' = "close_pipe"
  /\ UNCHANGED <<storeVars, others, mode, offset, offer, reply, gaveUp, prefixLen, err, written>>
  /\ UNCHANGED <<pipeVars, runVars>>

\* Close, up to its look at the recorded error.
Close ==
  /\ pc \in {"ready", "close"}
  /\ closed' = TRUE
  /\ seen' = (err # "none")
  /\ pc' = "close_pipe"
  /\ UNCHANGED <<storeVars, others, mode, offset, offer, reply, gaveUp, prefixLen, err, written, cancelled>>
  /\ UNCHANGED <<pipeVars, runVars>>

\* Mutant: the writer end is closed after an error only.
ClosePipeOnError ==
  /\ pc = "close_pipe"
  /\ IF seen THEN CloseWriter("error") ELSE UNCHANGED werr
  /\ Goes("wait")
  /\ UNCHANGED <<storeVars, others, fileVars, rerr, runVars>>

ClosePipe ==
  /\ pc = "close_pipe"
  /\ CloseWriter(IF seen THEN "error" ELSE "EOF")
  /\ Goes("wait")
  /\ UNCHANGED <<storeVars, others, fileVars, rerr, runVars>>

\* <-done, cancel, and the recorded error.
CloseReturns ==
  /\ pc = "wait" /\ run = "done"
  /\ cancelled' = TRUE
  /\ reply' = IF err = "none" THEN "ok" ELSE "error"
  /\ pc' = "closed"
  /\ UNCHANGED <<storeVars, others, mode, offset, offer, seen, gaveUp, prefixLen, err, closed, written>>
  /\ UNCHANGED <<pipeVars, runVars>>

\* A second Close reports the recorded error and does nothing.
CloseAgain ==
  /\ pc = "closed"
  /\ reply' = IF err = "none" THEN "ok" ELSE "error"
  /\ UNCHANGED <<storeVars, others, pc, mode, offset, offer, seen, gaveUp, fileVars, pipeVars, runVars>>

Caller ==
  \/ OpenTruncate \/ OpenAppend \/ OpenResume \/ Seek \/ WriteReturns
  \/ TransferErrorPipes \/ ClosePipe \/ CloseReturns

(***************************************************************************)
(* The run goroutine, with the uploader (external) it calls                *)
(***************************************************************************)
RunGoes(next) == run' = next /\ UNCHANGED <<snap, body, buf, eof, parts, inflight, bad, base>>

\* An S3 call may fail; with a cancelled context it does.
MayFail == "error" \in Faults \/ cancelled

NotRunning == UNCHANGED <<others, callerVars, fileVars, pipeVars>>

\* The old content comes from a GetObject, later than the HeadObject that
\* measured it; io.LimitReader ends early if there is less of it now.
RunGet ==
  /\ run = "get"
  /\ \/ (MayFail \/ object = {}) /\ RunGoes("fail")
     \/ /\ ~cancelled
        /\ \E c \in object :
             /\ snap' = SubSeq(c, 1, Least2(prefixLen, Len(c)))
             /\ base' = snap'
        /\ run' = "read"
        /\ UNCHANGED <<body, buf, eof, parts, inflight, bad>>
  /\ UNCHANGED storeVars
  /\ NotRunning

\* Reading fails: with parts already sent they are drained and aborted.
ReadFails ==
  /\ run' = IF parts = 0 THEN "fail" ELSE "drain"
  /\ bad' = TRUE
  /\ UNCHANGED <<snap, body, buf, eof, parts, inflight, base>>

ReadPrefix ==
  /\ run = "read" /\ buf < PartSize /\ snap # <<>>
  /\ \/ MayFail /\ ReadFails
     \/ /\ body' = Append(body, Head(snap))
        /\ snap' = Tail(snap)
        /\ buf' = buf + 1
        /\ UNCHANGED <<run, eof, parts, inflight, bad, base>>
  /\ UNCHANGED storeVars
  /\ NotRunning

\* A unit of a pending Write passes through the pipe.
ReadPipe ==
  /\ run = "read" /\ buf < PartSize /\ snap = <<>>
  /\ pc = "write" /\ offer > 0 /\ ~PipeDone
  /\ offer' = offer - 1
  /\ written' = written + 1
  /\ body' = Append(body, <<"new", written + 1>>)
  /\ buf' = buf + 1
  /\ UNCHANGED <<storeVars, others, pc, mode, offset, seen, reply, gaveUp, prefixLen, err, closed, cancelled>>
  /\ UNCHANGED <<pipeVars, run, snap, eof, parts, inflight, bad, base>>

\* The pipe is done.  A body of one part is put in one call.
ReadEnd ==
  /\ run = "read" /\ buf < PartSize /\ snap = <<>> /\ PipeDone
  /\ \/ ReadEnds = "error" /\ ReadFails
     \/ /\ ReadEnds = "EOF"
        /\ eof' = TRUE
        /\ run' = IF parts = 0 THEN "put" ELSE IF buf = 0 THEN "drain" ELSE "send"
        /\ UNCHANGED <<snap, body, buf, parts, inflight, bad, base>>
  /\ UNCHANGED storeVars
  /\ NotRunning

PartFull ==
  /\ run = "read" /\ buf = PartSize
  /\ RunGoes(IF parts = 0 THEN "create" ELSE "send")
  /\ UNCHANGED storeVars
  /\ NotRunning

\* Without an answer there is no upload id: nothing is sent, nor aborted.
CreateUpload ==
  /\ run = "create"
  /\ \/ MayFail /\ RunGoes("fail") /\ UNCHANGED mpu
     \/ ~cancelled /\ RunGoes("send") /\ mpu' = "open"
     \/ "lost" \in Faults /\ RunGoes("fail") /\ mpu' = "unnamed"
  /\ UNCHANGED <<object, committed, abortFailed>>
  /\ NotRunning

\* A part is handed to a worker.  A failure of an earlier part, or the limit
\* on their number, is noticed here.
SendPart ==
  /\ run = "send" /\ inflight < Concurrency
  /\ \/ bad /\ RunGoes("drain")
     \/ /\ ~bad /\ parts = MaxParts
        /\ bad' = TRUE /\ run' = "drain"
        /\ UNCHANGED <<snap, body, buf, eof, parts, inflight, base>>
     \/ /\ ~bad /\ parts < MaxParts
        /\ parts' = parts + 1 /\ inflight' = inflight + 1 /\ buf' = 0
        /\ run' = IF eof THEN "drain" ELSE "read"
        /\ UNCHANGED <<snap, body, eof, bad, base>>
  /\ UNCHANGED storeVars
  /\ NotRunning

\* A worker's UploadPart is answered.
PartAnswered ==
  /\ inflight > 0
  /\ inflight' = inflight - 1
  /\ \/ MayFail /\ bad' = TRUE
     \/ ~cancelled /\ UNCHANGED bad
  /\ UNCHANGED <<run, snap, body, buf, eof, parts, base>>
  /\ UNCHANGED storeVars
  /\ NotRunning

Drained ==
  /\ run = "drain" /\ inflight = 0
  /\ RunGoes(IF bad THEN "abort" ELSE "complete")
  /\ UNCHANGED storeVars
  /\ NotRunning

Commit == object' = {body} /\ committed' = TRUE /\ UNCHANGED abortFailed

\* PutObject and CompleteMultipartUpload take effect, or fail, or take
\* effect and have their answer lost.
PutBody ==
  /\ run = "put"
  /\ \/ MayFail /\ RunGoes("fail") /\ UNCHANGED storeVars
     \/ ~cancelled /\ RunGoes("finish") /\ Commit /\ UNCHANGED mpu
     \/ "lost" \in Faults /\ RunGoes("fail") /\ Commit /\ UNCHANGED mpu
  /\ NotRunning

CompleteUpload ==
  /\ run = "complete"
  /\ \/ MayFail /\ RunGoes("abort") /\ UNCHANGED storeVars
     \/ ~cancelled /\ RunGoes("finish") /\ Commit /\ mpu' = "completed"
     \/ "lost" \in Faults /\ RunGoes("abort") /\ Commit /\ mpu' = "completed"
  /\ NotRunning

\* The uploader aborts once; the outcome of the abort is not looked at.
AbortUpload ==
  /\ run = "abort"
  /\ RunGoes("fail")
  /\ \/ "noabort" \in Faults /\ abortFailed' = TRUE /\ UNCHANGED mpu
     \/ cancelled /\ UNCHANGED <<mpu, abortFailed>>
     \/ /\ ~cancelled /\ mpu' = IF mpu = "open" THEN "aborted" ELSE mpu
        /\ UNCHANGED abortFailed
  /\ UNCHANGED <<object, committed>>
  /\ NotRunning

\* fail: the error is recorded, then the reader end is closed.
FailRecords ==
  /\ run = "fail"
  /\ Record("s3")
  /\ RunGoes("fail_close")
  /\ UNCHANGED <<storeVars, others, callerVars, prefixLen, closed, written, cancelled, pipeVars>>

\* Mutant: the reader end is left open.
FailLeavesOpen ==
  /\ run = "fail_close"
  /\ RunGoes("finish")
  /\ UNCHANGED <<storeVars, others, callerVars, fileVars, rerr, werr>>

FailCloses ==
  /\ run = "fail_close"
  /\ CloseReader
  /\ RunGoes("finish")
  /\ UNCHANGED <<storeVars, others, callerVars, fileVars, werr>>

RunReturns ==
  /\ run = "finish"
  /\ RunGoes("done")
  /\ UNCHANGED storeVars
  /\ NotRunning

Run ==
  \/ RunGet \/ ReadPrefix \/ ReadPipe \/ ReadEnd \/ PartFull \/ CreateUpload
  \/ SendPart \/ PartAnswered \/ Drained \/ PutBody \/ CompleteUpload
  \/ AbortUpload \/ FailRecords \/ FailCloses \/ RunReturns

\* Another session or another client of the bucket changes the object.
Other ==
  /\ others > 0
  /\ others' = others - 1
  /\ object' = {} \/ \E c \in Units : object' = {c}
  /\ UNCHANGED <<mpu, committed, abortFailed, callerVars, fileVars, pipeVars, runVars>>

Next == Caller \/ Write \/ TransferError \/ Close \/ CloseAgain \/ Run \/ Other

Spec == Init /\ [][Next]_vars

\* Go schedules both goroutines, and every S3 call is answered or fails.  A
\* client may stay silent between two Writes for ever; a handle the FTP
\* library has given up is closed.
FairSpec ==
  /\ Spec
  /\ WF_vars(Caller)
  /\ WF_vars(Run)
  /\ WF_vars(pc = "fail" /\ TransferError)
  /\ WF_vars(pc = "close" /\ Close)

=============================================================================
