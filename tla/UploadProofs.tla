---------------------------- MODULE UploadProofs ---------------------------
(***************************************************************************)
(* Proofs about module Upload, for any sizes, any modes and any faults.    *)
(***************************************************************************)
EXTENDS UploadProps, SequenceTheorems, TLAPS

\* What a Write offers fits in what the client sends.
Offered == written + offer =< MaxData

\* The context is cancelled only when no uploader runs any more.
ContextOutlives ==
  /\ pc = "closed" => run = "done"
  /\ pc = "refused" => run = "unborn"
  /\ pc = "open" => run = "unborn"
  /\ cancelled => pc \in {"closed", "refused"}

\* An open multipart upload has an uploader that will complete or abort it;
\* once it is reading again, a part was sent.  One whose id was lost got no
\* part, and nobody sends any more.
PartsOwned ==
  /\ mpu = "open" /\ ~abortFailed =>
       /\ run \in {"read", "send", "drain", "complete", "abort"}
       /\ run = "read" => parts > 0
  /\ run = "create" => parts = 0
  /\ mpu = "unnamed" => parts = 0 /\ run \in {"fail", "fail_close", "finish", "done"}

\* A handle that was closed without an error has none.
Quiet == reply = "ok" => pc = "closed" /\ err = "none"

Inv == TypeOK /\ Offered /\ ContextOutlives /\ PartsOwned /\ Quiet

Sizes ==
  /\ PartSize \in Nat \ {0} /\ Concurrency \in Nat \ {0}
  /\ MaxParts \in Nat \ {0} /\ MaxChunk \in Nat \ {0}
  /\ MaxData \in Nat /\ MaxOthers \in Nat

\* The sizes are numbers.
LEMMA SizesHold == Sizes
  BY UploadAssumption DEF Sizes

\* A handle that is not open yet.
LEMMA InitInv ==
  ASSUME Init
  PROVE  Inv
<1>1. CountsOK
  BY SizesHold DEF Init, CountsOK, Sizes
<1>2. ContentsOK
  BY UploadAssumption DEF Init, ContentsOK, Content
<1>3. StatesOK
  BY Zenon DEF Init, StatesOK, CallerPCs, RunPCs
<1>4. Offered
  BY SizesHold DEF Init, Offered, Sizes
<1> QED
  BY <1>1, <1>2, <1>3, <1>4 DEF Init, Inv, TypeOK, ContextOutlives, PartsOwned, Quiet

\* Each step keeps the counters in their bounds.
LEMMA CountsStep ==
  ASSUME Inv, Next
  PROVE  CountsOK' /\ Offered'
<1> USE SizesHold DEF Inv, TypeOK, CountsOK, Offered, Sizes
<1> USE DEF callerVars, fileVars, pipeVars, runVars, storeVars, Goes, RunGoes, NotRunning
<1>1. ASSUME NEW n \in Nat, NEW next, Opened(n, next)
      PROVE  CountsOK' /\ Offered'
  BY <1>1 DEF Opened
<1>2. CASE Refused
  BY <1>2 DEF Refused
<1>3. \A c \in object : Len(c) \in Nat /\ Least2(offset, Len(c)) \in Nat
  <2>1. offset \in Nat
    BY UploadAssumption DEF StatesOK
  <2>2. \A c \in object : Len(c) \in Nat
    BY DEF ContentsOK, Content
  <2> QED
    BY <2>1, <2>2 DEF Least2
<1>4. CASE OpenTruncate \/ OpenAppend \/ OpenResume
  BY <1>1, <1>2, <1>3, <1>4 DEF OpenTruncate, OpenAppend, OpenResume
<1>5. CASE Seek \/ Write \/ WriteReturns \/ TransferError \/ TransferErrorPipes
  BY <1>5 DEF Seek, Write, WriteReturns, TransferError, TransferErrorPipes
<1>6. CASE Close \/ ClosePipe \/ CloseReturns \/ CloseAgain
  BY <1>6 DEF Close, ClosePipe, CloseReturns, CloseAgain
<1>7. CASE RunGet \/ ReadPrefix \/ ReadEnd \/ PartFull
  BY <1>7 DEF RunGet, ReadPrefix, ReadEnd, ReadFails, PartFull
<1>8. CASE ReadPipe
  BY <1>8 DEF ReadPipe
<1>9. CASE CreateUpload \/ SendPart \/ PartAnswered \/ Drained
  BY <1>9 DEF CreateUpload, SendPart, PartAnswered, Drained
<1>10. CASE PutBody \/ CompleteUpload \/ AbortUpload \/ FailRecords \/ FailCloses \/ RunReturns
  BY <1>10 DEF PutBody, CompleteUpload, AbortUpload, FailRecords, FailCloses, RunReturns
<1>11. CASE Other
  BY <1>11 DEF Other
<1> QED
  BY <1>4, <1>5, <1>6, <1>7, <1>8, <1>9, <1>10, <1>11 DEF Next, Caller, Run

\* Each step stores, reads and keeps nothing but contents.
LEMMA ContentsStep ==
  ASSUME Inv, Next
  PROVE  ContentsOK'
<1> USE DEF callerVars, fileVars, pipeVars, runVars, storeVars, Goes, RunGoes, NotRunning
<1>1. ContentsOK /\ written \in Nat /\ prefixLen \in Nat
  BY SizesHold DEF Inv, TypeOK, CountsOK, Sizes
<1>2. CASE UNCHANGED <<object, snap, body, base>>
  BY <1>1, <1>2 DEF ContentsOK
<1>3. CASE RunGet
  <2>1. CASE UNCHANGED <<object, snap, body, base>>
    BY <1>2, <2>1
  <2>2. ASSUME NEW c \in object, snap' = SubSeq(c, 1, Least2(prefixLen, Len(c))), base' = snap',
               UNCHANGED <<object, body>>
        PROVE  ContentsOK'
    <3> DEFINE n == Least2(prefixLen, Len(c))
    <3>1. c \in Seq(Unit)
      BY <1>1 DEF ContentsOK, Content
    <3>2. n \in Nat /\ n =< Len(c)
      BY <1>1, <3>1 DEF Least2
    <3> HIDE DEF n
    <3>3. SubSeq(c, 1, n) \in Content
      BY <3>1, <3>2 DEF Content
    <3> QED
      BY <1>1, <2>2, <3>3 DEF ContentsOK, n
  <2> QED
    BY <1>3, <2>1, <2>2 DEF RunGet
<1>4. CASE ReadPrefix
  <2>1. CASE ReadFails /\ UNCHANGED object
    BY <1>2, <2>1 DEF ReadFails
  <2>2. CASE /\ snap # <<>> /\ body' = Append(body, Head(snap)) /\ snap' = Tail(snap)
             /\ UNCHANGED <<object, base>>
    <3>1. snap \in Seq(Unit) /\ body \in Seq(Unit)
      BY <1>1 DEF ContentsOK, Content
    <3>2. Head(snap) \in Unit /\ Tail(snap) \in Seq(Unit)
      BY <2>2, <3>1
    <3>3. Append(body, Head(snap)) \in Seq(Unit)
      BY <3>1, <3>2
    <3> QED
      BY <1>1, <2>2, <3>2, <3>3 DEF ContentsOK, Content
  <2> QED
    BY <1>4, <2>1, <2>2 DEF ReadPrefix
<1>5. CASE ReadPipe
  <2>1. <<"new", written + 1>> \in Unit
    BY <1>1 DEF Unit
  <2>2. body' \in Seq(Unit)
    <3>1. ASSUME NEW e \in Unit
          PROVE  Append(body, e) \in Seq(Unit)
      BY <1>1 DEF ContentsOK, Content
    <3> QED
      BY <1>5, <2>1, <3>1 DEF ReadPipe
  <2> QED
    BY <1>1, <1>5, <2>2 DEF ReadPipe, ContentsOK, Content
<1>6. CASE PutBody \/ CompleteUpload
  <2>1. UNCHANGED <<snap, body, base>> /\ object' \in {object, {body}}
    BY <1>6 DEF PutBody, CompleteUpload, Commit
  <2> QED
    BY <1>1, <2>1 DEF ContentsOK
<1>7. CASE Other
  <2>1. UNCHANGED <<snap, body, base>> /\ (object' = {} \/ \E c \in Units : object' = {c})
    BY <1>7 DEF Other
  <2> QED
    BY <1>1, <2>1, UploadAssumption DEF ContentsOK
<1>8. CASE Caller \/ Write \/ TransferError \/ Close \/ CloseAgain
  BY <1>2, <1>8
     DEF Caller, OpenTruncate, OpenAppend, OpenResume, Opened, Refused, Seek, Write, WriteReturns,
         TransferError, TransferErrorPipes, Close, ClosePipe, CloseReturns, CloseAgain
<1>9. CASE ReadEnd \/ PartFull \/ CreateUpload \/ SendPart \/ PartAnswered \/ Drained
  BY <1>2, <1>9 DEF ReadEnd, ReadFails, PartFull, CreateUpload, SendPart, PartAnswered, Drained
<1>10. CASE AbortUpload \/ FailRecords \/ FailCloses \/ RunReturns
  BY <1>2, <1>10 DEF AbortUpload, FailRecords, FailCloses, RunReturns
<1> QED
  BY <1>3, <1>4, <1>5, <1>6, <1>7, <1>8, <1>9, <1>10 DEF Next, Run

\* The two halves of StatesOK: positions and flags.
PositionsOK ==
  /\ mpu \in {"none", "open", "unnamed", "completed", "aborted"}
  /\ pc \in CallerPCs /\ mode \in Modes /\ offset \in Offsets \cup {0}
  /\ reply \in {"none", "ok", "error"} /\ err \in {"none", "transfer", "s3"}
  /\ rerr \in {"none", "error"} /\ werr \in {"none", "EOF", "error"}
  /\ run \in RunPCs

FlagsOK ==
  /\ seen \in BOOLEAN /\ closed \in BOOLEAN /\ cancelled \in BOOLEAN
  /\ eof \in BOOLEAN /\ bad \in BOOLEAN
  /\ committed \in BOOLEAN /\ gaveUp \in BOOLEAN /\ abortFailed \in BOOLEAN

\* Each step leaves every position in its set.
LEMMA PositionsStep ==
  ASSUME Inv, Next
  PROVE  PositionsOK'
<1> USE DEF callerVars, fileVars, pipeVars, runVars, storeVars, Goes, RunGoes, NotRunning
<1> USE DEF PositionsOK, CallerPCs, RunPCs
<1>1. PositionsOK
  BY DEF Inv, TypeOK, StatesOK
<1>2. CASE OpenTruncate \/ OpenAppend \/ OpenResume
  BY <1>1, <1>2 DEF OpenTruncate, OpenAppend, OpenResume, Opened, Refused
<1>3. CASE Seek \/ Write \/ WriteReturns
  BY <1>1, <1>3 DEF Seek, Write, WriteReturns, Record, CloseReader
<1>4. CASE TransferError \/ TransferErrorPipes
  BY <1>1, <1>4 DEF TransferError, TransferErrorPipes, Record, CloseReader, CloseWriter
<1>5. CASE Close \/ ClosePipe
  BY <1>1, <1>5 DEF Close, ClosePipe, CloseWriter
<1>6. CASE CloseReturns \/ CloseAgain
  BY <1>1, <1>6 DEF CloseReturns, CloseAgain
<1>7. CASE RunGet \/ ReadPrefix \/ ReadPipe
  BY <1>1, <1>7 DEF RunGet, ReadPrefix, ReadPipe, ReadFails
<1>8. CASE ReadEnd \/ PartFull \/ CreateUpload
  BY <1>1, <1>8 DEF ReadEnd, ReadFails, PartFull, CreateUpload
<1>9. CASE SendPart \/ PartAnswered \/ Drained
  BY <1>1, <1>9 DEF SendPart, PartAnswered, Drained
<1>10. CASE PutBody \/ CompleteUpload \/ AbortUpload
  BY <1>1, <1>10 DEF PutBody, CompleteUpload, AbortUpload, Commit
<1>11. CASE FailRecords \/ FailCloses \/ RunReturns
  BY <1>1, <1>11 DEF FailRecords, FailCloses, RunReturns, Record, CloseReader
<1>12. CASE Other
  BY <1>1, <1>12 DEF Other
<1> QED
  BY <1>2, <1>3, <1>4, <1>5, <1>6, <1>7, <1>8, <1>9, <1>10, <1>11, <1>12 DEF Next, Caller, Run

\* Each step leaves every flag a Boolean.
LEMMA FlagsStep ==
  ASSUME Inv, Next
  PROVE  FlagsOK'
<1> USE DEF callerVars, fileVars, pipeVars, runVars, storeVars, Goes, RunGoes, NotRunning
<1> USE DEF FlagsOK, CallerPCs, RunPCs
<1>1. FlagsOK
  BY DEF Inv, TypeOK, StatesOK
<1>2. CASE OpenTruncate \/ OpenAppend \/ OpenResume
  BY <1>1, <1>2, Zenon DEF OpenTruncate, OpenAppend, OpenResume, Opened, Refused
<1>3. CASE Seek \/ Write \/ WriteReturns
  BY <1>1, <1>3, Zenon DEF Seek, Write, WriteReturns, Record, CloseReader
<1>4. CASE TransferError \/ TransferErrorPipes
  BY <1>1, <1>4, Zenon DEF TransferError, TransferErrorPipes, Record, CloseReader, CloseWriter
<1>5. CASE Close \/ ClosePipe
  BY <1>1, <1>5, Zenon DEF Close, ClosePipe, CloseWriter
<1>6. CASE CloseReturns \/ CloseAgain
  BY <1>1, <1>6, Zenon DEF CloseReturns, CloseAgain
<1>7. CASE RunGet \/ ReadPrefix \/ ReadPipe
  BY <1>1, <1>7, Zenon DEF RunGet, ReadPrefix, ReadPipe, ReadFails
<1>8. CASE ReadEnd \/ PartFull \/ CreateUpload
  BY <1>1, <1>8, Zenon DEF ReadEnd, ReadFails, PartFull, CreateUpload
<1>9. CASE SendPart \/ PartAnswered \/ Drained
  BY <1>1, <1>9, Zenon DEF SendPart, PartAnswered, Drained
<1>10. CASE PutBody \/ CompleteUpload \/ AbortUpload
  BY <1>1, <1>10, Zenon DEF PutBody, CompleteUpload, AbortUpload, Commit
<1>11. CASE FailRecords \/ FailCloses \/ RunReturns
  BY <1>1, <1>11, Zenon DEF FailRecords, FailCloses, RunReturns, Record, CloseReader
<1>12. CASE Other
  BY <1>1, <1>12, Zenon DEF Other
<1> QED
  BY <1>2, <1>3, <1>4, <1>5, <1>6, <1>7, <1>8, <1>9, <1>10, <1>11, <1>12 DEF Next, Caller, Run

\* Every step leaves positions and flags in their sets.
LEMMA StatesStep ==
  ASSUME Inv, Next
  PROVE  StatesOK'
  BY PositionsStep, FlagsStep DEF StatesOK, PositionsOK, FlagsOK

\* Each step keeps what is known of the two goroutines.
LEMMA ControlStep ==
  ASSUME Inv, Next
  PROVE  ContextOutlives' /\ PartsOwned' /\ Quiet'
<1> USE DEF callerVars, fileVars, pipeVars, runVars, storeVars, Goes, RunGoes, NotRunning
<1> USE DEF ContextOutlives, PartsOwned, Quiet
<1>1. ContextOutlives /\ PartsOwned /\ Quiet /\ parts \in Nat
  BY SizesHold DEF Inv, TypeOK, CountsOK, Sizes
<1>2. CASE OpenTruncate \/ OpenAppend \/ OpenResume
  BY <1>1, <1>2 DEF OpenTruncate, OpenAppend, OpenResume, Opened, Refused
<1>3. CASE Seek \/ Write \/ WriteReturns
  BY <1>1, <1>3 DEF Seek, Write, WriteReturns
<1>4. CASE TransferError \/ TransferErrorPipes
  BY <1>1, <1>4 DEF TransferError, TransferErrorPipes
<1>5. CASE Close \/ ClosePipe \/ CloseReturns \/ CloseAgain
  BY <1>1, <1>5 DEF Close, ClosePipe, CloseReturns, CloseAgain
<1>6. CASE RunGet \/ ReadPrefix \/ ReadPipe \/ ReadEnd \/ PartFull
  BY <1>1, <1>6 DEF RunGet, ReadPrefix, ReadPipe, ReadEnd, ReadFails, PartFull
<1>7. CASE CreateUpload \/ SendPart \/ Drained
  BY <1>1, <1>7 DEF CreateUpload, SendPart, Drained
<1>8. CASE PartAnswered
  BY <1>1, <1>8 DEF PartAnswered
<1>9. CASE PutBody \/ CompleteUpload \/ AbortUpload
  BY <1>1, <1>9 DEF PutBody, CompleteUpload, AbortUpload, Commit, MayFail
<1>10. CASE FailRecords \/ FailCloses \/ RunReturns \/ Other
  BY <1>1, <1>10 DEF FailRecords, FailCloses, RunReturns, Other
<1> QED
  BY <1>2, <1>3, <1>4, <1>5, <1>6, <1>7, <1>8, <1>9, <1>10 DEF Next, Caller, Run

\* The inductive invariant holds throughout.
THEOREM Invariance == Spec => []Inv
<1>1. Inv /\ [Next]_vars => Inv'
  <2> SUFFICES ASSUME Inv, [Next]_vars
               PROVE  Inv'
    OBVIOUS
  <2>1. CASE Next
    BY <2>1, CountsStep, ContentsStep, StatesStep, ControlStep DEF Inv, TypeOK
  <2>2. CASE UNCHANGED vars
    BY <2>2 DEF vars, Inv, TypeOK, CountsOK, ContentsOK, StatesOK, Offered, ContextOutlives,
                PartsOwned, Quiet
  <2> QED
    BY <2>1, <2>2
<1> QED
  BY InitInv, <1>1, PTL DEF Spec

\* The handle's state keeps its types; in particular the uploader never sends
\* more parts than allowed nor has more in flight.
THEOREM TypeCorrect == Spec => []TypeOK
<1>1. Inv => TypeOK
  BY DEF Inv
<1> QED
  BY <1>1, Invariance, PTL

\* When Close has returned, no part is left in an open multipart upload
\* (upload.go:257-258, backend.go:101), for transfers of any length and in any
\* interleaving, unless the abort call itself failed; an upload whose
\* creation was never answered is open and empty.
THEOREM NoPartsLeft == Spec => []NoOrphanedParts
<1>1. Inv => NoOrphanedParts
  BY DEF Inv, ContextOutlives, PartsOwned, NoOrphanedParts
<1> QED
  BY <1>1, Invariance, PTL

\* The first recorded error stays, and Close never reports success after it.
THEOREM FirstErrorStays == Spec => ErrorSticks
<1>1. Inv /\ [Next]_vars => [err # "none" => err' = err /\ reply' # "ok"]_vars
  <2> SUFFICES ASSUME Inv, Next, err # "none"
               PROVE  err' = err /\ reply' # "ok"
    OBVIOUS
  <2>1. reply # "ok"
    BY DEF Inv, Quiet
  <2> USE DEF callerVars, fileVars, pipeVars, runVars, storeVars, Goes, RunGoes, NotRunning
  <2>2. CASE Caller
    BY <2>1, <2>2 DEF Caller, OpenTruncate, OpenAppend, OpenResume, Opened, Refused, Seek,
                      WriteReturns, Record, TransferErrorPipes, ClosePipe, CloseReturns
  <2>3. CASE Write \/ TransferError \/ Close \/ CloseAgain \/ Other
    BY <2>1, <2>3 DEF Write, TransferError, Record, Close, CloseAgain, Other
  <2>4. CASE Run
    BY <2>1, <2>4 DEF Run, RunGet, ReadPrefix, ReadPipe, ReadEnd, PartFull, CreateUpload, SendPart,
                      PartAnswered, Drained, PutBody, CompleteUpload, AbortUpload, FailRecords,
                      Record, FailCloses, RunReturns
  <2> QED
    BY <2>2, <2>3, <2>4 DEF Next
<1> QED
  BY <1>1, Invariance, PTL DEF ErrorSticks, Spec

(***************************************************************************)
(* The upload handle implements the atomic upload                          *)
(***************************************************************************)

\* The run goroutine has recorded its error, if it has one.
Told == {"fail_close", "finish", "done"}

\* The run goroutine has not tried to make the object visible.
Before == {"unborn", "get", "read", "put", "create", "send", "drain", "complete"}

\* An error is recorded before anybody acts on it: while the run goroutine
\* has told of none, a transfer that goes on, or was ended by a plain Close,
\* has none.
Caused ==
  /\ pc \in {"open", "seek", "ready", "write"} /\ run \notin Told => err = "none"
  /\ pc = "close_pipe" /\ ~seen /\ run \notin Told => err = "none"
  /\ werr = "EOF" /\ run \notin Told => err = "none"
  /\ pc \in {"open", "seek", "ready", "write", "fail", "close_pipes"} => werr = "none"
  /\ gaveUp => err # "none"

\* Close answers what is recorded.
Answered ==
  /\ reply # "none" => pc = "closed"
  /\ pc = "closed" => reply = IF err = "none" THEN "ok" ELSE "error"

\* The object is replaced only with a body that ended where the client ended
\* it, and a run goroutine that has no error to tell has replaced it.
Ended ==
  /\ eof => werr = "EOF" /\ snap = <<>>
  /\ run \in {"put", "complete"} => eof
  /\ run = "drain" /\ ~bad => eof
  /\ committed => werr = "EOF"
  /\ run \in Before => ~committed
  /\ run = "fail_close" => err # "none"
  /\ run \in {"finish", "done"} /\ err = "none" => committed

\* Nothing is read before the part to keep is known.
Unread ==
  run \in {"unborn", "get"} =>
    base = <<>> /\ body = <<>> /\ snap = <<>> /\ written = 0 /\ ~eof

\* What was read and what is left to prepend is what is kept followed by what
\* the client was told is written.
Assembled == body \o snap = base \o Atomic!New(written)

Faithful == Caused /\ Answered /\ Ended /\ Unread /\ Assembled

\* Nothing is read or told at the start.
LEMMA InitFaithful ==
  ASSUME Init
  PROVE  Faithful
<1>1. Assembled
  <2>1. Atomic!New(0) = <<>>
    BY DEF Atomic!New
  <2> QED
    BY <2>1 DEF Init, Assembled
<1> QED
  BY <1>1 DEF Init, Faithful, Caused, Answered, Ended, Unread, Told, Before

\* Each step keeps what is known of errors and of Close's answer.
LEMMA CausedStep ==
  ASSUME Inv, Faithful, Next
  PROVE  Caused' /\ Answered'
<1> USE DEF callerVars, fileVars, pipeVars, runVars, storeVars, Goes, RunGoes, NotRunning
<1> USE DEF Caused, Answered, Told
<1>1. Caused /\ Answered /\ ContextOutlives /\ run \in RunPCs /\ werr \in {"none", "EOF", "error"}
  BY DEF Inv, Faithful, TypeOK, StatesOK
<1>2. CASE OpenTruncate \/ OpenAppend \/ OpenResume
  BY <1>1, <1>2 DEF OpenTruncate, OpenAppend, OpenResume, Opened, Refused, ContextOutlives
<1>3. CASE Seek \/ Write \/ WriteReturns
  BY <1>1, <1>3 DEF Seek, Write, WriteReturns, Record
<1>4. CASE TransferError \/ TransferErrorPipes
  BY <1>1, <1>4 DEF TransferError, TransferErrorPipes, Record, CloseWriter
<1>5. CASE Close \/ ClosePipe
  <2>1. CASE Close
    <3>1. ~seen' => err = "none"
      BY <2>1, Zenon DEF Close
    <3> QED
      BY <1>1, <2>1, <3>1 DEF Close
  <2>2. CASE ClosePipe
    BY <1>1, <2>2 DEF ClosePipe, CloseWriter
  <2> QED
    BY <1>5, <2>1, <2>2
<1>6. CASE CloseReturns \/ CloseAgain
  BY <1>1, <1>6 DEF CloseReturns, CloseAgain
<1>7. CASE RunGet \/ ReadPrefix \/ ReadPipe
  BY <1>1, <1>7 DEF RunGet, ReadPrefix, ReadPipe, ReadFails, ContextOutlives
<1>8. CASE ReadEnd \/ PartFull \/ CreateUpload
  BY <1>1, <1>8 DEF ReadEnd, ReadFails, PartFull, CreateUpload, ContextOutlives
<1>9. CASE SendPart \/ PartAnswered \/ Drained
  BY <1>1, <1>9 DEF SendPart, PartAnswered, Drained
<1>10. CASE PutBody \/ CompleteUpload \/ AbortUpload
  BY <1>1, <1>10 DEF PutBody, CompleteUpload, AbortUpload, Commit
<1>11. CASE FailRecords \/ FailCloses \/ RunReturns
  BY <1>1, <1>11 DEF FailRecords, FailCloses, RunReturns, Record, ContextOutlives
<1>12. CASE Other
  BY <1>1, <1>12 DEF Other
<1> QED
  BY <1>2, <1>3, <1>4, <1>5, <1>6, <1>7, <1>8, <1>9, <1>10, <1>11, <1>12 DEF Next, Caller, Run

\* Each step keeps what is known of the end of the body and of the commit.
LEMMA EndedStep ==
  ASSUME Inv, Faithful, Next
  PROVE  Ended' /\ Unread'
<1> USE DEF callerVars, fileVars, pipeVars, runVars, storeVars, Goes, RunGoes, NotRunning
<1> USE DEF Ended, Unread, Before
<1>1. /\ Ended /\ Unread /\ ContextOutlives
      /\ run \in RunPCs /\ werr \in {"none", "EOF", "error"} /\ rerr \in {"none", "error"}
  BY DEF Inv, Faithful, TypeOK, StatesOK
<1>2. CASE OpenTruncate \/ OpenAppend \/ OpenResume
  BY <1>1, <1>2 DEF OpenTruncate, OpenAppend, OpenResume, Opened, Refused, ContextOutlives
<1>3. CASE Seek \/ Write \/ WriteReturns
  BY <1>1, <1>3 DEF Seek, Write, WriteReturns, Record
<1>4. CASE TransferError \/ TransferErrorPipes
  BY <1>1, <1>4 DEF TransferError, TransferErrorPipes, Record, CloseWriter
<1>5. CASE Close \/ ClosePipe
  BY <1>1, <1>5 DEF Close, ClosePipe, CloseWriter
<1>6. CASE CloseReturns \/ CloseAgain
  BY <1>1, <1>6 DEF CloseReturns, CloseAgain
<1>7. CASE RunGet
  BY <1>1, <1>7 DEF RunGet
<1>8. CASE ReadPrefix \/ ReadPipe
  BY <1>1, <1>8 DEF ReadPrefix, ReadPipe, ReadFails
<1>9. CASE ReadEnd \/ PartFull \/ CreateUpload
  BY <1>1, <1>9 DEF ReadEnd, ReadEnds, ReadFails, PartFull, CreateUpload
<1>10. CASE SendPart \/ PartAnswered \/ Drained
  BY <1>1, <1>10 DEF SendPart, PartAnswered, Drained
<1>11. CASE PutBody \/ CompleteUpload \/ AbortUpload
  BY <1>1, <1>11 DEF PutBody, CompleteUpload, AbortUpload, Commit
<1>12. CASE FailRecords \/ FailCloses \/ RunReturns
  BY <1>1, <1>12 DEF FailRecords, FailCloses, RunReturns, Record
<1>13. CASE Other
  BY <1>1, <1>13 DEF Other
<1> QED
  BY <1>2, <1>3, <1>4, <1>5, <1>6, <1>7, <1>8, <1>9, <1>10, <1>11, <1>12, <1>13
     DEF Next, Caller, Run

\* Reading a unit of the old content moves it over.
LEMMA MoveOver ==
  ASSUME NEW S, NEW b \in Seq(S), NEW s \in Seq(S), s # <<>>
  PROVE  Append(b, Head(s)) \o Tail(s) = b \o s
<1>1. /\ Append(b, Head(s)) \in Seq(S) /\ Len(Append(b, Head(s))) = Len(b) + 1
      /\ Tail(s) \in Seq(S) /\ Len(Tail(s)) = Len(s) - 1 /\ Len(s) > 0
  BY HeadTailProperties, AppendProperties, EmptySeq
<1>2. \A i \in 1 .. Len(Tail(s)) : Tail(s)[i] = s[i + 1]
  BY HeadTailProperties
<1>3. \A i \in 1 .. Len(b) + 1 : Append(b, Head(s))[i] = IF i =< Len(b) THEN b[i] ELSE s[1]
  BY HeadTailProperties, AppendProperties
<1> DEFINE l == Append(b, Head(s)) \o Tail(s)
           r == b \o s
<1>4. /\ l \in Seq(S) /\ Len(l) = Len(b) + Len(s)
      /\ r \in Seq(S) /\ Len(r) = Len(b) + Len(s)
  BY <1>1, ConcatProperties
<1>5. ASSUME NEW i \in 1 .. Len(b) + Len(s)
      PROVE  l[i] = r[i]
  BY <1>1, <1>2, <1>3
<1> QED
  BY <1>4, <1>5, SeqEqual

\* The units sent so far, and one more.
LEMMA NewFacts ==
  /\ Atomic!New(0) = <<>>
  /\ \A n \in Nat : /\ Atomic!New(n) \in Seq(Unit)
                    /\ Atomic!New(n + 1) = Append(Atomic!New(n), <<"new", n + 1>>)
<1>1. Atomic!New(0) = <<>>
  BY DEF Atomic!New
<1>2. ASSUME NEW n \in Nat
      PROVE  /\ Atomic!New(n) \in Seq(Unit)
             /\ Atomic!New(n + 1) = Append(Atomic!New(n), <<"new", n + 1>>)
  <2>1. \A i \in Nat : <<"new", i>> \in Unit
    BY DEF Unit
  <2>2. \A m \in Nat : Atomic!New(m) \in Seq(Unit) /\ Len(Atomic!New(m)) = m
    BY <2>1 DEF Atomic!New
  <2>3. Append(Atomic!New(n), <<"new", n + 1>>) \in Seq(Unit)
    BY <2>1, <2>2
  <2>4. Len(Append(Atomic!New(n), <<"new", n + 1>>)) = n + 1
    BY <2>2
  <2>5. ASSUME NEW i \in 1 .. n + 1
        PROVE  Atomic!New(n + 1)[i] = Append(Atomic!New(n), <<"new", n + 1>>)[i]
    BY <2>2 DEF Atomic!New
  <2> QED
    BY <2>2, <2>3, <2>4, <2>5, SeqEqual
<1> QED
  BY <1>1, <1>2

\* Each step keeps the body assembled: only reading changes it.
LEMMA AssembledStep ==
  ASSUME Inv, Faithful, Next
  PROVE  Assembled'
<1> USE DEF callerVars, fileVars, pipeVars, runVars, storeVars, Goes, RunGoes, NotRunning
<1>1. /\ body \in Seq(Unit) /\ snap \in Seq(Unit) /\ base \in Seq(Unit) /\ written \in Nat
      /\ Assembled /\ Unread
  BY SizesHold DEF Inv, TypeOK, CountsOK, ContentsOK, Content, Sizes, Faithful
<1>2. CASE UNCHANGED <<body, snap, base, written>>
  BY <1>1, <1>2 DEF Assembled, Atomic!New
<1>3. CASE RunGet
  <2>1. CASE UNCHANGED <<body, snap, base, written>>
    BY <1>2, <2>1
  <2>2. CASE base' = snap' /\ UNCHANGED <<body, written>>
    <3>1. body' = <<>> /\ written' = 0
      BY <1>1, <1>3, <2>2 DEF RunGet, Unread
    <3>2. snap' \in Seq(Unit)
      BY ContentsStep DEF ContentsOK, Content
    <3> QED
      BY <2>2, <3>1, <3>2, NewFacts, ConcatEmptySeq DEF Assembled
  <2> QED
    BY <1>3, <2>1, <2>2 DEF RunGet
<1>4. CASE ReadPrefix
  <2>1. CASE ReadFails
    BY <1>2, <1>4, <2>1 DEF ReadPrefix, ReadFails
  <2>2. CASE /\ snap # <<>> /\ body' = Append(body, Head(snap)) /\ snap' = Tail(snap)
             /\ UNCHANGED <<base, written>>
    <3>1. body' \o snap' = body \o snap
      BY <1>1, <2>2, MoveOver
    <3>2. Atomic!New(written)' = Atomic!New(written)
      BY <2>2 DEF Atomic!New
    <3> QED
      BY <1>1, <2>2, <3>1, <3>2 DEF Assembled
  <2> QED
    BY <1>4, <2>1, <2>2 DEF ReadPrefix
<1>5. CASE ReadPipe
  <2> DEFINE e == <<"new", written + 1>>
  <2>1. /\ snap = <<>> /\ body' = Append(body, e) /\ written' = written + 1
        /\ snap' = snap /\ base' = base
    BY <1>5 DEF ReadPipe
  <2>2. e \in Unit
    BY <1>1 DEF Unit
  <2> HIDE DEF e
  <2>3. body = base \o Atomic!New(written)
    BY <1>1, <2>1, ConcatEmptySeq DEF Assembled
  <2>4. Atomic!New(written) \in Seq(Unit)
    BY <1>1, NewFacts
  <2>5. Append(body, e) = base \o Append(Atomic!New(written), e)
    <3>1. ASSUME NEW a \in Seq(Unit), NEW b \in Seq(Unit), NEW u \in Unit
          PROVE  Append(a \o b, u) = a \o Append(b, u)
      OBVIOUS
    <3> QED
      BY <1>1, <2>2, <2>3, <2>4, <3>1, Zenon
  <2>6. Append(body, e) \in Seq(Unit)
    BY <1>1, <2>2
  <2>7. Append(Atomic!New(written), e) = Atomic!New(written')
    BY <1>1, <2>1, NewFacts DEF e
  <2>8. body' \o snap' = Append(body, e)
    BY <2>1, <2>6, ConcatEmptySeq
  <2>9. Atomic!New(written)' = Atomic!New(written')
    BY DEF Atomic!New
  <2> QED
    BY <2>1, <2>5, <2>7, <2>8, <2>9 DEF Assembled
<1>6. CASE Caller \/ Write \/ TransferError \/ Close \/ CloseAgain \/ Other
  BY <1>2, <1>6
     DEF Caller, OpenTruncate, OpenAppend, OpenResume, Opened, Refused, Seek, Write, WriteReturns,
         TransferError, TransferErrorPipes, Close, ClosePipe, CloseReturns, CloseAgain, Other
<1>7. CASE ReadEnd \/ PartFull \/ CreateUpload \/ SendPart \/ PartAnswered \/ Drained
  BY <1>2, <1>7 DEF ReadEnd, ReadFails, PartFull, CreateUpload, SendPart, PartAnswered, Drained
<1>8. CASE PutBody \/ CompleteUpload \/ AbortUpload \/ FailRecords \/ FailCloses \/ RunReturns
  BY <1>2, <1>8 DEF PutBody, CompleteUpload, AbortUpload, FailRecords, FailCloses, RunReturns
<1> QED
  BY <1>3, <1>4, <1>5, <1>6, <1>7, <1>8 DEF Next, Run

\* Faithful is inductive relative to Inv.
THEOREM AlwaysFaithful == Spec => []Faithful
<1>1. Inv /\ Faithful /\ [Next]_vars => Faithful'
  <2> SUFFICES ASSUME Inv, Faithful, [Next]_vars
               PROVE  Faithful'
    OBVIOUS
  <2>1. CASE Next
    BY <2>1, CausedStep, EndedStep, AssembledStep DEF Faithful
  <2>2. CASE UNCHANGED vars
    BY <2>2 DEF vars, Faithful, Caused, Answered, Ended, Unread, Assembled, Atomic!New
  <2> QED
    BY <2>1, <2>2
<1> QED
  BY InitFaithful, Invariance, <1>1, PTL DEF Spec

\* An initial state of the handle is one of the atomic upload.
LEMMA InitRefines ==
  ASSUME Init
  PROVE  Atomic!Init
  BY DEF Init, Atomic!Init, Phase

\* Each step of the handle is a step of the atomic upload, or none.
LEMMA StepRefines ==
  ASSUME Inv, Faithful, Next
  PROVE  [Atomic!Next]_(Atomic!vars)
<1> DEFINE PhaseOf(r, e, w) == IF r = "ok" THEN "ended" ELSE
                               IF e # "none" THEN "failed" ELSE
                               IF w = "EOF" THEN "finishing" ELSE "streaming"
<1>1. Phase = PhaseOf(reply, err, werr) /\ Phase' = PhaseOf(reply', err', werr')
  BY DEF Phase
<1> HIDE DEF PhaseOf
<1> DEFINE Stutters == UNCHANGED <<object, base, written, Phase, committed, gaveUp>>
<1>2. Stutters => [Atomic!Next]_(Atomic!vars)
  BY DEF Atomic!vars
<1>3. ASSUME UNCHANGED <<reply, err, werr>>
      PROVE  Phase' = Phase
  BY <1>1, <1>3
<1>4. /\ Caused /\ Answered /\ Ended /\ Unread /\ Assembled /\ ContextOutlives /\ Quiet
      /\ run \in RunPCs /\ werr \in {"none", "EOF", "error"}
  BY DEF Inv, Faithful, TypeOK, StatesOK
<1> USE DEF callerVars, fileVars, pipeVars, runVars, storeVars, Goes, RunGoes, NotRunning
<1>5. CASE OpenTruncate \/ OpenAppend \/ OpenResume \/ Seek \/ Write \/ Close
  BY <1>2, <1>3, <1>5
     DEF OpenTruncate, OpenAppend, OpenResume, Opened, Refused, Seek, Write, Close
<1>6. CASE ReadPrefix \/ ReadEnd \/ PartFull \/ CreateUpload
  BY <1>2, <1>3, <1>6 DEF ReadPrefix, ReadEnd, ReadFails, PartFull, CreateUpload
<1>7. CASE SendPart \/ PartAnswered \/ Drained \/ AbortUpload \/ FailCloses \/ RunReturns
  BY <1>2, <1>3, <1>7 DEF SendPart, PartAnswered, Drained, AbortUpload, FailCloses, RunReturns
<1>8. CASE TransferErrorPipes
  <2>1. werr = "none" /\ werr' = "error" /\ UNCHANGED <<reply, err>>
    BY <1>4, <1>8 DEF TransferErrorPipes, CloseWriter, Caused
  <2>2. Phase' = Phase
    BY <1>1, <2>1 DEF PhaseOf
  <2> QED
    BY <1>2, <1>8, <2>2 DEF TransferErrorPipes
<1>9. CASE ClosePipe
  <2>1. UNCHANGED <<object, base, written, committed, gaveUp, reply, err>> /\ reply # "ok"
    BY <1>4, <1>9 DEF ClosePipe, Quiet
  <2>2. CASE Phase' = Phase
    BY <1>2, <2>1, <2>2
  <2>3. CASE Phase' # Phase
    <3>1. Phase = "streaming" /\ Phase' = "finishing"
      BY <1>1, <1>9, <2>1, <2>3 DEF ClosePipe, CloseWriter, PhaseOf
    <3> QED
      BY <2>1, <3>1 DEF Atomic!Next, Atomic!Finish
  <2> QED
    BY <2>2, <2>3
<1>10. CASE CloseReturns
  <2>1. UNCHANGED <<object, base, written, committed, gaveUp, err, werr>> /\ reply # "ok"
    BY <1>4, <1>10 DEF CloseReturns, Quiet
  <2>2. CASE err = "none"
    <3>1. committed /\ werr = "EOF" /\ reply' = "ok"
      BY <1>4, <1>10, <2>2 DEF CloseReturns, Ended
    <3>2. Phase = "finishing" /\ Phase' = "ended"
      BY <1>1, <2>1, <2>2, <3>1 DEF PhaseOf
    <3> QED
      BY <2>1, <3>1, <3>2 DEF Atomic!Next, Atomic!Succeed
  <2>3. CASE err # "none"
    <3>1. Phase' = Phase
      BY <1>1, <1>10, <2>1, <2>3 DEF CloseReturns, PhaseOf
    <3> QED
      BY <1>2, <2>1, <3>1
  <2> QED
    BY <2>2, <2>3
<1>11. CASE CloseAgain
  BY <1>2, <1>3, <1>4, <1>11 DEF CloseAgain, Answered
<1>12. CASE WriteReturns \/ FailRecords
  <2>1. UNCHANGED <<object, base, written, committed, gaveUp, reply, werr>> /\ reply # "ok"
    BY <1>4, <1>12 DEF WriteReturns, FailRecords, Quiet, ContextOutlives
  <2>2. CASE err' = err
    BY <1>2, <1>3, <2>1, <2>2
  <2>3. CASE err' # err
    <3>1. err = "none" /\ err' = "s3"
      BY <1>12, <2>3 DEF WriteReturns, FailRecords, Record
    <3>2. Phase \in {"streaming", "finishing"} /\ Phase' = "failed"
      BY <1>1, <2>1, <3>1 DEF PhaseOf
    <3> QED
      BY <2>1, <3>2 DEF Atomic!Next, Atomic!Fail
  <2> QED
    BY <2>2, <2>3
<1>13. CASE TransferError
  <2>1. /\ UNCHANGED <<object, base, written, committed, reply, werr>>
        /\ reply # "ok" /\ werr = "none" /\ err' # "none" /\ gaveUp'
    BY <1>4, <1>13 DEF TransferError, Record, Quiet, Caused
  <2>2. Phase \in {"streaming", "failed"} /\ Phase' = "failed"
    BY <1>1, <2>1 DEF PhaseOf
  <2> QED
    BY <2>1, <2>2 DEF Atomic!Next, Atomic!GiveUp
<1>14. CASE RunGet
  <2>1. CASE base' = base
    BY <1>2, <1>3, <1>14, <2>1 DEF RunGet
  <2>2. CASE base' # base
    <3>1. base = <<>> /\ written = 0 /\ ~committed
      BY <1>4, <1>14 DEF RunGet, Unread, Ended, Before
    <3>2. PICK c \in object : base' = SubSeq(c, 1, Least2(prefixLen, Len(c)))
      BY <1>14, <2>2 DEF RunGet
    <3> DEFINE n == Least2(prefixLen, Len(c))
    <3>3. c \in Seq(Unit) /\ prefixLen \in Nat
      BY DEF Inv, TypeOK, ContentsOK, Content, CountsOK
    <3>4. n \in Nat /\ n =< Len(c)
      BY <3>3 DEF Least2
    <3> HIDE DEF n
    <3>5. Len(SubSeq(c, 1, n)) = n
      BY <3>3, <3>4
    <3>6. Atomic!IsPrefix(SubSeq(c, 1, n), c)
      BY <3>4, <3>5 DEF Atomic!IsPrefix
    <3>7. UNCHANGED <<object, written, committed, gaveUp>> /\ Phase' = Phase
      BY <1>3, <1>14 DEF RunGet
    <3>8. Atomic!IsPrefix(base', c)
      BY <3>2, <3>6 DEF n
    <3> QED
      BY <3>1, <3>7, <3>8 DEF Atomic!Next, Atomic!Keep
  <2> QED
    BY <2>1, <2>2
<1>15. CASE ReadPipe
  <2>1. reply # "ok" /\ err = "none" /\ werr = "none"
    BY <1>4, <1>15 DEF ReadPipe, Quiet, Caused, Told
  <2>2. Phase = "streaming"
    BY <1>1, <2>1 DEF PhaseOf
  <2>3. written' = written + 1 /\ UNCHANGED <<object, base, committed, gaveUp>> /\ Phase' = Phase
    BY <1>3, <1>15 DEF ReadPipe
  <2> QED
    BY <2>2, <2>3 DEF Atomic!Next, Atomic!Accept
<1>16. CASE PutBody \/ CompleteUpload
  <2>1. UNCHANGED <<base, written, gaveUp>> /\ Phase' = Phase
    BY <1>3, <1>16 DEF PutBody, CompleteUpload
  <2>2. CASE UNCHANGED <<object, committed>>
    BY <1>2, <2>1, <2>2
  <2>3. CASE object' = {body} /\ committed'
    <3>1. /\ reply # "ok" /\ err = "none" /\ werr = "EOF"
          /\ ~committed /\ ~gaveUp /\ snap = <<>>
      BY <1>4, <1>16
         DEF PutBody, CompleteUpload, Quiet, ContextOutlives, Ended, Caused, Told, Before
    <3>2. Phase = "finishing"
      BY <1>1, <3>1 DEF PhaseOf
    <3>3. body \in Seq(Unit)
      BY DEF Inv, TypeOK, ContentsOK, Content
    <3>4. body = base \o Atomic!New(written)
      BY <1>4, <3>1, <3>3, ConcatEmptySeq DEF Assembled
    <3> QED
      BY <2>1, <2>3, <3>1, <3>2, <3>4 DEF Atomic!Next, Atomic!Commit
  <2> QED
    BY <1>16, <2>2, <2>3 DEF PutBody, CompleteUpload, Commit
<1>17. CASE Other
  <2>1. /\ object' = {} \/ \E c \in Units : object' = {c}
        /\ UNCHANGED <<base, written, committed, gaveUp>> /\ Phase' = Phase
    BY <1>3, <1>17 DEF Other
  <2> QED
    BY <2>1 DEF Atomic!Next, Atomic!Other
<1> QED
  BY <1>5, <1>6, <1>7, <1>8, <1>9, <1>10, <1>11, <1>12, <1>13, <1>14, <1>15, <1>16, <1>17
     DEF Next, Caller, Run

\* The upload handle, whatever the sizes, the faults and the interleaving of
\* its two goroutines, implements the atomic upload: the object is replaced at
\* most once, whole, by what is kept and everything the client was told is
\* written, never after TransferError, and Close returns nil only after that.
THEOREM Refinement == Spec => Implements
<1>1. Inv /\ Faithful /\ [Next]_vars => [Atomic!Next]_(Atomic!vars)
  <2> SUFFICES ASSUME Inv, Faithful, [Next]_vars
               PROVE  [Atomic!Next]_(Atomic!vars)
    OBVIOUS
  <2>1. CASE Next
    BY <2>1, StepRefines
  <2>2. CASE UNCHANGED vars
    BY <2>2 DEF vars, Atomic!vars, Phase
  <2> QED
    BY <2>1, <2>2
<1> QED
  BY InitRefines, Invariance, AlwaysFaithful, <1>1, PTL DEF Spec, Implements, Atomic!Spec

(***************************************************************************)
(* A refused resume stores what was there                                  *)
(***************************************************************************)

\* S3 holds at most one content under the key.
Single == \A c, d \in object : c = d

\* The handle of a resume behind the end of the object is never written to;
\* what it keeps is the whole object, as long as nobody else changes that.
Kept ==
  mode = "rest" /\ pc \notin {"open", "refused"} /\ prefixLen # offset =>
    /\ pc \in {"seek", "close", "close_pipe", "wait", "closed"}
    /\ written = 0
    /\ others = MaxOthers /\ run \in Before =>
         \E c \in object : Len(c) = prefixLen /\ (run # "get" => base = c)

\* Every step leaves at most one content under the key.
LEMMA SingleStep ==
  ASSUME Single, Next
  PROVE  Single'
<1> USE DEF storeVars, Single
<1>1. object' = object \/ object' = {} \/ \E c : object' = {c}
  <2>1. CASE Caller \/ Write \/ TransferError \/ Close \/ CloseAgain \/ Other
    BY <2>1
       DEF Caller, OpenTruncate, OpenAppend, OpenResume, Opened, Refused, Seek, Write, WriteReturns,
           TransferError, TransferErrorPipes, Close, ClosePipe, CloseReturns, CloseAgain, Other
  <2>2. CASE Run
    BY <2>2 DEF Run, RunGet, ReadPrefix, ReadPipe, ReadEnd, PartFull, CreateUpload, SendPart,
                PartAnswered, Drained, PutBody, CompleteUpload, AbortUpload, FailRecords,
                FailCloses, RunReturns, Commit
  <2> QED
    BY <2>1, <2>2 DEF Next
<1> QED
  BY <1>1

\* The kept length and the offset are numbers.
LEMMA Positions ==
  ASSUME Inv
  PROVE  prefixLen \in Nat /\ offset \in Nat
<1>1. prefixLen \in Nat /\ offset \in Offsets \cup {0}
  BY DEF Inv, TypeOK, StatesOK, CountsOK
<1> QED
  BY <1>1, UploadAssumption

\* Kept is inductive relative to the invariants above.
LEMMA KeptStep ==
  ASSUME Inv, Faithful, Single, Kept, Next
  PROVE  Kept'
<1> USE DEF callerVars, fileVars, pipeVars, runVars, storeVars, Goes, RunGoes, NotRunning
<1>1. /\ Kept /\ Single /\ Unread /\ ContextOutlives /\ run \in RunPCs
      /\ prefixLen \in Nat /\ offset \in Nat /\ others \in Nat /\ others =< MaxOthers /\ MaxOthers \in Nat
      /\ \A c \in object : c \in Seq(Unit) /\ Len(c) \in Nat
  BY SizesHold, UploadAssumption
     DEF Inv, Faithful, TypeOK, StatesOK, CountsOK, ContentsOK, Content, Sizes
<1>2. CASE OpenTruncate \/ OpenAppend
  BY <1>1, <1>2 DEF OpenTruncate, OpenAppend, Opened, Refused, Kept
<1>3. CASE OpenResume
  <2>1. CASE Refused
    BY <2>1 DEF Refused, Kept
  <2>2. ASSUME NEW c \in object, Opened(Least2(offset, Len(c)), "seek")
        PROVE  Kept'
    <3>1. run = "unborn" /\ base = <<>> /\ written = 0
      BY <1>1, <1>3 DEF OpenResume, ContextOutlives, Unread
    <3>2. UNCHANGED <<object, base, written, mode, offset, others>> /\ pc' = "seek"
      BY <2>2 DEF Opened
    <3>3. CASE prefixLen' # offset
      <4>1. prefixLen' = Len(c)
        BY <1>1, <2>2, <3>3 DEF Opened, Least2
      <4>2. run' # "get" => c = <<>>
        BY <1>1, <2>2, <4>1, EmptySeq DEF Opened
      <4> QED
        BY <3>1, <3>2, <4>1, <4>2 DEF Kept
    <3>4. CASE prefixLen' = offset
      BY <3>2, <3>4 DEF Kept
    <3> QED
      BY <3>3, <3>4
  <2> QED
    BY <1>3, <2>1, <2>2 DEF OpenResume
<1>4. CASE Seek \/ Write \/ WriteReturns
  BY <1>1, <1>4 DEF Seek, Write, WriteReturns, Kept
<1>5. CASE TransferError \/ TransferErrorPipes \/ Close \/ ClosePipe \/ CloseReturns \/ CloseAgain
  BY <1>1, <1>5 DEF TransferError, TransferErrorPipes, Close, ClosePipe, CloseReturns, CloseAgain, Kept
<1>6. CASE RunGet
  <2>1. CASE run' = "fail"
    BY <1>1, <1>6, <2>1 DEF RunGet, Kept, Before
  <2>2. ASSUME NEW d \in object, base' = SubSeq(d, 1, Least2(prefixLen, Len(d)))
        PROVE  Kept'
    <3>1. UNCHANGED <<pc, mode, offset, prefixLen, written, others, object>>
      BY <1>6 DEF RunGet
    <3>2. CASE Len(d) = prefixLen
      <4>1. base' = d
        BY <1>1, <2>2, <3>2, SubSeqFull DEF Least2
      <4> QED
        BY <1>1, <1>6, <3>1, <3>2, <4>1 DEF Kept
    <3>3. CASE Len(d) # prefixLen
      BY <1>1, <1>6, <3>1, <3>3 DEF RunGet, Kept, Before, Single
    <3> QED
      BY <3>2, <3>3
  <2> QED
    BY <1>6, <2>1, <2>2 DEF RunGet
<1>7. CASE ReadPrefix \/ ReadPipe
  BY <1>1, <1>7 DEF ReadPrefix, ReadPipe, ReadFails, Kept, Before
<1>8. CASE ReadEnd \/ PartFull \/ CreateUpload
  BY <1>1, <1>8 DEF ReadEnd, ReadFails, PartFull, CreateUpload, Kept, Before
<1>9. CASE SendPart \/ PartAnswered \/ Drained
  BY <1>1, <1>9 DEF SendPart, PartAnswered, Drained, Kept, Before
<1>10. CASE PutBody \/ CompleteUpload \/ AbortUpload
  BY <1>1, <1>10 DEF PutBody, CompleteUpload, AbortUpload, Commit, Kept, Before
<1>11. CASE FailRecords \/ FailCloses \/ RunReturns
  BY <1>1, <1>11 DEF FailRecords, FailCloses, RunReturns, Kept, Before
<1>12. CASE Other
  BY <1>1, <1>12 DEF Other, Kept
<1> QED
  BY <1>2, <1>3, <1>4, <1>5, <1>6, <1>7, <1>8, <1>9, <1>10, <1>11, <1>12 DEF Next, Caller, Run

\* Closing the handle of a refused resume stores the object as it is, for any
\* object and any offset behind its end, unless another writer came between.
THEOREM RefusedResume == Spec => RefusedResumeKeeps
<1>1. Init => Single /\ Kept
  BY UploadAssumption DEF Init, Single, Kept
<1>2. Inv /\ Faithful /\ Single /\ Kept /\ [Next]_vars => (Single /\ Kept)'
  <2> SUFFICES ASSUME Inv, Faithful, Single, Kept, [Next]_vars
               PROVE  (Single /\ Kept)'
    OBVIOUS
  <2>1. CASE Next
    BY <2>1, SingleStep, KeptStep
  <2>2. CASE UNCHANGED vars
    BY <2>2 DEF vars, Single, Kept
  <2> QED
    BY <2>1, <2>2
<1>3. Inv /\ Faithful /\ Single /\ Kept /\ [Next]_vars =>
        [committed' /\ ~committed /\ mode = "rest" /\ prefixLen < offset /\ others = MaxOthers =>
           object' = object]_vars
  <2> SUFFICES ASSUME Inv, Faithful, Single, Kept, Next,
                      committed', ~committed, mode = "rest", prefixLen < offset, others = MaxOthers
               PROVE  object' = object
    OBVIOUS
  <2> USE DEF callerVars, fileVars, pipeVars, runVars, storeVars, Goes, RunGoes, NotRunning
  <2>1. CASE PutBody \/ CompleteUpload
    <3>1. object' = {body} /\ run \in {"put", "complete"}
      BY <2>1 DEF PutBody, CompleteUpload, Commit
    <3>2. prefixLen # offset
      BY Positions
    <3>3. pc \notin {"open", "refused"}
      BY <3>1 DEF Inv, ContextOutlives
    <3>4. written = 0 /\ base \in object
      BY <3>1, <3>2, <3>3 DEF Kept, Before
    <3>5. snap = <<>> /\ body \in Seq(Unit) /\ base \in Seq(Unit)
      BY <3>1 DEF Faithful, Ended, Inv, TypeOK, ContentsOK, Content
    <3>6. body \o snap = base \o <<>>
      BY <3>4, NewFacts DEF Faithful, Assembled
    <3>7. body = base
      BY <3>5, <3>6, ConcatEmptySeq
    <3> QED
      BY <3>1, <3>4, <3>7 DEF Single
  <2>2. CASE Caller \/ Write \/ TransferError \/ Close \/ CloseAgain \/ Other
    BY <2>2
       DEF Caller, OpenTruncate, OpenAppend, OpenResume, Opened, Refused, Seek, Write, WriteReturns,
           TransferError, TransferErrorPipes, Close, ClosePipe, CloseReturns, CloseAgain, Other
  <2>3. CASE Run /\ ~(PutBody \/ CompleteUpload)
    BY <2>3 DEF Run, RunGet, ReadPrefix, ReadPipe, ReadEnd, PartFull, CreateUpload, SendPart,
                PartAnswered, Drained, AbortUpload, FailRecords, FailCloses, RunReturns
  <2> QED
    BY <2>1, <2>2, <2>3 DEF Next
<1> QED
  BY <1>1, <1>2, <1>3, Invariance, AlwaysFaithful, PTL DEF Spec, RefusedResumeKeeps

=============================================================================
