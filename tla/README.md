# A TLA+ model of s32ftp

s32ftp is an FTP server whose files are the objects of an S3 bucket. This
directory holds TLA+ modules that model it, the TLC configurations that check
them on small instances, and proofs checked by TLAPS. `PROJECT.json` ties every
definition to the lines of the code it stands for.

## The system

| Component | State | Operations | Talks to |
| --- | --- | --- | --- |
| Path mapping (`s3fs/path.go`) | none | `CleanFTPPath`, `joinRoot`, `dirKey`, `relativeName`, `copySource` | everything in `s3fs` |
| Filesystem view (`s3fs/fs.go`, `dir.go`) | none of its own: bucket, `rootPrefix`, `readOnly` and `dirMarker` are fixed per session; everything else is in S3 | `Stat`, `Mkdir`, `MkdirAll`, `Remove`, `RemoveDir`, `RemoveAll`, `Rename`, `ReadDir`, `GetHandle` | S3, by several calls per operation |
| Upload handle (`s3fs/upload.go`) | pipe, `err`, `closed`, `written`, `prefixLen`, context, `done` | `openUpload`, `run`, `Write`, `Seek`, `TransferError`, `Close` | two goroutines over an `io.Pipe`; `manager.Uploader` |
| Download handle (`s3fs/download.go`) | `size`, `pos`, `body`, context | `openDownload`, `Read`, `ReadAt`, `Seek`, `Close` | S3: `HeadObject`, ranged `GetObject` |
| Directory handle (`s3fs/file.go`) | cached entries, offset | `Readdir`, `Seek` | `ReadDir` |
| S3 client (`s3fs/backend.go`) | connections | `NewClient`, `EnsureBucket`, error classification | S3 |
| FTP driver (`ftpdriver/`) | map of connected clients, TLS configuration | `ClientConnected`, `ClientDisconnected`, `AuthUser`, `GetSettings` | ftpserverlib calls it, one goroutine per client |
| Configuration (`config/`) | the loaded file | load, environment, normalise, validate | read at start |
| Server process (`cmd/s32ftp`) | listener, signal context | `run`, stop with a 10 s wait | all |
| Logging, TLS files | none | formatting, file I/O | |

What is hard here:

* **No operation is atomic.** Every filesystem operation is a chain of S3 calls
  (`Rename` of a directory: two for `Stat`, one probe, a page per 1000 keys, a
  copy per key, a delete per 1000 keys) and sessions share the bucket without
  any lock. What a call found may be gone when the next one is made.
* **Failure in the middle.** Each call may fail, or take effect and have its
  answer lost; the whole chain runs under one 30 s deadline.
* **Two goroutines and a pipe.** An upload's data passes through a pipe to a
  goroutine that may fail at any moment; errors, aborts and the end of the
  transfer are raised on either side.
* **Stale measurements.** Sizes come from a `HeadObject`, data from a later
  `GetObject`.
* **Boundaries.** Pages, batches of 1000, the part size, the limit on parts,
  the last chunk of a directory handle, the client limit.
* **Start and stop.** A signal may come at any step of the start, and with
  clients in the middle of transfers; another gateway may create the bucket.
* **Values checked twice.** Settings are normalized, validated, and checked
  again by those who use them; a path is cleaned by the operation and again by
  `joinRoot`.

What makes each component correct: an operation's reply and effect are those of
one atomic step when it runs alone; a success is never reported for unfinished
work and a refusal has changed nothing; a rename loses nothing at any moment; a
session never touches what is outside its prefix, nor anything at all if it is
read-only; an upload replaces the object once, whole and only if the transfer
was not broken off; a download delivers one version of the object; a directory
read in chunks is one listing; the client limit is exact; a configuration that
is accepted means what it says; every operation and transfer, and after a
signal the process, ends.

## Modules

| Module | Models | How |
| --- | --- | --- |
| `PathText` | `path.go` and `NormalizePrefix`, on text | sequences of characters; `Segments` relates them to `Paths` |
| `Paths` | `path.go`, the prefix arithmetic of `Rename` | paths and keys as sequences of segments; a key that ends in `/` ends in the empty segment |
| `S3Bucket` | the object store (external) | a function from keys to contents; atomic, strongly consistent calls; ordered, paged listings |
| `S3FS` | `fs.go`, `dir.go` except `ReadDir` | one action per S3 call with the local code up to the next call; `sess[s]` is the program counter and the locals of the operation session `s` runs |
| `FileTree` | what the operations promise | one function per operation from the bucket to a reply and a bucket |
| `S3FSProps` | – | the properties of `S3FS` |
| `Listing` | `ReadDir` | `Stat`, then one action per page; an environment puts and deletes keys between the calls |
| `DirHandle` | `file.go` | extends `Listing`: the cached entries, the offset, and a `Readdir` that waits for a listing |
| `Upload` | `upload.go` | the transfer goroutine (`pc`), the run goroutine with the uploader (`run`), the pipe (`rerr`, `werr`), the object and its multipart upload |
| `AtomicUpload` | what an upload promises | one commit of the kept part followed by all accepted data |
| `UploadProps` | – | the refinement and the other properties of `Upload` |
| `Download`, `DownloadProps` | `download.go` | open, read, seek, close; an environment replaces and deletes the object |
| `Driver` | the map of clients of `driver.go` | the state of each connection as the library sees it, and the set the driver keeps |
| `Server` | `run` of `main.go`, `EnsureBucket` | extends `Driver`: the process (`pc`), the Serve goroutine (`serve`), signals, and the connections beside them |
| `Config` | `config.go`, the checks of `NewClient`, `New`, `GetSettings`, `AuthUser` | one action per call, from a file and an environment to a session and the key of a path it names |
| `ConfigProps` | – | the properties of `Config`, and the agreement of `PathText` with `Paths` |
| `MCS3FS`, `MCListing`, `MCUpload`, `MCDownload`, `MCServer`, `MCConfig` | – | the small instances |
| `BucketProofs`, `S3FSProofs`, `AloneProofs`, `ListingProofs`, `UploadProofs`, `DownloadProofs`, `ServerProofs`, `ConfigProofs` | – | theorems and their lemmas |

Abstractions. A content is a model value (`S3FS`) or a sequence of units that
tell which version they are from (`Upload`, `Download`). Logging, content types
and modification times are left out. The paths of `S3FS` and `Listing` are
sequences of names, already cleaned; the run `config` checks that this is what
the text of a path becomes (`MapsLikePaths`), for paths none of whose names ends
in a space. The code cleans a path twice and each time cuts the spaces at its
ends, so a name that ends in a space is not reached under its own name, and
these names are outside the modules on segments. The order of
keys is that of their segments, so the modules speak of names none of which is
a prefix of another; only the place of page boundaries depends on it. Uploads
appear in `S3FS` as the one call that makes their object visible. Definitions
whose comment begins with "Mutant" are wrong variants of the definition they
precede, kept to show that the properties notice them.

Each fault is a constant: `error` (a call fails without effect), `lost` (it
takes effect and its answer does not arrive), `keyerr` (`DeleteObjects` leaves
some keys and says so in its answer), `noabort` (the one call that aborts a
multipart upload fails; `abortFailed` remembers it). A call is one of the SDK
with its retries. If the answer of the call that creates a multipart upload is
lost, so is the id, and nobody can add to the upload or abort it: it stays open
and empty (`mpu = "unnamed"`).

The external parts are modelled as the code uses them: `io.Pipe` is
unbuffered, its first close on each end stays, and a read after a plain close
of the writer reports EOF; `manager.Uploader` reads one part ahead, puts a body
of less than one part in a single call, stops at the first failing part, and
then aborts once, looking at neither the outcome nor a commit that was lost;
the FTP library opens, seeks if REST was given, writes or reads until the end
or an error, calls `TransferError` after an error or an abort, and closes. It
gives every connection an id of its own and calls `ClientDisconnected` for
refused connections too; its `Stop` closes the listener, upon which `Serve`
returns without waiting for the connections. A `password_hash` is `<<>>` if the
account has none, `<<{p}>>` if it is a bcrypt hash of `p` (the empty password
included), and `<<{}>>` if it is a text no password matches. A part size is
turned into bytes as an `int64` (`main.go:108`): the number of MiB wraps around
at `Range64`, which is 2^44 in the code and 64 in the run. Settings that are only passed on (banner, hosts,
timeouts, booleans of the connections) are left out of `Config`; a word that
normalisation trims and lowers is a pair of the word and whether it is written
that way already.

## Runs

| Run | Bounds | Shows |
| --- | --- | --- |
| `fs_alone` | one session, two operations in a row, all 256 buckets over 8 keys that include a file and a directory of one name and a marker without children; 4 paths; pages and batches of 2; every call may fail or be lost | `MatchesPromise`: reply and bucket are those of the atomic operation, or the reply is an S3 error, or it is one of two named cases: `Misled` (a `MkdirAll` whose probe failed) and `RemovesFileOnly` (see below); `RefusalsChangeNothing`, `RenameLosesNothing` |
| `fs_shared` | two sessions, one operation each, a directory of up to two files and a marker; pages and batches of 1 | `MarkersEmpty`, `RmdirKeepsFiles` in all interleavings; `OperationsEnd`: the loops end while the directory changes |
| `fs_isolation` | three views (`r/`, `a/` without markers, the whole bucket read-only) | `Isolation`; `MatchesPromise` for a session alone under its prefix, with and without markers |
| `upload` | objects of 0 to 2 units, offsets 1 to 3, up to 4 new units in parts of 2, 2 parts in flight, at most 2 parts, 2 foreign changes, failing and lost calls, failing aborts | `Implements`; `NoOrphanedParts`: after `Close` no upload is open, unless its abort failed or its id was lost, and then it has no part; `ErrorSticks`, `RefusedResumeKeeps`, `WritesReturn`, `CloseEnds` |
| `download` | versions of 0, 2 and 3 units, 2 foreign changes, 2 seeks | `OneVersion`, `NoBodyLeaks`, `TransferEnds` |
| `listing` | all 128 buckets over 7 keys, pages of 2, 2 foreign changes; 3 `Readdir`s of 1, 2 or all entries, one `Seek` | `ListingFaithful`, `ListingUnique`, `ListingFinds` of every listing; `OffsetInBounds`, `ChunksInOrder`, `ChunksComplete` of the handle |
| `server` | four connections, two places, a bucket that may be missing, failing and lost calls, a signal at any time | `LimitHolds`, `RefusedOnlyWhenFull`, `ServesBucket`, `ShutdownEnds` |
| `config` | every pair of settings from file and environment over values at their limits (part sizes around 5 MiB, and those whose bytes wrap to less than that, to nothing or below), every list of up to two of 32 accounts, with hashes of a password, of the empty one and of none, prefixes of up to 3 and paths of up to 5 characters of `a`, `/`, `.` and space | `ValidStarts`, `EnvironmentWins`, `TLSOffered`, `AccountsFound`, `NoEmptyPassword`, `PrefixShape`, `KeyInView`, `MapsLikePaths`, `NamesLeadBack` |

The bounds let the interesting cases happen: directories of more than one page
and one batch, exactly full pages, a part that is exactly full at the end of
the data, the limit on parts reached, offsets below, at and behind the end, and
a foreign change between any two calls; more clients than places, refused ones
among them that leave before others come. Deadlock is checked for `download`.
The other systems may stop: a session when its operations are used up, a client
between two `Write`s or `Readdir`s, a process that has exited; what must not stop
there is said by the liveness properties.

Four runs show a disagreement between the code and what is written about it:

* `mkdir_shadow`: `Mkdir` says it refuses a directory that a file would shadow
  (`dir.go:114-115`). It looks two calls before it writes, so a file stored in
  between is not noticed.
* `removeall_keyerr`: `RemoveAll` "removes a path and everything below it"
  (`dir.go:249`). `deleteKeys` drops the list of keys S3 could not delete
  (`dir.go:426`) and `RemoveAll` returns nil with objects left. The run starts
  from buckets in which no name is both a file and a directory.
* `resume_shrunk`: a resumed upload stores "existing `[0,offset)` + new data"
  (`src/README.md:155`). If the object shrinks between the `HeadObject` and the
  `GetObject`, `io.LimitReader` ends early without an error and the new data
  lands at a smaller offset.
* `shutdown_cuts`: the wait of a shutdown is one "waiting for in-flight
  transfers to finish" (`main.go:173`). It waits for `Serve`, which returns as
  soon as the listener is closed, so the process ends at once and the transfers
  with it.

Three more are named exceptions in the properties of the passing runs:

* `RemovesFileOnly` in `MatchesPromise`: S3 may hold a file and a directory of
  one name. `RemoveAll` "removes a path and everything below it" (`dir.go:249`),
  and so `FileTree` promises; but when `Stat` finds the file, the code deletes
  that and returns nil (`dir.go:268-269`), and what is below stays.
* A part size above 2^44 MiB passes `Validate` (`config.go:289`). Its bytes may
  wrap to less than 5 MiB, which `NewClient` refuses (`backend.go:89`):
  `ValidStarts` allows this one late refusal, above `Range64` only. If they wrap
  to zero or below, `NewClient` silently takes the default (`backend.go:85`).
* A `password_hash` of the empty password passes `Validate` (`config.go:307`) and
  lets the empty password in (`config.go:388`): `NoEmptyPassword` allows that
  session, and no other.

## Fairness

`S3FS!FairSpec`: a session that is inside an operation goes on (weak fairness
of `Continue(s)`): the calls run under a 30 s context, so each is answered or
fails. Starting an operation is never fair. `Upload!FairSpec`: the transfer
goroutine goes on inside the handle's methods, the run goroutine goes on, and a
handle whose transfer failed gets its `TransferError` and `Close`, as the FTP
library does. Between two `Write`s the client may stay silent for ever. The
upload context has no deadline of its own (`backend.go:141-142`), so the
progress of an upload rests on S3 calls that end. `Download!FairSpec`: the
library keeps reading until EOF or an error, and then closes; clients that stall
are ended by its idle timeout, which appears as `Close`. `Server!FairSpec`: the
steps of `run` are weakly fair: `EnsureBucket` has a deadline of 30 s, the last
wait has one of ten seconds, and the first wait is for the signal
`ShutdownEnds` begins with. Nothing is assumed of the clients, of their
transfers, or of `Serve`.

## Proofs

TLAPS proves, for any number of sessions, any prefixes, names, page and batch
sizes, faults and lengths:

* `S3FSProofs`: `TypeCorrect`, `MarkersStayEmpty`, `SessionsIsolated`,
  `RmdirSparesFiles`. The inductive invariant is `TypeOK /\ MarkersEmpty` and,
  for every session, `Sound`: one that is inside an operation passed the
  read-only check and names no root directory, the calls of `Rename` and
  `RemoveDir` are made by these operations only, and the keys an operation has
  listed or still has to copy or delete lie under the prefix of its path. The properties are not inductive alone: a copy
  writes to `Target(k)` for a key listed earlier, and only for a key under the
  old prefix does that lie under the session's root and end in a slash exactly
  if `k` does. These facts about keys are the lemmas of `BucketProofs`
  (`joinRoot`, `dirKey`, `HasPrefix`, `Retarget`). `Isolation` and
  `RmdirKeepsFiles` follow step by step from the invariant.
* `AloneProofs`, of a session that is alone under its prefix while any others
  work beside it: `RefusedUnchanged`, `RenameKeeps` and `OperationsDeliver`. What others do cannot be
  seen by such a session (`NotMine`, from the proof of `Isolation`).
  `RefusedUnchanged` rests on `Untouched`: an operation at one of its checks, or
  refused, sees the bucket it began with. `RenameKeeps` rests on `RenameInv`,
  which says where a rename that can be done is: until the first copy the view is
  as it was (and tells what the old name is, a file or a directory); in the copy
  loop the originals are all there and those no longer to do have a copy; in the
  deletions everything listed has its copy. That a copy overwrites no original
  and no other copy is `Geometry`: different paths have different keys,
  `Retarget` is injective, and a target under the old prefix would mean a
  directory moved into itself or one that is not empty. The listing need not be
  complete for this: what was not listed is not deleted.
* `AloneProofs!OperationsDeliver`, of the same sessions: `MatchesPromise`, every
  operation gives the reply and leaves the objects of its function in `FileTree`.
  The inductive invariant `PromiseInv` follows an operation from call to call:
  which operations make the call (`Suits`), what the checks already passed say of
  the bucket it began with (`Knows`), that a listing has found every key up to its
  token and in the end every key (`Finds`), how far the bucket is on its way to
  the promised one (`Reached`: the bucket it began with, with the copies of the
  keys no longer to copy and without those no longer to delete), and that an
  answer is the promised one (`Answers`). Where a page shows only part of a
  directory, `NextPage` says that the rest is behind its last key, and
  `LeastTwo` that the two keys `RemoveDir` asks for tell an empty directory from
  one with children; both need a finite bucket, which every call leaves finite
  (`StaysFinite`). An answer may also be one of the two that `MatchesPromise`
  names; `FileGone` says what a `RemoveAll` that found the file of a file and a
  directory has done. The theorem has one hypothesis, `"keyerr" \notin Faults`:
  `deleteKeys` drops the list of keys S3 could not delete (`dir.go:426-434`), and
  with them `RemoveAll` does not keep its promise, as the run `removeall_keyerr`
  shows. Failing and lost calls are all allowed.
* `UploadProofs`: `TypeCorrect`, `NoPartsLeft`, `FirstErrorStays`. The
  inductive invariant adds to `TypeOK` that the context is cancelled only when
  the run goroutine is done or never started (`ContextOutlives`), that an open
  multipart upload has a run goroutine on its way to completing or aborting it
  unless the call that aborts it failed, and that one whose id was lost has no part and a run goroutine that
  has given up (`PartsOwned`), that what `Write` offers fits the data bound, and that a
  handle closed with success has no error (`Quiet`).
* `UploadProofs!Refinement`: `Upload` implements `AtomicUpload`. The mapping is
  the one of `UploadProps`; the initial states map to initial states and each
  step to a step of `AtomicUpload` or a stutter. It needs
  `Faithful`: an error is recorded before anybody acts on it (`Caused`), `Close`
  answers what is recorded (`Answered`), the object is replaced only when the
  body ended where the client ended it, and a run goroutine without an error has
  replaced it (`Ended`), and what was read and what is left to prepend is the
  kept part followed by what the client was told is written (`Assembled`).
  `RefusedResume` rests on `Kept`: nothing is written to the handle of a refused
  resume, and what it keeps is the whole object until somebody else changes it.
* `DownloadProofs`: `TypeCorrect`, `BodiesClosed`, `OneVersionRead`. The
  inductive invariant adds to `TypeOK` that the responses counted as open are
  exactly the body the handle holds, and that it holds none unless it is being
  read (`BodyOwned`). `OneVersionRead` adds `Tracked`: what was read and what the
  body still holds are one version of the object from where the reader
  positioned itself (`Continues`), and the reader is where its data ends.
* `BucketProofs`: the order of keys is a strict total order (`BeforeIrreflexive`,
  `BeforeTotal`, `BeforeTransitive`) and a page holds, with a key, every key
  before it (`LeastClosed`); a finite set of keys has a first one (`FirstKey`),
  and what `NextPage` and `LeastTwo` say of pages. The facts about paths and keys
  are here too.
* `ListingProofs`: `ListsFaithfully`, `ListsOnce`, `ListsWhatIsThere` of every
  listing, `InBounds`, `ReturnedInOrder`, `ReturnedComplete` of the handle. The
  invariant of a listing says that what was there all the time is still there
  (`Watched`), that an entry comes from a key that was there at some time
  (`Shown`), and that a key that was there all the time and is not behind the
  continuation token is listed (`Covered`); a page takes the least keys, so
  nothing is between it and the next token. That of the handle says that what was
  handed out is what is in front of the offset (`Handed`), the entries are in
  order, each name once (`InOrder`), and belong to a listing that is over
  (`Kept`). The code sorts by name; `Sorted` puts each entry at the position that
  counts those sooner than it, and `SortedFacts` shows that these positions are
  all different and leave no gap.
* `ConfigProofs`: `ValidatedStarts`, `RequiredOffered`, `PasswordGiven`,
  `FoundByName`, `SettingOrigin`, `PrefixNormal`, for every file, environment and
  list of accounts. Behind `Load` there is only what `Load` accepted
  (`Accepted`), TLS that is enabled is loaded (`TLSLoaded`), and a session's
  prefix is the server's or an account's (`Viewed`). `FoundByName` shows that the
  first account of a name is the only one, `ValidatedStarts` that bytes wrap only
  above `Range64` (`WrapsAround`, for the numbers `PartNumber` says a part size
  is), `PasswordGiven` that who logs in with an empty password has the hash of
  it, `PrefixNormal` what is left of a text
  when both its ends are cut.
* `ServerProofs`: `TypeCorrect`, `ClientLimit`, `Refusals`, `BucketExists`, for
  any finite or infinite set of connections and any limit. The inductive
  invariant adds to `TypeOK` that the driver's map holds exactly the connections
  being served and is finite and within the limit (`Counted`), and that a
  process past `EnsureBucket` has seen the bucket (`BucketSeen`). `LimitHolds` speaks
  of the connections served and not of the map, so it needs `Counted`.

The assumptions are those of the modules: names are not empty, ranks are
injective (`NamesAssumption`, `RankAssumption`), root prefixes are empty or end
in a slash, start buckets are finite and their markers empty, client paths are cleaned
(`S3FSAssumption`), a bucket that is listed is finite and has no empty key
(`ListingAssumption`; S3 has neither), an object has one content
(`UploadAssumption`), sizes are positive (`UploadAssumption`,
`DownloadAssumption`), `Range64` is positive, and an account, a prefix and a part size are texts and
numbers as the Go structs say (`ConfigAssumption`). TLC evaluates them in every run.

Only model-checked:

* liveness (`OperationsEnd`, `WritesReturn`, `CloseEnds`, `TransferEnds`,
  `ShutdownEnds`), which needs fairness;
* `KeyInView`, `MapsLikePaths`, `NamesLeadBack`, which speak of texts that are
  cleaned by folds over their characters: the equations of such a recursion
  follow from an induction the provers cannot instantiate.

## Not modelled

* Logging, flags, `-version` and `-hash-password`; reading the files of TLS
  (whether that succeeds is a free choice in `Config`); the construction of the
  HTTP client; `FileInfo` accessors and content types; `ReadAt`, which keeps no
  state; `copySource`, which escapes a key that S3 decodes again.
* `isRetryable` and `isRangeNotSatisfiable` (`backend.go:208-231`) are never
  called, although `src/README.md:193-195` says that S3 server-side errors
  return `450`: which reply an error gets is decided by the FTP library.
* TLS mode `off` with a certificate and a key still offers `AUTH TLS`, although
  `config.go:20` says it disables TLS. `Config` has what the code does; no
  property takes a side.
* A rename deletes a file that another session stores under the old name after
  it was copied, and a directory rename that failed half-way is refused when it
  is tried again. S3 offers no conditional delete and nothing is promised, so
  no property is stated.

## Plan

Done: `PathText`, `Paths`, `S3Bucket`, `S3FS` with `FileTree`, `Upload` with
`AtomicUpload`, `Download`, `Listing` with `DirHandle`, `Driver` with `Server`,
`Config`, and the proofs above. What could be added:

1. `Server` composed with `Upload`: the multipart uploads a shutdown leaves
   behind.
2. Accounts of `Config` as the sessions of `S3FS`, so that `Isolation` speaks of
   accounts whose prefixes overlap.
