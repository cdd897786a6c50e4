----------------------------- MODULE DirHandle -----------------------------
(***************************************************************************)
(* A directory handle (File, internal/s3fs/file.go; Open, fs.go) over the  *)
(* listings of module Listing: the first Readdir lists the directory and   *)
(* keeps the entries, later ones hand out the next entries.  A directory   *)
(* found empty leaves the entries nil, and is listed again.                *)
(***************************************************************************)
EXTENDS Listing

CONSTANTS Counts,    \* the arguments of Readdir; 0 stands for all that are not positive
          MaxReads,  \* bound: calls of Readdir
          MaxSeeks   \* bound: calls of Seek

ASSUME HandleAssumption == Counts \subseteq Nat /\ MaxReads \in Nat /\ MaxSeeks \in Nat

VARIABLES handle,   \* "none", "open_head", "open_list", "ready", "loading" or "refused"
          name, entries, offset,
          count,    \* the argument of the Readdir that waits for a listing
          reads, seeks,
          returned, \* history: what Readdir returned since the last Seek
          ended     \* history: whether the last Readdir reached the end

fileVars == <<name, entries, offset, count, returned, ended>>
handleVars == <<handle, fileVars, reads, seeks>>
allVars == <<vars, handleVars>>

HandleInit ==
  /\ Init
  /\ handle = "none" /\ name = <<>> /\ entries = <<>> /\ offset = 0 /\ count = 0
  /\ reads = MaxReads /\ seeks = MaxSeeks
  /\ returned = <<>> /\ ended = FALSE

(***************************************************************************)
(* Open: only what Stat finds to be a directory gets a handle.             *)
(***************************************************************************)
Open(p) ==
  /\ handle = "none"
  /\ name' = p
  /\ handle' = IF p = <<>> THEN "ready" ELSE "open_head"
  /\ UNCHANGED <<vars, entries, offset, count, reads, seeks, returned, ended>>

OpenStat ==
  /\ \/ /\ handle = "open_head"
        /\ handle' = IF joinRoot(RootDir, name) \in DOMAIN bucket THEN "refused" ELSE "open_list"
     \/ /\ handle = "open_list"
        /\ handle' = IF KeysUnder(bucket, keyDir(name)) = {} THEN "refused" ELSE "ready"
     \/ /\ handle \in {"open_head", "open_list"} /\ "error" \in Faults
        /\ handle' = "refused"
  /\ UNCHANGED <<vars, fileVars, reads, seeks>>

(***************************************************************************)
(* Readdir                                                                 *)
(***************************************************************************)

\* The order of sort.Slice in ReadDir: directories first, then by name.
Sooner(i, j) == (i.dir /\ ~j.dir) \/ (i.dir = j.dir /\ Rank[i.name] < Rank[j.name])

\* The entry with n - 1 sooner ones is the n-th.
Sorted(S) ==
  [n \in 1 .. Cardinality(S) |-> CHOOSE i \in S : Cardinality({j \in S : Sooner(j, i)}) = n - 1]

\* Mutant: the entry at the boundary of two calls is skipped.
TakeSkips(es, n) ==
  LET end == IF n = 0 \/ offset + n > Len(es) THEN Len(es) ELSE offset + n
  IN  /\ returned' = returned \o SubSeq(es, offset + 1, end)
      /\ offset' = IF end < Len(es) THEN end + 1 ELSE end
      /\ ended' = (n = 0 \/ offset >= Len(es))

\* Mutant: the offset advances by the count asked for.
TakeUnclamped(es, n) ==
  LET end == IF n = 0 \/ offset + n > Len(es) THEN Len(es) ELSE offset + n
  IN  /\ returned' = returned \o SubSeq(es, offset + 1, end)
      /\ offset' = offset + (IF n = 0 THEN Len(es) - offset ELSE n)
      /\ ended' = (n = 0 \/ offset >= Len(es))

\* The entries behind the offset, at most n of them unless n is 0; with none
\* left, a positive n is answered with io.EOF.
Take(es, n) ==
  LET end == IF n = 0 \/ offset + n > Len(es) THEN Len(es) ELSE offset + n
  IN  /\ returned' = returned \o SubSeq(es, offset + 1, end)
      /\ offset' = end
      /\ ended' = (n = 0 \/ offset >= Len(es))

\* Mutant: the directory is listed by every call.
ReaddirReloads(n) ==
  /\ handle = "ready" /\ reads > 0
  /\ reads' = reads - 1
  /\ ReadDir(name) /\ handle' = "loading" /\ count' = n /\ ended' = FALSE
  /\ UNCHANGED <<entries, offset, returned, name, seeks>>

\* load lists the directory unless it has entries.
Readdir(n) ==
  /\ handle = "ready" /\ reads > 0
  /\ reads' = reads - 1
  /\ \/ entries # <<>> /\ Take(entries, n) /\ UNCHANGED <<vars, handle, entries, count>>
     \/ /\ entries = <<>>
        /\ ReadDir(name) /\ handle' = "loading" /\ count' = n /\ ended' = FALSE
        /\ UNCHANGED <<entries, offset, returned>>
  /\ UNCHANGED <<name, seeks>>

\* The listing returns; an error of it is an error of Readdir.
Loaded ==
  /\ handle = "loading" /\ pc = "done"
  /\ handle' = "ready" /\ count' = 0
  /\ \/ reply = "ok" /\ entries' = Sorted(infos) /\ Take(entries', count)
     \/ reply # "ok" /\ UNCHANGED <<entries, offset, returned, ended>>
  /\ UNCHANGED <<vars, name, reads, seeks>>

\* Seeking to 0, from the start or from where it is, rewinds.
Seek ==
  /\ handle = "ready" /\ seeks > 0
  /\ seeks' = seeks - 1
  /\ offset' = 0 /\ returned' = <<>> /\ ended' = FALSE
  /\ UNCHANGED <<vars, handle, name, entries, count, reads>>

HandleNext ==
  \/ \E p \in ListPaths : Open(p)
  \/ OpenStat
  \/ \E n \in Counts : Readdir(n)
  \/ Loaded \/ Seek
  \/ handle = "loading" /\ Listing /\ UNCHANGED handleVars
  \/ handle # "none" /\ Other /\ UNCHANGED handleVars

HandleSpec == HandleInit /\ [][HandleNext]_allVars

(***************************************************************************)
(* Properties                                                              *)
(***************************************************************************)

\* The slices of Readdir (file.go:89, 100) are within bounds: the offset never
\* passes the end of the entries, however often the directory is listed.
OffsetInBounds == offset =< Len(entries)

\* What a client collects by several Readdirs is in the order of one listing,
\* directories first, each name once, although the directory changes between
\* the calls (file.go:68 keeps the entries of the first listing).
ChunksInOrder ==
  \A i, j \in DOMAIN returned :
    i < j => Sooner(returned[i], returned[j]) /\ returned[i].name # returned[j].name

\* When Readdir reports the end (io.EOF, or all for a count of 0), the client
\* has got everything that was there all the time of the listing
\* (file.go:88-103: no entry is lost between two chunks).
ChunksComplete ==
  ended => \A n \in Names : IsFileIn(always, n) \/ IsDirIn(always, n) =>
             \E i \in DOMAIN returned : returned[i].name = n

=============================================================================
