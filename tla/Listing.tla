------------------------------ MODULE Listing ------------------------------
(***************************************************************************)
(* Listing a directory (ReadDir, internal/s3fs/dir.go): Stat, then the     *)
(* pages of a ListObjectsV2 with Delimiter "/", while other sessions put   *)
(* and delete objects between the calls.                                   *)
(***************************************************************************)
EXTENDS S3Bucket

CONSTANTS RootDir,    \* rootPrefix of the session's view
          ListPaths,  \* the cleaned paths the client lists
          Keys,       \* the keys other sessions put and delete
          Buckets,    \* what the bucket may hold at the start
          Faults,     \* whether S3 may show an "error"
          PageSize,   \* entries per ListObjectsV2 page
          MaxOthers   \* bound: changes by other sessions

ASSUME ListingAssumption ==
  /\ RootDir \in RootPrefix /\ ListPaths \subseteq Path /\ Keys \subseteq Key \ {<<>>}
  /\ \A b \in Buckets : IsBucket(b) /\ IsFiniteSet(DOMAIN b) /\ <<>> \notin DOMAIN b
  /\ Faults \subseteq {"error"}
  /\ PageSize \in Nat \ {0} /\ MaxOthers \in Nat

VARIABLES bucket, others,
          pc,     \* "start", "stat_head", "stat_list", "list" or "done"
          reply,  \* "none", "ok", "ENOENT" or "s3"
          path, token, infos,
          always, \* history: the keys that were there all the time of the listing
          ever    \* history: the keys that were there at some time of it

vars == <<bucket, others, pc, reply, path, token, infos, always, ever>>

\* The entries are a set: the code sorts them, directories first, as the last
\* thing it does.
Info == [name: Names, dir: BOOLEAN]

Init ==
  /\ bucket \in Buckets
  /\ others = MaxOthers
  /\ pc = "start" /\ reply = "none"
  /\ path = <<>> /\ token = <<>> /\ infos = {}
  /\ always = {} /\ ever = {}

keyDir(p) == dirKey(RootDir, p)

Reply(r) == pc' = "done" /\ reply' = r /\ UNCHANGED <<path, token, infos>>

Goto(next) == pc' = next /\ UNCHANGED <<reply, path, token, infos>>

\* The root needs no Stat call.
ReadDir(p) ==
  /\ pc \in {"start", "done"}
  /\ pc' = IF p = <<>> THEN "list" ELSE "stat_head"
  /\ path' = p
  /\ reply' = "none" /\ token' = <<>> /\ infos' = {}
  /\ always' = DOMAIN bucket /\ ever' = DOMAIN bucket
  /\ UNCHANGED <<bucket, others>>

\* What Stat finds does not matter, only that it finds something.
StatHead ==
  /\ pc = "stat_head"
  /\ Goto(IF joinRoot(RootDir, path) \in DOMAIN bucket THEN "list" ELSE "stat_list")
  /\ UNCHANGED <<bucket, others, always, ever>>

\* Mutant: a directory is recognized by its marker alone.
StatListMarker ==
  /\ pc = "stat_list"
  /\ IF keyDir(path) \notin DOMAIN bucket THEN Reply("ENOENT") ELSE Goto("list")
  /\ UNCHANGED <<bucket, others, always, ever>>

StatList ==
  /\ pc = "stat_list"
  /\ IF KeysUnder(bucket, keyDir(path)) = {} THEN Reply("ENOENT") ELSE Goto("list")
  /\ UNCHANGED <<bucket, others, always, ever>>

(***************************************************************************)
(* A page of the delimited listing (external): keys with a "/" behind the  *)
(* prefix are rolled up into the common prefix that ends there.            *)
(***************************************************************************)
Depth(prefix) == IF prefix = <<>> THEN 1 ELSE Len(prefix)

RollUp(k, prefix) ==
  IF Len(k) > Depth(prefix) THEN Append(SubSeq(k, 1, Depth(prefix)), "") ELSE k

Entries(prefix) == {RollUp(k, prefix) : k \in KeysUnder(bucket, prefix)}

\* The name of an entry relative to the prefix, "" for the prefix itself.
relativeName(prefix, e) == e[Depth(prefix)]

\* Mutant: names are not remembered from page to page.
addToPage(found, new) ==
  LET page == {i \in new : \A j \in new : j.name = i.name => (i.dir \/ ~j.dir)}
  IN  found \cup page

\* Directories of a page are added before its files; a name is added once.
add(found, new) ==
  LET seen == {i.name : i \in found}
      dirs == {i \in new : i.dir}
      kept == {i \in new : i.name \notin seen /\ (~i.dir => i.name \notin {d.name : d \in dirs})}
  IN  found \cup kept

\* Mutant: only the first page is read.
ListFirstPage ==
  LET prefix == keyDir(path)
      page   == Least(PageSize, Entries(prefix))
      new    == {[name |-> relativeName(prefix, e), dir |-> Len(e) > Depth(prefix)] :
                   e \in {e \in page : relativeName(prefix, e) # ""}}
  IN  /\ pc = "list"
      /\ infos' = add(infos, new)
      /\ pc' = "done" /\ reply' = "ok"
      /\ UNCHANGED <<bucket, others, path, token, always, ever>>

ListPage ==
  LET prefix == keyDir(path)
      rest   == {e \in Entries(prefix) : token = <<>> \/ Before(token, e)}
      page   == Least(PageSize, rest)
      new    == {[name |-> relativeName(prefix, e), dir |-> Len(e) > Depth(prefix)] :
                   e \in {e \in page : relativeName(prefix, e) # ""}}
  IN  /\ pc = "list"
      /\ infos' = add(infos, new)
      /\ \/ page # rest /\ token' \in Greatest(page) /\ UNCHANGED <<pc, reply>>
         \/ page = rest /\ pc' = "done" /\ reply' = "ok" /\ UNCHANGED token
      /\ UNCHANGED <<bucket, others, path, always, ever>>

\* Any of the calls fails, and so does the listing.
CallFails ==
  /\ "error" \in Faults
  /\ pc \in {"stat_head", "stat_list", "list"}
  /\ Reply("s3")
  /\ UNCHANGED <<bucket, others, always, ever>>

\* Another session puts or deletes an object.
Other ==
  /\ others > 0
  /\ others' = others - 1
  /\ \E k \in Keys :
       \/ k \notin DOMAIN bucket /\ bucket' = PutObject(bucket, k, Empty)
       \/ k \in DOMAIN bucket /\ bucket' = DeleteObjects(bucket, {k})
  /\ IF pc = "done"
       THEN UNCHANGED <<always, ever>>
       ELSE always' = always \cap DOMAIN bucket' /\ ever' = ever \cup DOMAIN bucket'
  /\ UNCHANGED <<pc, reply, path, token, infos>>

\* The calls of a listing that has begun.
Listing == StatHead \/ StatList \/ ListPage \/ CallFails

(***************************************************************************)
(* Properties                                                              *)
(***************************************************************************)
Child(n) == Append(SubSeq(keyDir(path), 1, Depth(keyDir(path)) - 1), n)

IsFileIn(K, n) == Child(n) \in K

IsDirIn(K, n) == \E k \in K : HasPrefix(k, Append(Child(n), ""))

\* A listing read in pages while the directory changes (dir.go:45-87) shows
\* everything that was there all the time, and nothing that never was.
ListingFaithful ==
  reply = "ok" =>
    /\ \A n \in Names : IsFileIn(always, n) \/ IsDirIn(always, n) => \E i \in infos : i.name = n
    /\ \A i \in infos : IF i.dir THEN IsDirIn(ever, i.name) ELSE IsFileIn(ever, i.name)

\* "Keep the first entry so LIST output stays unique" (dir.go:36-37), also
\* when a file and the directory of its name come on different pages.
ListingUnique == \A i, j \in infos : i.name = j.name => i = j

\* A directory that has some child all the time is found, marker or not: "so
\* virtual directories that only have children are still recognized"
\* (README.md:177-179; fs.go:88-116 looks twice).
ListingFinds ==
  reply = "ENOENT" => ~\E k \in always : HasPrefix(k, keyDir(path))

=============================================================================
