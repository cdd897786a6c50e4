---------------------------- MODULE ListingProofs --------------------------
(***************************************************************************)
(* Proofs about modules Listing and DirHandle, for any directory, any page *)
(* size, any number of changes by other sessions and any sequence of       *)
(* Readdirs and Seeks.                                                     *)
(***************************************************************************)
EXTENDS DirHandle, BucketProofs

(***************************************************************************)
(* Entries of a directory                                                  *)
(***************************************************************************)
RealKey == Key \ {<<>>}

\* A key with a "/" added.
LEMMA SlashAdded ==
  ASSUME NEW s \in Seq(Segment)
  PROVE  /\ Append(s, "") \in Seq(Segment) /\ Append(s, "") # <<>>
         /\ Len(Append(s, "")) = Len(s) + 1
         /\ \A i \in 1 .. Len(s) : Append(s, "")[i] = s[i]
<1>1. ASSUME NEW e \in Segment
      PROVE  /\ Append(s, e) \in Seq(Segment) /\ Append(s, e) # <<>>
             /\ Len(Append(s, e)) = Len(s) + 1
             /\ \A i \in 1 .. Len(s) : Append(s, e)[i] = s[i]
  BY AppendProperties
<1> QED
  BY <1>1, SegmentFacts, Zenon

\* What ReadDir lists: a prefix that is empty or ends in "/".
LEMMA KeyDirType ==
  ASSUME NEW p \in Path
  PROVE  keyDir(p) \in Key
<1>1. RootDir \in RootPrefix
  BY ListingAssumption
<1>2. CASE p = <<>>
  BY <1>1, <1>2 DEF keyDir, dirKey, joinRoot, RootPrefix
<1>3. CASE p # <<>>
  BY <1>1, <1>3, DirKeyFacts DEF keyDir
<1> QED
  BY <1>2, <1>3

\* The segment that names an entry is behind the directory.
LEMMA DepthFacts ==
  ASSUME NEW prefix \in Key
  PROVE  /\ Depth(prefix) \in Nat \ {0}
         /\ Len(prefix) \in Nat /\ Len(prefix) =< Depth(prefix)
         /\ \A k \in RealKey :
              HasPrefix(k, prefix) <=> /\ Depth(prefix) =< Len(k)
                                       /\ \A i \in 1 .. (Depth(prefix) - 1) : k[i] = prefix[i]
<1>1. Len(prefix) \in Nat /\ (prefix = <<>> <=> Len(prefix) = 0)
  BY DEF Key
<1>2. \A k \in RealKey : Len(k) \in Nat \ {0}
  BY DEF RealKey, Key
<1> QED
  BY <1>1, <1>2 DEF Depth, HasPrefix

\* A key is shown as itself, or rolled up with the others of its directory.
LEMMA RollUpFacts ==
  ASSUME NEW prefix \in Key, NEW k \in RealKey, HasPrefix(k, prefix)
  PROVE  /\ RollUp(k, prefix) \in Key
         /\ relativeName(prefix, RollUp(k, prefix)) = k[Depth(prefix)]
         /\ k[Depth(prefix)] \in Segment
         /\ Len(RollUp(k, prefix)) > Depth(prefix) <=> Len(k) > Depth(prefix)
<1> DEFINE D == Depth(prefix)
<1>1. D \in Nat \ {0} /\ Len(k) \in Nat /\ D =< Len(k) /\ k \in Seq(Segment)
  BY DepthFacts DEF RealKey, Key
<1>2. k[D] \in Segment
  BY <1>1
<1>3. CASE Len(k) > D
  <2> DEFINE s == SubSeq(k, 1, D)
  <2>1. s \in Seq(Segment) /\ Len(s) = D /\ s[D] = k[D]
    BY <1>1
  <2> HIDE DEF s, D
  <2> DEFINE e == Append(s, "")
  <2>2. e \in Seq(Segment) /\ Len(e) = Len(s) + 1 /\ \A i \in 1 .. Len(s) : e[i] = s[i]
    BY <2>1, SlashAdded, Zenon
  <2>3. RollUp(k, prefix) = e
    BY <1>3 DEF RollUp, s, D
  <2> HIDE DEF e
  <2>4. Len(e) > D /\ e[D] = k[D]
    BY <1>1, <2>1, <2>2
  <2> QED
    BY <1>2, <1>3, <2>2, <2>3, <2>4 DEF Key, relativeName, D
<1>4. CASE ~(Len(k) > D)
  <2>1. RollUp(k, prefix) = k
    BY <1>4 DEF RollUp
  <2> QED
    BY <1>1, <1>2, <1>4, <2>1 DEF Key, relativeName
<1> QED
  BY <1>3, <1>4

\* The child of a name has that name at the depth of the listing.
LEMMA ChildFacts ==
  ASSUME path \in Path, NEW n \in Names
  PROVE  /\ Child(n) \in RealKey
         /\ Len(Child(n)) = Depth(keyDir(path))
         /\ Child(n)[Depth(keyDir(path))] = n
         /\ \A i \in 1 .. (Depth(keyDir(path)) - 1) : Child(n)[i] = keyDir(path)[i]
<1> DEFINE prefix == keyDir(path)
           D == Depth(prefix)
           s == SubSeq(prefix, 1, D - 1)
<1>1. prefix \in Seq(Segment)
  BY KeyDirType DEF Key
<1>2. D \in Nat \ {0} /\ Len(prefix) \in Nat /\ (D = 1 \/ D = Len(prefix))
  BY <1>1 DEF Depth
<1>3. s \in Seq(Segment) /\ Len(s) = D - 1 /\ \A i \in 1 .. D - 1 : s[i] = prefix[i]
  <2> HIDE DEF prefix, D
  <2>1. D - 1 \in Nat /\ D - 1 =< Len(prefix)
    BY <1>2
  <2>2. \A i \in 1 .. D - 1 : prefix[i] \in Segment
    BY <1>1, <1>2
  <2> QED
    BY <2>1, <2>2, SubSeqProperties
<1>4. n \in Segment
  BY DEF Segment
<1>5. Child(n) = Append(s, n)
  BY DEF Child
<1> HIDE DEF prefix, D, s
<1>6. /\ Append(s, n) \in Seq(Segment) /\ Len(Append(s, n)) = D
      /\ Append(s, n)[D] = n /\ Append(s, n) # <<>>
      /\ \A i \in 1 .. D - 1 : Append(s, n)[i] = s[i]
  BY <1>2, <1>3, <1>4, AppendProperties
<1> QED
  BY <1>3, <1>5, <1>6 DEF RealKey, Key, prefix, D

\* A file of a name is the one key that ends there; a directory of a name is
\* any key that goes on behind it.
LEMMA ShownAs ==
  ASSUME path \in Path, NEW n \in Names, NEW k \in RealKey
  PROVE  /\ k = Child(n) <=> /\ HasPrefix(k, keyDir(path))
                             /\ k[Depth(keyDir(path))] = n /\ Len(k) = Depth(keyDir(path))
         /\ HasPrefix(k, Append(Child(n), "")) <=>
              /\ HasPrefix(k, keyDir(path))
              /\ k[Depth(keyDir(path))] = n /\ Len(k) > Depth(keyDir(path))
<1> DEFINE prefix == keyDir(path)
           D == Depth(prefix)
           c == Child(n)
           d == Append(c, "")
<1>1. prefix \in Key
  BY KeyDirType
<1>2. /\ D \in Nat \ {0}
      /\ HasPrefix(k, prefix) <=> D =< Len(k) /\ \A i \in 1 .. (D - 1) : k[i] = prefix[i]
  BY <1>1, DepthFacts
<1>3. c \in Seq(Segment) /\ Len(c) = D /\ c[D] = n /\ \A i \in 1 .. (D - 1) : c[i] = prefix[i]
  BY ChildFacts DEF RealKey, Key
<1>4. k \in Seq(Segment) /\ Len(k) \in Nat
  BY DEF RealKey, Key
<1>5. d # <<>> /\ Len(d) = Len(c) + 1 /\ \A i \in 1 .. Len(c) : d[i] = c[i]
  BY <1>3, SlashAdded, Zenon
<1>6. d # <<>> /\ Len(d) = D + 1 /\ \A i \in 1 .. D : d[i] = c[i]
  BY <1>3, <1>5, Zenon
<1>7. ASSUME NEW i \in 1 .. D, k[D] = n, \A m \in 1 .. (D - 1) : k[m] = prefix[m]
      PROVE  k[i] = c[i]
  BY <1>2, <1>3, <1>7
<1> HIDE DEF prefix, D, c, d
<1>8. ASSUME HasPrefix(k, prefix), k[D] = n, Len(k) = D
      PROVE  k = c
  BY <1>2, <1>3, <1>4, <1>7, <1>8, SeqEqual
<1>9. ASSUME k = c
      PROVE  HasPrefix(k, prefix) /\ k[D] = n /\ Len(k) = D
  BY <1>2, <1>3, <1>9
<1>10. HasPrefix(k, d) <=> D + 1 =< Len(k) /\ \A i \in 1 .. D : k[i] = c[i]
  <2>1. (Len(d) - 1) = D
    BY <1>2, <1>6
  <2> QED
    BY <1>2, <1>6, <2>1 DEF HasPrefix
<1>11. ASSUME HasPrefix(k, prefix), k[D] = n, Len(k) > D
       PROVE  HasPrefix(k, d)
  BY <1>2, <1>4, <1>7, <1>10, <1>11
<1>12. ASSUME HasPrefix(k, d)
       PROVE  HasPrefix(k, prefix) /\ k[D] = n /\ Len(k) > D
  BY <1>2, <1>3, <1>4, <1>10, <1>12
<1> QED
  BY <1>8, <1>9, <1>11, <1>12 DEF prefix, D, c, d

\* What a set of keys shows under a name comes from a key of the directory.
LEMMA PresentKeys ==
  ASSUME path \in Path, NEW K, K \subseteq RealKey, NEW n \in Names,
         IsFileIn(K, n) \/ IsDirIn(K, n)
  PROVE  \E k \in K : HasPrefix(k, keyDir(path)) /\ k[Depth(keyDir(path))] = n
<1>1. CASE IsFileIn(K, n)
  BY <1>1, ShownAs, ChildFacts DEF IsFileIn
<1>2. CASE IsDirIn(K, n)
  BY <1>2, ShownAs DEF IsDirIn
<1> QED
  BY <1>1, <1>2

(***************************************************************************)
(* Pages                                                                   *)
(***************************************************************************)
Rest == {e \in Entries(keyDir(path)) : token = <<>> \/ Before(token, e)}

Page == Least(PageSize, Rest)

InfoOf(e) == [name |-> relativeName(keyDir(path), e), dir |-> Len(e) > Depth(keyDir(path))]

New == {InfoOf(e) : e \in {d \in Page : relativeName(keyDir(path), d) # ""}}

\* One page, in the terms of this module.
LEMMA PageStep ==
  ASSUME ListPage
  PROVE  /\ pc = "list"
         /\ infos' = add(infos, New)
         /\ \/ Page # Rest /\ token' \in Greatest(Page) /\ UNCHANGED <<pc, reply>>
            \/ Page = Rest /\ pc' = "done" /\ reply' = "ok" /\ UNCHANGED token
         /\ UNCHANGED <<bucket, others, path, always, ever>>
  BY Zenon DEF ListPage, Rest, Page, InfoOf, New

BucketOK == DOMAIN bucket \subseteq RealKey /\ IsFiniteSet(DOMAIN bucket)

\* The entries come from the keys of the directory, and there are finitely many.
LEMMA EntriesFacts ==
  ASSUME BucketOK, path \in Path
  PROVE  /\ IsFiniteSet(Entries(keyDir(path)))
         /\ Entries(keyDir(path)) \subseteq Key
         /\ \A e \in Entries(keyDir(path)) : \E k \in DOMAIN bucket :
              k \in RealKey /\ HasPrefix(k, keyDir(path)) /\ e = RollUp(k, keyDir(path))
         /\ \A k \in DOMAIN bucket :
              HasPrefix(k, keyDir(path)) => RollUp(k, keyDir(path)) \in Entries(keyDir(path))
<1> DEFINE prefix == keyDir(path)
           K == KeysUnder(bucket, prefix)
           E == Entries(prefix)
           f == [k \in K |-> RollUp(k, prefix)]
<1>1. prefix \in Key
  BY KeyDirType
<1>2. IsFiniteSet(K) /\ K \subseteq RealKey
  BY FS_Subset DEF BucketOK, KeysUnder
<1>3. E = {RollUp(k, prefix) : k \in K}
  BY DEF Entries
<1>4. f \in Surjection(K, E)
  BY <1>3 DEF Surjection
<1>5. IsFiniteSet(E)
  BY <1>2, <1>4, FS_Surjection
<1>6. E \subseteq Key
  BY <1>1, <1>2, <1>3, RollUpFacts DEF KeysUnder
<1>7. \A e \in E : \E k \in DOMAIN bucket : k \in RealKey /\ HasPrefix(k, prefix) /\ e = RollUp(k, prefix)
  BY <1>2, <1>3 DEF KeysUnder
<1>8. \A k \in DOMAIN bucket : HasPrefix(k, prefix) => RollUp(k, prefix) \in E
  BY <1>3 DEF KeysUnder
<1> QED
  BY <1>5, <1>6, <1>7, <1>8

\* The flag of a directory entry is a Boolean.
LEMMA GreaterType ==
  ASSUME NEW a \in Nat, NEW b \in Nat
  PROVE  (a > b) \in BOOLEAN
  OBVIOUS

\* What a page adds comes from keys, and nothing of it is left out.
LEMMA NewFacts ==
  ASSUME BucketOK, path \in Path
  PROVE  /\ IsFiniteSet(New)
         /\ New \subseteq Info
         /\ \A i \in New : \E k \in DOMAIN bucket :
              /\ k \in RealKey /\ HasPrefix(k, keyDir(path)) /\ k[Depth(keyDir(path))] = i.name
              /\ i.dir <=> Len(k) > Depth(keyDir(path))
         /\ \A e \in Page : relativeName(keyDir(path), e) \in Names =>
              \E i \in New : i.name = relativeName(keyDir(path), e)
<1> DEFINE prefix == keyDir(path)
           D == Depth(prefix)
           P == {d \in Page : relativeName(prefix, d) # ""}
           f == [e \in P |-> InfoOf(e)]
<1>1. prefix \in Key
  BY KeyDirType
<1>2. P \subseteq Entries(prefix)
  BY DEF Page, Rest, Least
<1>3. IsFiniteSet(P)
  BY <1>2, EntriesFacts, FS_Subset
<1>4. New = {InfoOf(e) : e \in P}
  BY DEF New
<1>5. f \in Surjection(P, New)
  BY <1>4 DEF Surjection
<1>6. IsFiniteSet(New)
  BY <1>3, <1>5, FS_Surjection
<1>7. ASSUME NEW e \in P
      PROVE  /\ InfoOf(e) \in Info /\ InfoOf(e).name = relativeName(prefix, e)
             /\ InfoOf(e).dir <=> Len(e) > D
             /\ \E k \in DOMAIN bucket :
                  /\ k \in RealKey /\ HasPrefix(k, prefix) /\ k[D] = InfoOf(e).name
                  /\ InfoOf(e).dir <=> Len(k) > D
  <2>1. PICK k \in DOMAIN bucket : k \in RealKey /\ HasPrefix(k, prefix) /\ e = RollUp(k, prefix)
    BY <1>2, EntriesFacts
  <2>2. /\ relativeName(prefix, e) = k[D] /\ k[D] \in Segment
        /\ Len(e) > D <=> Len(k) > D
    BY <1>1, <2>1, RollUpFacts
  <2>3. relativeName(prefix, e) \in Names
    BY <2>2 DEF Segment
  <2>4. /\ InfoOf(e).name = relativeName(prefix, e) /\ (InfoOf(e).dir <=> Len(e) > D)
    BY Zenon DEF InfoOf
  <2>5. InfoOf(e) \in Info
    <3>1. \A n \in Names, b \in BOOLEAN : [name |-> n, dir |-> b] \in Info
      BY DEF Info
    <3>2. (Len(e) > D) \in BOOLEAN
      <4>1. Len(e) \in Nat /\ D \in Nat
        BY <1>1, <2>1, RollUpFacts, DepthFacts DEF Key
      <4> QED
        BY <4>1, GreaterType, Zenon
    <3> QED
      BY <2>3, <3>1, <3>2, Zenon DEF InfoOf
  <2> QED
    BY <2>1, <2>2, <2>4, <2>5
<1>8. \A e \in Page : relativeName(prefix, e) \in Names => e \in P
  BY NamesAssumption, Zenon
<1> HIDE DEF P, prefix, D
<1>9. New \subseteq Info
  BY <1>4, <1>7
<1>10. \A i \in New : \E k \in DOMAIN bucket :
         /\ k \in RealKey /\ HasPrefix(k, prefix) /\ k[D] = i.name
         /\ i.dir <=> Len(k) > D
  BY <1>4, <1>7
<1>11. \A e \in Page : relativeName(prefix, e) \in Names =>
         \E i \in New : i.name = relativeName(prefix, e)
  BY <1>4, <1>7, <1>8
<1> QED
  BY <1>6, <1>9, <1>10, <1>11 DEF prefix, D

\* add keeps what was found, adds nothing but new entries, leaves no new name
\* out, and repeats none.
LEMMA AddFacts ==
  ASSUME NEW found, NEW new, new \subseteq Info, found \subseteq Info
  PROVE  /\ found \subseteq add(found, new) /\ add(found, new) \subseteq found \cup new
         /\ \A i \in new : \E j \in add(found, new) : j.name = i.name
         /\ (\A i, j \in found : i.name = j.name => i = j) =>
              \A i, j \in add(found, new) : i.name = j.name => i = j
<1> DEFINE seen == {i.name : i \in found}
           dirs == {i \in new : i.dir}
           kept == {i \in new : i.name \notin seen /\ (~i.dir => i.name \notin {d.name : d \in dirs})}
<1>1. add(found, new) = found \cup kept
  BY DEF add
<1>2. \A i \in new : \E j \in found \cup kept : j.name = i.name
  <2> TAKE i \in new
  <2>1. CASE i.name \in seen
    BY <2>1
  <2>2. CASE i.name \notin seen /\ (~i.dir => i.name \notin {d.name : d \in dirs})
    BY <2>2
  <2>3. CASE i.name \notin seen /\ i.name \in {d.name : d \in dirs}
    BY <2>3
  <2> QED
    BY <2>1, <2>2, <2>3
<1>3. ASSUME NEW i \in kept, NEW j \in kept, i.name = j.name
      PROVE  i = j
  <2>1. i.dir <=> j.dir
    BY <1>3
  <2>2. \A x, y \in Info : x.name = y.name /\ (x.dir <=> y.dir) => x = y
    BY DEF Info
  <2> QED
    BY <1>3, <2>1, <2>2
<1>4. ASSUME NEW i \in found, NEW j \in kept
      PROVE  i.name # j.name
  BY <1>4
<1> HIDE DEF kept
<1> QED
  <2>1. kept \subseteq new
    BY DEF kept
  <2> QED
    BY <1>1, <1>2, <1>3, <1>4, <2>1

(***************************************************************************)
(* The invariant of a listing                                              *)
(***************************************************************************)
ListTypes ==
  /\ pc \in {"start", "stat_head", "stat_list", "list", "done"}
  /\ path \in Path /\ token \in Key
  /\ infos \subseteq Info /\ IsFiniteSet(infos)

\* The histories: what was there all the time is there still.
Watched ==
  /\ always \subseteq ever /\ ever \subseteq RealKey
  /\ pc # "done" => always \subseteq DOMAIN bucket /\ reply = "none"
  /\ pc \notin {"start", "done"} => DOMAIN bucket \subseteq ever

\* An entry that was added was there at some time of the listing.
Shown == \A i \in infos : IF i.dir THEN IsDirIn(ever, i.name) ELSE IsFileIn(ever, i.name)

\* What was there all the time and is not behind the continuation token has
\* been listed.
Covered ==
  pc # "done" =>
    \A k \in always :
      /\ HasPrefix(k, keyDir(path))
      /\ k[Depth(keyDir(path))] \in Names
      /\ token # <<>> /\ ~Before(token, RollUp(k, keyDir(path)))
      => \E i \in infos : i.name = k[Depth(keyDir(path))]

Answers == ListingFaithful /\ ListingUnique /\ ListingFinds

ListInv == BucketOK /\ ListTypes /\ Watched /\ Shown /\ Covered /\ Answers

\* The path of a listing does not change while it runs.
LEMMA SamePath ==
  ASSUME UNCHANGED path
  PROVE  /\ keyDir(path)' = keyDir(path)
         /\ \A n : Child(n)' = Child(n)
<1>1. keyDir(path)' = keyDir(path)
  BY DEF keyDir, dirKey, joinRoot, EndsInSlash
<1> QED
  BY <1>1 DEF Child, Depth

\* What shows a file or a directory shows it after the step too.
LEMMA SameShown ==
  ASSUME UNCHANGED path, NEW n
  PROVE  /\ ever \subseteq ever' => /\ IsFileIn(ever, n) => IsFileIn(ever, n)'
                                    /\ IsDirIn(ever, n) => IsDirIn(ever, n)'
         /\ always' = always => /\ IsFileIn(always, n)' => IsFileIn(always, n)
                                /\ IsDirIn(always, n)' => IsDirIn(always, n)
<1>1. Child(n)' = Child(n) /\ Append(Child(n), "")' = Append(Child(n), "")
  BY SamePath, Zenon
<1> QED
  BY <1>1, Zenon DEF IsFileIn, IsDirIn, HasPrefix

\* Entries stay shown as the history grows.
LEMMA SameEntries ==
  ASSUME UNCHANGED <<path, infos>>, ever \subseteq ever'
  PROVE  Shown => Shown'
  BY SameShown, Zenon DEF Shown

\* Answers given stay true: nothing they are about changes.
LEMMA SameAnswers ==
  ASSUME UNCHANGED <<path, infos, reply, always, ever>>
  PROVE  Answers => Answers'
<1>1. ListingFaithful => ListingFaithful'
  BY SameShown, Zenon DEF ListingFaithful
<1>2. ListingUnique => ListingUnique'
  BY DEF ListingUnique
<1>3. ListingFinds => ListingFinds'
  BY SamePath DEF ListingFinds, HasPrefix
<1> QED
  BY <1>1, <1>2, <1>3 DEF Answers

\* Before the first listing nothing is claimed.
LEMMA InitList ==
  ASSUME Init
  PROVE  ListInv
<1>1. BucketOK
  BY ListingAssumption DEF Init, BucketOK, RealKey, IsBucket
<1>2. <<>> \in Path /\ <<>> \in Key /\ IsFiniteSet({})
  BY FS_EmptySet DEF Path, Key
<1> QED
  BY <1>1, <1>2 DEF Init, ListInv, ListTypes, Watched, Shown, Covered, Answers, ListingFaithful,
                    ListingUnique, ListingFinds

\* A listing starts with what is there.
LEMMA ReadDirStep ==
  ASSUME ListInv, NEW p \in Path, ReadDir(p)
  PROVE  ListInv'
<1>1. <<>> \in Key /\ IsFiniteSet({})
  BY FS_EmptySet DEF Key
<1>2. BucketOK' /\ DOMAIN bucket \subseteq RealKey
  BY DEF ListInv, BucketOK, ReadDir
<1>3. /\ pc' \in {"list", "stat_head"} /\ path' = p /\ reply' = "none" /\ token' = <<>> /\ infos' = {}
      /\ always' = DOMAIN bucket /\ ever' = DOMAIN bucket /\ bucket' = bucket
  BY DEF ReadDir
<1>4. ListTypes' /\ Watched'
  BY <1>1, <1>2, <1>3 DEF ListTypes, Watched
<1>5. Shown' /\ Covered'
  BY <1>3 DEF Shown, Covered
<1>6. Answers'
  BY <1>3 DEF Answers, ListingFaithful, ListingUnique, ListingFinds
<1> QED
  BY <1>2, <1>4, <1>5, <1>6 DEF ListInv

\* The Stat of ReadDir, or a failing call, keeps the invariant.
LEMMA StatStep ==
  ASSUME ListInv, StatHead \/ StatList \/ CallFails
  PROVE  ListInv'
<1>1. /\ UNCHANGED <<bucket, path, token, infos, always, ever>>
      /\ pc \in {"stat_head", "stat_list", "list"}
      /\ \/ pc' \in {"stat_list", "list"} /\ reply' = reply
         \/ pc' = "done" /\ reply' \in {"ENOENT", "s3"}
  BY DEF StatHead, StatList, CallFails, Goto, Reply
<1>2. BucketOK' /\ ListTypes' /\ Watched'
  BY <1>1 DEF ListInv, BucketOK, ListTypes, Watched
<1>3. Shown'
  BY <1>1, SameEntries DEF ListInv
<1>4. Covered'
  BY <1>1, SamePath DEF ListInv, Covered, HasPrefix, Depth, RollUp
<1>5. Answers'
  <2>1. CASE reply' = reply
    BY <1>1, <2>1, SameAnswers DEF ListInv
  <2>2. CASE reply' = "s3"
    BY <1>1, <2>2 DEF ListInv, Answers, ListingFaithful, ListingUnique, ListingFinds
  <2>3. CASE reply' = "ENOENT"
    <3>1. pc = "stat_list" \/ reply' = reply
      BY <2>3 DEF StatHead, StatList, CallFails, Goto, Reply
    <3>2. KeysUnder(bucket, keyDir(path)) = {} \/ reply' = reply
      BY <2>3 DEF StatHead, StatList, CallFails, Goto, Reply
    <3>3. always \subseteq DOMAIN bucket
      BY <1>1 DEF ListInv, Watched
    <3>4. KeysUnder(bucket, keyDir(path)) = {} => ListingFinds'
      BY <1>1, <3>3, SamePath DEF ListingFinds, KeysUnder, HasPrefix
    <3>5. ListingFaithful' /\ ListingUnique'
      BY <1>1, <2>3 DEF ListInv, Answers, ListingFaithful, ListingUnique
    <3> QED
      BY <2>1, <3>2, <3>4, <3>5 DEF Answers
  <2> QED
    BY <1>1, <2>1, <2>2, <2>3
<1> QED
  BY <1>2, <1>3, <1>4, <1>5 DEF ListInv

\* A page keeps the invariant, and the last page completes the listing.
LEMMA PageKeeps ==
  ASSUME ListInv, ListPage
  PROVE  ListInv'
<1> DEFINE prefix == keyDir(path)
           D == Depth(prefix)
<1>1. /\ pc = "list"
      /\ infos' = add(infos, New)
      /\ \/ Page # Rest /\ token' \in Greatest(Page) /\ UNCHANGED <<pc, reply>>
         \/ Page = Rest /\ pc' = "done" /\ reply' = "ok" /\ UNCHANGED token
      /\ UNCHANGED <<bucket, others, path, always, ever>>
  BY PageStep
<1>2. /\ BucketOK /\ path \in Path /\ token \in Key /\ infos \subseteq Info /\ IsFiniteSet(infos)
      /\ always \subseteq DOMAIN bucket /\ reply = "none" /\ DOMAIN bucket \subseteq ever
      /\ always \subseteq RealKey /\ ever \subseteq RealKey /\ DOMAIN bucket \subseteq RealKey
      /\ always \subseteq ever
  BY <1>1 DEF ListInv, ListTypes, Watched, BucketOK
<1>3. /\ IsFiniteSet(New) /\ New \subseteq Info
      /\ \A i \in New : \E k \in DOMAIN bucket :
           k \in RealKey /\ HasPrefix(k, prefix) /\ k[D] = i.name /\ (i.dir <=> Len(k) > D)
      /\ \A e \in Page : relativeName(prefix, e) \in Names =>
           \E i \in New : i.name = relativeName(prefix, e)
  BY <1>2, NewFacts
<1>4. /\ infos \subseteq infos' /\ infos' \subseteq infos \cup New
      /\ \A i \in New : \E j \in infos' : j.name = i.name
      /\ ListingUnique => ListingUnique'
  BY <1>1, <1>2, <1>3, AddFacts DEF ListingUnique
<1>5. /\ IsFiniteSet(Entries(prefix)) /\ Entries(prefix) \subseteq Key
      /\ \A k \in DOMAIN bucket : HasPrefix(k, prefix) => RollUp(k, prefix) \in Entries(prefix)
  BY <1>2, EntriesFacts
<1>6. Rest \subseteq Entries(prefix) /\ Page \subseteq Rest /\ IsFiniteSet(Rest)
  BY <1>5, FS_Subset DEF Rest, Page, Least
<1>7. prefix \in Key
  BY <1>2, KeyDirType
<1> HIDE DEF prefix, D
<1>8. ListTypes'
  <2>1. infos' \subseteq Info /\ IsFiniteSet(infos')
    BY <1>2, <1>3, <1>4, FS_Union, FS_Subset
  <2>2. token' \in Key
    BY <1>1, <1>2, <1>5, <1>6 DEF Greatest
  <2> QED
    BY <1>1, <1>2, <2>1, <2>2 DEF ListTypes
<1>9. BucketOK' /\ Watched'
  BY <1>1, <1>2 DEF BucketOK, Watched
<1>10. Shown'
  <2>1. ASSUME NEW i \in infos
        PROVE  IF i.dir THEN IsDirIn(ever, i.name)' ELSE IsFileIn(ever, i.name)'
    BY <1>1, SameShown DEF ListInv, Shown
  <2>2. ASSUME NEW i \in New
        PROVE  IF i.dir THEN IsDirIn(ever, i.name) ELSE IsFileIn(ever, i.name)
    <3>1. PICK k \in DOMAIN bucket :
            k \in RealKey /\ HasPrefix(k, prefix) /\ k[D] = i.name /\ (i.dir <=> Len(k) > D)
      BY <1>3
    <3>2. i.name \in Names
      BY <1>3 DEF Info
    <3>3. CASE i.dir
      BY <1>2, <3>1, <3>2, <3>3, ShownAs, Zenon DEF IsDirIn, prefix, D
    <3>4. CASE ~i.dir
      <4>1. Len(k) = D
        <5>1. D \in Nat /\ Len(k) \in Nat /\ D =< Len(k)
          BY <1>7, <3>1, DepthFacts DEF D, RealKey, Key
        <5> QED
          BY <3>1, <3>4, <5>1
      <4>2. k = Child(i.name)
        BY <1>2, <3>1, <3>2, <4>1, ShownAs, Zenon DEF prefix, D
      <4> QED
        BY <1>2, <3>4, <4>2 DEF IsFileIn
    <3> QED
      BY <3>3, <3>4
  <2>3. ASSUME NEW i \in New
        PROVE  IF i.dir THEN IsDirIn(ever, i.name)' ELSE IsFileIn(ever, i.name)'
    BY <1>1, <2>2, SameShown
  <2> QED
    BY <1>4, <2>1, <2>3 DEF Shown
<1>11. ASSUME NEW k \in always, HasPrefix(k, prefix), k[D] \in Names,
              Page = Rest \/ ~Before(token', RollUp(k, prefix))
       PROVE  \E i \in infos' : i.name = k[D]
  <2> DEFINE e == RollUp(k, prefix)
  <2>1. k \in RealKey /\ k \in DOMAIN bucket
    BY <1>2
  <2>2. e \in Key /\ relativeName(prefix, e) = k[D] /\ e \in Entries(prefix)
    BY <1>5, <1>7, <1>11, <2>1, RollUpFacts DEF D
  <2> HIDE DEF e
  <2>3. CASE token # <<>> /\ ~Before(token, e)
    <3>1. \E i \in infos : i.name = k[D]
      BY <1>1, <1>11, <2>3 DEF ListInv, Covered, prefix, D, e
    <3> QED
      BY <1>4, <3>1
  <2>4. CASE e \in Page
    BY <1>3, <1>4, <1>11, <2>2, <2>4
  <2>5. CASE e \in Rest /\ Page # Rest
    <3>1. token' \in Page /\ token' \in Key
      BY <1>1, <1>5, <1>6, <2>5 DEF Greatest
    <3>2. ~Before(token', e)
      BY <1>11, <2>5 DEF e
    <3>3. e = token' \/ Before(e, token')
      BY <2>2, <3>1, <3>2, BeforeTotal
    <3>4. PageSize \in Nat /\ Rest \subseteq Key
      BY <1>5, <1>6, ListingAssumption
    <3>5. e \in Page
      BY <1>6, <2>5, <3>1, <3>3, <3>4, LeastClosed DEF Page
    <3> QED
      BY <2>4, <3>5
  <2> QED
    BY <2>2, <2>3, <2>4, <2>5 DEF Rest, prefix
<1>12. Covered'
  BY <1>1, <1>11, SamePath DEF Covered, prefix, D
<1>13. ListingFaithful'
  <2>1. CASE Page # Rest
    BY <1>1, <1>2, <2>1 DEF ListingFaithful
  <2>2. CASE Page = Rest
    <3>1. ASSUME NEW n \in Names, IsFileIn(always, n)' \/ IsDirIn(always, n)'
          PROVE  \E i \in infos' : i.name = n
      <4>1. IsFileIn(always, n) \/ IsDirIn(always, n)
        BY <1>1, <3>1, SameShown
      <4>2. PICK k \in always : HasPrefix(k, prefix) /\ k[D] = n
        BY <1>2, <4>1, PresentKeys DEF prefix, D
      <4> QED
        BY <1>11, <2>2, <4>2
    <3> QED
      BY <1>10, <3>1 DEF ListingFaithful, Shown
  <2> QED
    BY <2>1, <2>2
<1>14. Answers'
  BY <1>1, <1>2, <1>4, <1>13 DEF ListInv, Answers, ListingFinds
<1> QED
  BY <1>8, <1>9, <1>10, <1>12, <1>14 DEF ListInv

\* What other sessions do between two pages keeps the invariant.
LEMMA OtherStep ==
  ASSUME ListInv, Other
  PROVE  ListInv'
<1>1. UNCHANGED <<pc, reply, path, token, infos>>
  BY DEF Other
<1>2. BucketOK'
  <2>1. PICK k \in Keys : \/ bucket' = PutObject(bucket, k, Empty)
                          \/ bucket' = DeleteObjects(bucket, {k})
    BY DEF Other
  <2>2. k \in RealKey
    BY ListingAssumption DEF RealKey
  <2>3. CASE bucket' = PutObject(bucket, k, Empty)
    <3>1. DOMAIN bucket' = DOMAIN bucket \cup {k}
      BY <2>3 DEF PutObject
    <3> QED
      BY <2>2, <3>1, FS_AddElement DEF ListInv, BucketOK
  <2>4. CASE bucket' = DeleteObjects(bucket, {k})
    <3>1. DOMAIN bucket' = DOMAIN bucket \ {k}
      BY <2>4 DEF DeleteObjects
    <3> QED
      BY <3>1, FS_RemoveElement DEF ListInv, BucketOK
  <2> QED
    BY <2>1, <2>3, <2>4
<1>3. /\ ever \subseteq ever' /\ always' \subseteq always
      /\ pc = "done" => UNCHANGED <<always, ever>>
      /\ pc # "done" => always' \subseteq DOMAIN bucket' /\ ever' = ever \cup DOMAIN bucket'
  BY DEF Other
<1>4. ListTypes'
  BY <1>1 DEF ListInv, ListTypes
<1>5. Watched'
  BY <1>1, <1>2, <1>3 DEF ListInv, Watched, BucketOK
<1>6. Shown'
  BY <1>1, <1>3, SameEntries DEF ListInv
<1>7. Covered'
  BY <1>1, <1>3, SamePath DEF ListInv, Covered
<1>8. Answers'
  <2>1. CASE pc = "done"
    BY <1>1, <1>3, <2>1, SameAnswers DEF ListInv
  <2>2. CASE pc # "done"
    <3>1. reply' = "none"
      BY <1>1, <2>2 DEF ListInv, Watched
    <3> QED
      BY <1>1, <3>1 DEF ListInv, Answers, ListingFaithful, ListingUnique, ListingFinds
  <2> QED
    BY <2>1, <2>2
<1> QED
  BY <1>2, <1>4, <1>5, <1>6, <1>7, <1>8 DEF ListInv

(***************************************************************************)
(* Sorting the entries                                                     *)
(***************************************************************************)

\* Directories first, then by name, is a strict order of all entries.
LEMMA SoonerOrder ==
  ASSUME NEW i \in Info, NEW j \in Info, NEW k \in Info
  PROVE  /\ ~Sooner(i, i)
         /\ Sooner(i, j) /\ Sooner(j, k) => Sooner(i, k)
         /\ i = j \/ Sooner(i, j) \/ Sooner(j, i)
<1>1. \A x \in Info : x.name \in Names /\ x.dir \in BOOLEAN /\ Rank[x.name] \in Nat
  BY RankAssumption DEF Info
<1>2. \A x, y \in Info : x.dir = y.dir <=> (x.dir <=> y.dir)
  BY <1>1, Zenon
<1>3. \A x, y \in Info :
        Sooner(x, y) <=> (x.dir /\ ~y.dir) \/ ((x.dir <=> y.dir) /\ Rank[x.name] < Rank[y.name])
  BY <1>2, Zenon DEF Sooner
<1>4. \A x, y \in Info : Rank[x.name] = Rank[y.name] /\ (x.dir <=> y.dir) => x = y
  <2>1. \A x, y \in Info : x.name = y.name /\ (x.dir <=> y.dir) => x = y
    BY DEF Info
  <2> QED
    BY <1>1, <2>1, RankAssumption
<1>5. ~Sooner(i, i)
  BY <1>1, <1>3
<1>6. Sooner(i, j) /\ Sooner(j, k) => Sooner(i, k)
  BY <1>1, <1>3
<1>7. i = j \/ Sooner(i, j) \/ Sooner(j, i)
  BY <1>1, <1>3, <1>4
<1> QED
  BY <1>5, <1>6, <1>7

\* Different numbers below the size of a finite set are all the numbers below it.
LEMMA EveryRank ==
  ASSUME NEW S, IsFiniteSet(S), NEW r \in [S -> Nat],
         \A d, e \in S : r[d] = r[e] => d = e,
         \A e \in S : r[e] < Cardinality(S),
         NEW n \in 1 .. Cardinality(S)
  PROVE  \E e \in S : r[e] = n - 1
<1> DEFINE N == Cardinality(S)
           f == [e \in S |-> r[e] + 1]
<1>1. N \in Nat /\ IsFiniteSet(1 .. N) /\ Cardinality(1 .. N) = N
  BY FS_CardinalityType, FS_Interval
<1>2. f \in [S -> 1 .. N]
  BY <1>1
<1>3. \A d, e \in S : f[d] = f[e] => d = e
  OBVIOUS
<1>4. f \in Injection(S, 1 .. N)
  BY <1>2, <1>3 DEF Injection, IsInjective
<1>5. f \in Surjection(S, 1 .. N)
  <2> HIDE DEF f
  <2> QED
    BY <1>1, <1>4, FS_Injection
<1>6. PICK e \in S : f[e] = n
  BY <1>5, Zenon DEF Surjection
<1>7. r[e] + 1 = n /\ r[e] \in Nat
  BY <1>6
<1>8. r[e] = n - 1
  BY <1>7
<1> QED
  BY <1>8

\* The number of sooner entries tells the entries apart and grows with the order.
LEMMA SoonerCount ==
  ASSUME NEW S, S \subseteq Info, IsFiniteSet(S),
         NEW r, r = [e \in S |-> Cardinality({j \in S : Sooner(j, e)})]
  PROVE  /\ r \in [S -> Nat]
         /\ \A e \in S : r[e] < Cardinality(S)
         /\ \A d, e \in S : Sooner(d, e) => r[d] < r[e]
<1> DEFINE Below(e) == {j \in S : Sooner(j, e)}
<1>1. \A e \in S : r[e] = Cardinality(Below(e))
  OBVIOUS
<1>2. \A e \in S : Below(e) \subseteq S /\ e \notin Below(e)
  BY SoonerOrder
<1>3. \A d, e \in S : Sooner(d, e) => Below(d) \subseteq Below(e) /\ d \in Below(e)
  BY SoonerOrder
<1> HIDE DEF Below
<1>4. \A e \in S : IsFiniteSet(Below(e)) /\ Cardinality(Below(e)) \in Nat
  BY <1>2, FS_Subset, FS_CardinalityType
<1>5. Cardinality(S) \in Nat
  BY FS_CardinalityType
<1>6. r \in [S -> Nat]
  BY <1>1, <1>4
<1>7. ASSUME NEW e \in S
      PROVE  r[e] < Cardinality(S)
  <2>1. Cardinality(Below(e)) =< Cardinality(S) /\ Cardinality(Below(e)) # Cardinality(S)
    BY <1>2, FS_Subset
  <2>2. r[e] =< Cardinality(S) /\ r[e] # Cardinality(S)
    BY <1>1, <2>1
  <2>3. r[e] \in Nat
    BY <1>6
  <2> QED
    BY <1>5, <2>2, <2>3
<1>8. ASSUME NEW d \in S, NEW e \in S, Sooner(d, e)
      PROVE  r[d] < r[e]
  <2>1. Below(d) \subseteq Below(e) /\ Below(d) # Below(e)
    BY <1>2, <1>3, <1>8
  <2>2. Cardinality(Below(d)) =< Cardinality(Below(e)) /\ Cardinality(Below(d)) # Cardinality(Below(e))
    BY <1>4, <2>1, FS_Subset
  <2>3. r[d] =< r[e] /\ r[d] # r[e]
    BY <1>1, <2>2
  <2>4. r[d] \in Nat /\ r[e] \in Nat
    BY <1>6
  <2> QED
    BY <2>3, <2>4
<1> QED
  BY <1>6, <1>7, <1>8

\* Sorted returns every entry once, in that order.
LEMMA SortedFacts ==
  ASSUME NEW S, S \subseteq Info, IsFiniteSet(S)
  PROVE  /\ Sorted(S) \in Seq(S)
         /\ \A m, n \in 1 .. Len(Sorted(S)) : m < n => Sooner(Sorted(S)[m], Sorted(S)[n])
         /\ \A e \in S : \E n \in 1 .. Len(Sorted(S)) : Sorted(S)[n] = e
<1> DEFINE r == [e \in S |-> Cardinality({j \in S : Sooner(j, e)})]
           N == Cardinality(S)
           s == Sorted(S)
<1>1. /\ s = [n \in 1 .. N |-> CHOOSE i \in S : Cardinality({j \in S : Sooner(j, i)}) = n - 1]
      /\ \A e \in S : r[e] = Cardinality({j \in S : Sooner(j, e)})
  BY DEF Sorted
<1>2. N \in Nat
  BY FS_CardinalityType
<1>3. /\ r \in [S -> Nat]
      /\ \A e \in S : r[e] < N
      /\ \A d, e \in S : Sooner(d, e) => r[d] < r[e]
  BY SoonerCount
<1> HIDE DEF r, s
<1>4. \A d, e \in S : r[d] = r[e] => d = e
  <2> SUFFICES ASSUME NEW d \in S, NEW e \in S, d # e
               PROVE  r[d] # r[e]
    OBVIOUS
  <2>1. Sooner(d, e) \/ Sooner(e, d)
    BY SoonerOrder
  <2>2. r[d] \in Nat /\ r[e] \in Nat /\ (r[d] < r[e] \/ r[e] < r[d])
    BY <1>3, <2>1
  <2> QED
    BY <2>2
<1>5. \A n \in 1 .. N : \E e \in S : r[e] = n - 1
  BY <1>3, <1>4, EveryRank
<1> HIDE DEF N
<1>6. ASSUME NEW n \in 1 .. N
      PROVE  s[n] \in S /\ r[s[n]] = n - 1
  <2> DEFINE C(e) == Cardinality({j \in S : Sooner(j, e)})
  <2>1. s[n] = CHOOSE i \in S : C(i) = n - 1
    BY <1>1
  <2>2. \E e \in S : C(e) = n - 1
    BY <1>1, <1>5, Zenon
  <2>3. \A e \in S : r[e] = C(e)
    BY <1>1, Zenon
  <2> HIDE DEF C
  <2>4. s[n] \in S /\ C(s[n]) = n - 1
    BY <2>1, <2>2
  <2> QED
    BY <2>3, <2>4
<1>7. s \in Seq(S) /\ Len(s) = N
  <2> DEFINE c(n) == CHOOSE i \in S : Cardinality({j \in S : Sooner(j, i)}) = n - 1
  <2>1. s = [n \in 1 .. N |-> c(n)]
    BY <1>1, Zenon
  <2> HIDE DEF c
  <2>2. s \in [1 .. N -> S]
    BY <1>6, <2>1
  <2> QED
    BY <1>2, <2>2
<1>8. ASSUME NEW m \in 1 .. N, NEW n \in 1 .. N, m < n
      PROVE  Sooner(s[m], s[n])
  <2>1. s[m] \in S /\ s[n] \in S /\ r[s[m]] = m - 1 /\ r[s[n]] = n - 1
    BY <1>6
  <2>2. ~(r[s[n]] < r[s[m]]) /\ r[s[n]] # r[s[m]]
    BY <1>2, <1>8, <2>1
  <2>3. s[m] # s[n] /\ ~Sooner(s[n], s[m])
    BY <1>3, <2>1, <2>2
  <2> QED
    BY <2>1, <2>3, SoonerOrder
<1>9. ASSUME NEW e \in S
      PROVE  \E n \in 1 .. N : s[n] = e
  <2>1. r[e] \in Nat /\ r[e] < N
    BY <1>3
  <2>2. r[e] + 1 \in 1 .. N /\ (r[e] + 1) - 1 = r[e]
    BY <1>2, <2>1
  <2>3. s[r[e] + 1] \in S /\ r[s[r[e] + 1]] = r[e]
    BY <1>6, <2>2
  <2> QED
    BY <1>4, <2>2, <2>3
<1> QED
  BY <1>7, <1>8, <1>9 DEF s

(***************************************************************************)
(* The invariant of a handle                                               *)
(***************************************************************************)
HandleTypes ==
  name \in Path /\ entries \in Seq(Info) /\ offset \in Nat /\ count \in Nat

\* What was handed out is what is in front of the offset.
Handed == offset =< Len(entries) /\ returned = SubSeq(entries, 1, offset)

\* The entries are in order, each name once.
InOrder ==
  \A i, j \in 1 .. Len(entries) : i < j => Sooner(entries[i], entries[j]) /\ entries[i].name # entries[j].name

\* Only a handle without entries lists its directory.
Lists == handle = "loading" => entries = <<>> /\ ~ended

Complete ==
  \A n \in Names : IsFileIn(always, n) \/ IsDirIn(always, n) =>
    \E i \in 1 .. Len(entries) : entries[i].name = n

\* The entries kept are those of the last listing, and it is over.
Kept == ended \/ entries # <<>> => pc = "done" /\ Complete

\* The end is reported when everything was handed out.
AtEnd == ended => offset = Len(entries)

HandleInv == ListInv /\ HandleTypes /\ Handed /\ InOrder /\ Lists /\ Kept /\ AtEnd

\* A sequence up to e is the one up to d followed by what is between.
LEMMA Chunks ==
  ASSUME NEW T, NEW es \in Seq(T), NEW d \in Nat, NEW e \in Nat, d =< e, e =< Len(es)
  PROVE  SubSeq(es, 1, d) \o SubSeq(es, d + 1, e) = SubSeq(es, 1, e)
<1> DEFINE a == SubSeq(es, 1, d)
           b == SubSeq(es, d + 1, e)
           c == SubSeq(es, 1, e)
<1>1. /\ a \in Seq(T) /\ Len(a) = d /\ \A i \in 1 .. d : a[i] = es[i]
      /\ b \in Seq(T) /\ Len(b) = e - d /\ \A i \in 1 .. (e - d) : b[i] = es[d + i]
      /\ c \in Seq(T) /\ Len(c) = e /\ \A i \in 1 .. e : c[i] = es[i]
  OBVIOUS
<1> HIDE DEF a, b, c
<1>2. /\ a \o b \in Seq(T) /\ Len(a \o b) = Len(a) + Len(b)
      /\ \A i \in 1 .. Len(a) + Len(b) : (a \o b)[i] = IF i =< Len(a) THEN a[i] ELSE b[i - Len(a)]
  <2>1. a \in Seq(T) /\ b \in Seq(T)
    BY <1>1
  <2> QED
    BY <2>1, ConcatProperties
<1> DEFINE ab == a \o b
<1> HIDE DEF ab
<1>3. /\ ab \in Seq(T) /\ Len(ab) = e
      /\ \A i \in 1 .. e : ab[i] = IF i =< d THEN a[i] ELSE b[i - d]
  <2>1. Len(a) + Len(b) = e
    BY <1>1
  <2> QED
    BY <1>1, <1>2, <2>1, Zenon DEF ab
<1>4. ab = c
  <2>1. ASSUME NEW i \in 1 .. e
        PROVE  ab[i] = c[i]
    <3>1. CASE i =< d
      BY <1>1, <1>3, <3>1
    <3>2. CASE ~(i =< d)
      <4>1. i - d \in 1 .. (e - d) /\ d + (i - d) = i
        BY <3>2
      <4>2. b[i - d] = es[i]
        BY <1>1, <4>1
      <4> QED
        BY <1>1, <1>3, <3>2, <4>2
    <3> QED
      BY <3>1, <3>2
  <2> QED
    BY <1>1, <1>3, <2>1, SeqEqual
<1> QED
  BY <1>4, Zenon DEF ab, a, b, c

\* A call of Readdir hands out the entries behind the offset.
LEMMA TakeStep ==
  ASSUME NEW es \in Seq(Info), NEW n \in Nat, offset \in Nat, offset =< Len(es),
         returned = SubSeq(es, 1, offset), Take(es, n)
  PROVE  /\ offset' \in Nat /\ offset' =< Len(es)
         /\ returned' = SubSeq(es, 1, offset')
         /\ ended' => offset' = Len(es)
<1> DEFINE end == IF n = 0 \/ offset + n > Len(es) THEN Len(es) ELSE offset + n
<1>1. /\ returned' = returned \o SubSeq(es, offset + 1, end)
      /\ offset' = end
      /\ ended' = (n = 0 \/ offset >= Len(es))
  BY Zenon DEF Take
<1>2. Len(es) \in Nat
  OBVIOUS
<1>3. end \in Nat /\ offset =< end /\ end =< Len(es)
  BY <1>2
<1>4. n = 0 \/ offset >= Len(es) => end = Len(es)
  BY <1>2
<1> HIDE DEF end
<1>5. SubSeq(es, 1, offset) \o SubSeq(es, offset + 1, end) = SubSeq(es, 1, end)
  BY <1>3, Chunks
<1>6. ended' => offset' = Len(es)
  BY <1>1, <1>4, Zenon
<1>7. returned' = SubSeq(es, 1, offset')
  BY <1>1, <1>5
<1> QED
  BY <1>1, <1>3, <1>6, <1>7

\* Entries that stay are complete as long as the listing they come from is the last.
LEMMA StayComplete ==
  ASSUME UNCHANGED <<path, always, entries>>, Complete
  PROVE  Complete'
  BY SameShown, Zenon DEF Complete

\* A new handle has handed out nothing.
LEMMA InitHandle ==
  ASSUME HandleInit
  PROVE  HandleInv
<1>1. ListInv
  BY InitList DEF HandleInit
<1>2. <<>> \in Path /\ <<>> \in Seq(Info) /\ Len(<<>>) = 0 /\ SubSeq(<<>>, 1, 0) = <<>>
  BY DEF Path
<1> QED
  BY <1>1, <1>2 DEF HandleInit, HandleInv, HandleTypes, Handed, InOrder, Lists, Kept, AtEnd

\* Steps that leave the entries and what was handed out alone.
LEMMA SameHandle ==
  ASSUME HandleInv, ListInv', UNCHANGED <<entries, offset, returned, ended>>,
         name' \in Path, count' \in Nat, Lists', Kept'
  PROVE  HandleInv'
<1>1. HandleTypes' /\ Handed' /\ InOrder'
  BY DEF HandleInv, HandleTypes, Handed, InOrder, Sooner
<1>2. AtEnd'
  BY Zenon DEF HandleInv, AtEnd
<1> QED
  BY <1>1, <1>2 DEF HandleInv

\* A step of the handle leaves the last listing alone.
LEMMA SameListing ==
  ASSUME ListInv, UNCHANGED vars
  PROVE  ListInv'
<1>1. /\ UNCHANGED <<bucket, path, token, infos, reply, always, ever, pc>>
  BY DEF vars
<1>2. BucketOK' /\ ListTypes' /\ Watched'
  BY <1>1 DEF ListInv, BucketOK, ListTypes, Watched
<1>3. Shown' /\ Answers'
  BY <1>1, SameEntries, SameAnswers DEF ListInv
<1>4. Covered'
  BY <1>1, SamePath DEF ListInv, Covered
<1> QED
  BY <1>2, <1>3, <1>4 DEF ListInv

\* Opening a directory keeps the invariant.
LEMMA OpenStep ==
  ASSUME HandleInv, (\E p \in ListPaths : Open(p)) \/ OpenStat
  PROVE  HandleInv'
<1>1. UNCHANGED vars /\ UNCHANGED <<entries, offset, count, returned, ended>>
  BY DEF Open, OpenStat, fileVars
<1>2. name' \in Path /\ handle' # "loading"
  BY ListingAssumption DEF Open, OpenStat, fileVars, HandleInv, HandleTypes
<1>3. ListInv'
  BY <1>1, SameListing DEF HandleInv
<1>4. Lists'
  BY <1>2 DEF Lists
<1>5. Kept'
  <2>1. UNCHANGED <<pc, path, always>>
    BY <1>1 DEF vars
  <2> QED
    BY <1>1, <2>1, StayComplete DEF HandleInv, Kept
<1>6. count' \in Nat
  BY <1>1 DEF HandleInv, HandleTypes
<1> QED
  BY <1>1, <1>2, <1>3, <1>4, <1>5, <1>6, SameHandle

\* A Readdir that has entries hands out the next ones.
LEMMA NextStep ==
  ASSUME HandleInv, handle = "ready", NEW n \in Nat, Take(entries, n),
         UNCHANGED <<vars, handle, entries, count, name>>, entries # <<>>
  PROVE  HandleInv'
<1>1. /\ entries \in Seq(Info) /\ offset \in Nat /\ offset =< Len(entries)
      /\ returned = SubSeq(entries, 1, offset)
  BY DEF HandleInv, HandleTypes, Handed
<1>2. /\ offset' \in Nat /\ offset' =< Len(entries)
      /\ returned' = SubSeq(entries, 1, offset')
      /\ ended' => offset' = Len(entries)
  BY <1>1, TakeStep
<1>3. HandleTypes' /\ Handed' /\ InOrder'
  BY <1>2 DEF HandleInv, HandleTypes, Handed, InOrder, Sooner
<1>4. Lists' /\ AtEnd'
  BY <1>2 DEF Lists, AtEnd
<1>5. ListInv'
  BY SameListing DEF HandleInv
<1>6. Kept'
  <2>1. UNCHANGED <<pc, path, always>>
    BY DEF vars
  <2> QED
    BY <2>1, StayComplete DEF HandleInv, Kept
<1> QED
  BY <1>3, <1>4, <1>5, <1>6 DEF HandleInv

\* Readdir keeps the invariant.
LEMMA ReaddirStep ==
  ASSUME HandleInv, NEW n \in Counts, Readdir(n)
  PROVE  HandleInv'
<1>1. n \in Nat /\ name \in Path
  BY HandleAssumption DEF HandleInv, HandleTypes
<1>2. CASE entries # <<>> /\ Take(entries, n) /\ UNCHANGED <<vars, handle, entries, count>>
  <2>1. handle = "ready" /\ UNCHANGED name
    BY DEF Readdir
  <2> QED
    BY <1>1, <1>2, <2>1, NextStep
<1>3. CASE /\ entries = <<>>
           /\ ReadDir(name) /\ handle' = "loading" /\ count' = n /\ ended' = FALSE
           /\ UNCHANGED <<entries, offset, returned>>
  <2>1. ListInv'
    BY <1>1, <1>3, ReadDirStep DEF HandleInv
  <2>2. UNCHANGED name
    BY DEF Readdir
  <2>3. HandleTypes' /\ Handed' /\ InOrder'
    BY <1>1, <1>3, <2>2 DEF HandleInv, HandleTypes, Handed, InOrder, Sooner
  <2>4. Lists' /\ AtEnd' /\ Kept'
    BY <1>3 DEF Lists, AtEnd, Kept
  <2> QED
    BY <2>1, <2>3, <2>4 DEF HandleInv
<1> QED
  BY <1>2, <1>3 DEF Readdir

\* The listing that arrives is sorted and complete.
LEMMA LoadedStep ==
  ASSUME HandleInv, Loaded
  PROVE  HandleInv'
<1>1. /\ handle = "loading" /\ pc = "done" /\ handle' = "ready" /\ count' = 0
      /\ UNCHANGED <<vars, name>>
  BY DEF Loaded
<1>2. /\ ListInv' /\ ListInv /\ entries = <<>> /\ ~ended
      /\ UNCHANGED <<pc, path, always>>
  BY <1>1, SameListing DEF HandleInv, Lists, vars
<1>3. CASE reply = "ok" /\ entries' = Sorted(infos) /\ Take(entries', count)
  <2> DEFINE es == Sorted(infos)
  <2>1. infos \subseteq Info /\ IsFiniteSet(infos) /\ ListingUnique /\ ListingFaithful
    BY <1>2 DEF ListInv, ListTypes, Answers
  <2>2. /\ es \in Seq(infos)
        /\ \A m, n \in 1 .. Len(es) : m < n => Sooner(es[m], es[n])
        /\ \A e \in infos : \E n \in 1 .. Len(es) : es[n] = e
    BY <2>1, SortedFacts
  <2> HIDE DEF es
  <2>3. es \in Seq(Info) /\ Len(es) \in Nat /\ \A i \in 1 .. Len(es) : es[i] \in infos
    BY <2>1, <2>2
  <2>4. /\ offset \in Nat /\ count \in Nat /\ offset = 0 /\ returned = <<>>
    BY <1>2 DEF HandleInv, HandleTypes, Handed
  <2>5. offset =< Len(es) /\ returned = SubSeq(es, 1, offset)
    BY <2>3, <2>4
  <2>6. entries' = es /\ Take(es, count)
    BY <1>3, Zenon DEF es
  <2>7. /\ offset' \in Nat /\ offset' =< Len(es)
        /\ returned' = SubSeq(es, 1, offset')
        /\ ended' => offset' = Len(es)
    BY <2>3, <2>4, <2>5, <2>6, TakeStep
  <2>8. HandleTypes' /\ Handed'
    BY <1>1, <2>3, <2>6, <2>7 DEF HandleInv, HandleTypes, Handed
  <2>9. \A m, n \in 1 .. Len(es) : m < n => Sooner(es[m], es[n]) /\ es[m].name # es[n].name
    <3> SUFFICES ASSUME NEW m \in 1 .. Len(es), NEW n \in 1 .. Len(es), m < n
                 PROVE  Sooner(es[m], es[n]) /\ es[m].name # es[n].name
      OBVIOUS
    <3>1. Sooner(es[m], es[n]) /\ es[m] \in infos /\ es[n] \in infos
      BY <2>2, <2>3
    <3>2. es[m] # es[n]
      BY <2>1, <3>1, SoonerOrder
    <3> QED
      BY <2>1, <3>1, <3>2 DEF ListingUnique
  <2>10. InOrder'
    BY <2>6, <2>9 DEF InOrder, Sooner
  <2>11. Complete'
    <3>1. ASSUME NEW n \in Names, IsFileIn(always, n)' \/ IsDirIn(always, n)'
          PROVE  \E i \in 1 .. Len(es) : es[i].name = n
      <4>1. IsFileIn(always, n) \/ IsDirIn(always, n)
        BY <1>2, <3>1, SameShown
      <4>2. PICK e \in infos : e.name = n
        BY <1>3, <2>1, <4>1 DEF ListingFaithful
      <4> QED
        BY <2>2, <4>2
    <3> QED
      BY <2>6, <3>1 DEF Complete
  <2>12. Lists' /\ Kept' /\ AtEnd'
    BY <1>1, <1>2, <2>6, <2>7, <2>11 DEF Lists, Kept, AtEnd
  <2> QED
    BY <1>2, <2>8, <2>10, <2>12 DEF HandleInv
<1>4. CASE UNCHANGED <<entries, offset, returned, ended>>
  <2>1. Lists' /\ Kept'
    BY <1>1, <1>2, <1>4 DEF Lists, Kept
  <2>2. name' \in Path /\ count' \in Nat
    BY <1>1 DEF HandleInv, HandleTypes
  <2> QED
    BY <1>2, <1>4, <2>1, <2>2, SameHandle
<1> QED
  BY <1>3, <1>4 DEF Loaded

\* Seek keeps the invariant.
LEMMA SeekStep ==
  ASSUME HandleInv, Seek
  PROVE  HandleInv'
<1>1. /\ handle = "ready" /\ offset' = 0 /\ returned' = <<>> /\ ended' = FALSE
      /\ UNCHANGED <<vars, handle, name, entries, count>>
  BY DEF Seek
<1>2. ListInv'
  BY <1>1, SameListing DEF HandleInv
<1>3. entries \in Seq(Info) /\ SubSeq(entries, 1, 0) = <<>> /\ Len(entries) \in Nat
  BY DEF HandleInv, HandleTypes
<1>4. HandleTypes' /\ Handed' /\ InOrder'
  BY <1>1, <1>3 DEF HandleInv, HandleTypes, Handed, InOrder, Sooner
<1>5. Lists' /\ AtEnd'
  BY <1>1 DEF Lists, AtEnd
<1>6. Kept'
  <2>1. UNCHANGED <<pc, path, always>>
    BY <1>1 DEF vars
  <2> QED
    BY <1>1, <2>1, StayComplete DEF HandleInv, Kept
<1> QED
  BY <1>2, <1>4, <1>5, <1>6 DEF HandleInv

\* A listing runs, or other sessions change the bucket.
LEMMA CallStep ==
  ASSUME HandleInv, UNCHANGED handleVars,
         (handle = "loading" /\ Listing) \/ (handle # "none" /\ Other)
  PROVE  HandleInv'
<1>1. UNCHANGED <<handle, name, entries, offset, count, returned, ended>>
  BY DEF handleVars, fileVars
<1>2. ListInv'
  BY StatStep, PageKeeps, OtherStep DEF HandleInv, Listing
<1>3. Lists'
  BY <1>1 DEF HandleInv, Lists
<1>4. Kept'
  <2>1. CASE handle = "loading"
    BY <1>1, <2>1 DEF HandleInv, Lists, Kept
  <2>2. CASE Other
    <3>1. UNCHANGED <<pc, path>> /\ (pc = "done" => UNCHANGED always)
      BY <2>2 DEF Other
    <3> QED
      BY <1>1, <3>1, StayComplete DEF HandleInv, Kept
  <2> QED
    BY <2>1, <2>2
<1>5. name' \in Path /\ count' \in Nat
  BY <1>1 DEF HandleInv, HandleTypes
<1> QED
  BY <1>1, <1>2, <1>3, <1>4, <1>5, SameHandle

\* A stuttering step keeps the invariant.
LEMMA StutterStep ==
  ASSUME HandleInv, UNCHANGED allVars
  PROVE  HandleInv'
<1>1. UNCHANGED vars /\ UNCHANGED <<handle, name, entries, offset, count, returned, ended>>
  BY DEF allVars, handleVars, fileVars
<1>2. UNCHANGED <<pc, path, always>> /\ ListInv'
  BY <1>1, SameListing DEF vars, HandleInv
<1>3. Lists' /\ Kept'
  BY <1>1, <1>2, StayComplete DEF HandleInv, Lists, Kept
<1>4. name' \in Path /\ count' \in Nat
  BY <1>1 DEF HandleInv, HandleTypes
<1> QED
  BY <1>1, <1>2, <1>3, <1>4, SameHandle

\* The invariant of listings and of the handle holds in every reachable state.
LEMMA HandleInvariant == HandleSpec => []HandleInv
<1>1. HandleInit => HandleInv
  BY InitHandle
<1>2. HandleInv /\ [HandleNext]_allVars => HandleInv'
  BY OpenStep, ReaddirStep, LoadedStep, SeekStep, CallStep, StutterStep DEF HandleNext
<1> QED
  BY <1>1, <1>2, PTL DEF HandleSpec

\* ReadDir, for every directory, page size and interleaving with other
\* sessions (dir.go:16-98): what was there all the time is listed, and nothing
\* that never was.
THEOREM ListsFaithfully == HandleSpec => []ListingFaithful
<1>1. HandleInv => ListingFaithful
  BY DEF HandleInv, ListInv, Answers
<1> QED
  BY <1>1, HandleInvariant, PTL

\* No name is listed twice, whatever page its file and its directory come on
\* (dir.go:34-43).
THEOREM ListsOnce == HandleSpec => []ListingUnique
<1>1. HandleInv => ListingUnique
  BY DEF HandleInv, ListInv, Answers
<1> QED
  BY <1>1, HandleInvariant, PTL

\* A directory that keeps a child while it is listed is not reported missing
\* (dir.go:19 asks fs.go:88-116).
THEOREM ListsWhatIsThere == HandleSpec => []ListingFinds
<1>1. HandleInv => ListingFinds
  BY DEF HandleInv, ListInv, Answers
<1> QED
  BY <1>1, HandleInvariant, PTL

\* The slices Readdir takes of the entries are within bounds (file.go:89, 100).
THEOREM InBounds == HandleSpec => []OffsetInBounds
<1>1. HandleInv => OffsetInBounds
  BY DEF HandleInv, Handed, OffsetInBounds
<1> QED
  BY <1>1, HandleInvariant, PTL

\* What several Readdirs return is in the order of one listing (file.go:67-104).
THEOREM ReturnedInOrder == HandleSpec => []ChunksInOrder
<1>1. ASSUME HandleInv
      PROVE  ChunksInOrder
  <2>1. /\ entries \in Seq(Info) /\ Len(entries) \in Nat /\ offset \in Nat /\ offset =< Len(entries)
        /\ returned = SubSeq(entries, 1, offset) /\ InOrder
    BY <1>1 DEF HandleInv, HandleTypes, Handed
  <2>2. DOMAIN returned = 1 .. offset /\ \A i \in 1 .. offset : returned[i] = entries[i]
    BY <2>1
  <2> QED
    BY <2>1, <2>2 DEF ChunksInOrder, InOrder
<1> QED
  BY <1>1, HandleInvariant, PTL

\* A client that was told the end has got everything (file.go:88-103).
THEOREM ReturnedComplete == HandleSpec => []ChunksComplete
<1>1. ASSUME HandleInv
      PROVE  ChunksComplete
  <2>1. /\ entries \in Seq(Info) /\ Len(entries) \in Nat /\ returned = SubSeq(entries, 1, offset)
        /\ offset \in Nat /\ offset =< Len(entries)
        /\ ended => offset = Len(entries) /\ Complete
    BY <1>1 DEF HandleInv, HandleTypes, Handed, AtEnd, Kept
  <2>2. DOMAIN returned = 1 .. offset /\ \A i \in 1 .. offset : returned[i] = entries[i]
    BY <2>1
  <2> QED
    BY <2>1, <2>2 DEF ChunksComplete, Complete
<1> QED
  BY <1>1, HandleInvariant, PTL

=============================================================================
