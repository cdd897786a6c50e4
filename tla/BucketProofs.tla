---------------------------- MODULE BucketProofs ---------------------------
(***************************************************************************)
(* Facts about paths and keys, about the order of the keys in a listing    *)
(* and about its pages, on which the proofs about the file system rest.    *)
(***************************************************************************)
EXTENDS S3Bucket, SequenceTheorems, FiniteSetTheorems, WellFoundedInduction, TLAPS

(***************************************************************************)
(* Paths and keys                                                          *)
(***************************************************************************)

\* Appending, concatenating and cutting sequences over any set.
LEMMA AppendFacts ==
  ASSUME NEW S, NEW s \in Seq(S), NEW e \in S
  PROVE  /\ Append(s, e) \in Seq(S)
         /\ Len(Append(s, e)) = Len(s) + 1
         /\ Append(s, e)[Len(s) + 1] = e
         /\ \A i \in 1 .. Len(s) : Append(s, e)[i] = s[i]
  OBVIOUS

\* The elements of two sequences joined.
LEMMA ConcatFacts ==
  ASSUME NEW S, NEW s \in Seq(S), NEW t \in Seq(S)
  PROVE  /\ s \o t \in Seq(S)
         /\ Len(s \o t) = Len(s) + Len(t)
         /\ \A i \in 1 .. Len(s) + Len(t) :
              (s \o t)[i] = IF i <= Len(s) THEN s[i] ELSE t[i - Len(s)]
  OBVIOUS

\* A sequence without its last element is one shorter.
LEMMA FrontLength ==
  ASSUME NEW S, NEW s \in Seq(S), Len(s) > 0
  PROVE  Len(SubSeq(s, 1, Len(s) - 1)) = Len(s) - 1
<1> DEFINE n == Len(s) - 1
<1>1. n \in Nat /\ n =< Len(s)
  OBVIOUS
<1> HIDE DEF n
<1>2. Len(SubSeq(s, 1, n)) = n
  BY <1>1
<1> QED
  BY <1>2 DEF n

\* A path is a key; "" is the segment after a final "/".
LEMMA SegmentFacts ==
  /\ "" \in Segment
  /\ \A p \in Path : p \in Key
<1>1. ASSUME NEW S, NEW T, S \subseteq T, NEW p \in Seq(S)
      PROVE  p \in Seq(T)
  BY <1>1
<1>2. Names \subseteq Segment /\ "" \in Segment
  BY DEF Segment
<1> QED
  BY <1>1, <1>2 DEF Path, Key

\* joinRoot drops the empty last segment of the root prefix: what is left is
\* a key of its own, one segment shorter.
LEMMA StemType ==
  ASSUME NEW r \in Key
  PROVE  /\ SubSeq(r, 1, Len(r) - 1) \in Key
         /\ Len(SubSeq(r, 1, Len(r) - 1)) = IF r = <<>> THEN 0 ELSE Len(r) - 1
         /\ \A i \in 1 .. Len(r) - 1 : SubSeq(r, 1, Len(r) - 1)[i] = r[i]
<1>1. Len(r) \in Nat /\ (r = <<>> <=> Len(r) = 0)
  BY DEF Key
<1>2. SubSeq(r, 1, Len(r) - 1) \in Key
  BY DEF Key
<1>3. CASE r = <<>>
  BY <1>1, <1>2, <1>3 DEF Key
<1>4. CASE r # <<>>
  <2>1. Len(SubSeq(r, 1, Len(r) - 1)) = Len(r) - 1
    BY <1>1, <1>4, FrontLength DEF Key
  <2>2. \A i \in 1 .. Len(r) - 1 : SubSeq(r, 1, Len(r) - 1)[i] = r[i]
    BY <1>1 DEF Key
  <2> QED
    BY <1>2, <1>4, <2>1, <2>2
<1> QED
  BY <1>3, <1>4

\* The object key of a path other than "/" is a key, does not end in "/" and
\* lies under the root prefix (joinRoot).
LEMMA JoinRootFacts ==
  ASSUME NEW r \in RootPrefix, NEW p \in Path, p # <<>>
  PROVE  /\ joinRoot(r, p) \in Key
         /\ joinRoot(r, p) # <<>>
         /\ ~EndsInSlash(joinRoot(r, p))
         /\ HasPrefix(joinRoot(r, p), r)
<1> DEFINE stem == SubSeq(r, 1, Len(r) - 1)
           k == joinRoot(r, p)
<1>1. r \in Key /\ k = stem \o p
  BY DEF RootPrefix, joinRoot
<1>2. p \in Key /\ p \in Seq(Names)
  BY SegmentFacts DEF Path
<1>3. Len(p) \in Nat \ {0} /\ p[Len(p)] \in Names
  BY <1>2
<1>4. /\ stem \in Key
      /\ Len(r) \in Nat
      /\ Len(stem) = IF r = <<>> THEN 0 ELSE Len(r) - 1
      /\ \A i \in 1 .. Len(r) - 1 : stem[i] = r[i]
      /\ r = <<>> <=> Len(r) = 0
  BY <1>1, StemType DEF Key
<1>5. /\ k \in Key
      /\ Len(k) = Len(stem) + Len(p)
      /\ \A i \in 1 .. Len(stem) + Len(p) :
           k[i] = IF i <= Len(stem) THEN stem[i] ELSE p[i - Len(stem)]
  BY <1>1, <1>2, <1>4 DEF Key
<1>6. Len(stem) \in Nat
  BY <1>4
<1> HIDE DEF stem, k
<1>7. k[Len(k)] = p[Len(p)]
  BY <1>3, <1>5, <1>6
<1>8. k # <<>>
  BY <1>3, <1>5, <1>6
<1>9. ~EndsInSlash(k)
  BY <1>3, <1>7, NamesAssumption DEF EndsInSlash
<1>10. HasPrefix(k, r)
  BY <1>3, <1>4, <1>5, <1>6 DEF HasPrefix
<1> QED
  BY <1>5, <1>8, <1>9, <1>10 DEF k

\* The marker key of a path other than "/" is its object key with one "/"
\* added (dirKey); it lies under the root prefix.
LEMMA DirKeyFacts ==
  ASSUME NEW r \in RootPrefix, NEW p \in Path, p # <<>>
  PROVE  /\ dirKey(r, p) \in Key
         /\ dirKey(r, p) # <<>>
         /\ EndsInSlash(dirKey(r, p))
         /\ HasPrefix(dirKey(r, p), r)
         /\ \A k \in Key : HasPrefix(k, dirKey(r, p)) => HasPrefix(k, r)
<1> DEFINE j == joinRoot(r, p)
           d == dirKey(r, p)
<1>1. j \in Key /\ j # <<>> /\ ~EndsInSlash(j) /\ HasPrefix(j, r)
  BY JoinRootFacts
<1>2. d = Append(j, "")
  BY <1>1 DEF dirKey
<1> HIDE DEF j, d
<1>3. /\ d \in Key
      /\ Len(d) = Len(j) + 1
      /\ \A i \in 1 .. Len(j) : d[i] = j[i]
      /\ Len(j) \in Nat
  <2>1. ASSUME NEW e \in Segment, d = Append(j, e)
        PROVE  /\ d \in Key
               /\ Len(d) = Len(j) + 1
               /\ \A i \in 1 .. Len(j) : d[i] = j[i]
               /\ Len(j) \in Nat
    BY <1>1, <2>1, AppendFacts DEF Key
  <2> QED
    BY <1>2, <2>1, SegmentFacts
<1>4. r \in Key /\ Len(r) \in Nat
  BY DEF RootPrefix, Key
<1>5. d # <<>>
  BY <1>3
<1>6. HasPrefix(d, r)
  BY <1>1, <1>3, <1>4 DEF HasPrefix
<1>7. ASSUME NEW k \in Key, HasPrefix(k, d)
      PROVE  HasPrefix(k, r)
  <2>1. Len(k) \in Nat
    BY DEF Key
  <2>2. Len(d) =< Len(k) /\ \A i \in 1 .. (Len(d) - 1) : k[i] = d[i]
    BY <1>7, <1>5 DEF HasPrefix
  <2>3. CASE r = <<>>
    BY <2>3 DEF HasPrefix
  <2>4. CASE r # <<>>
    <3>1. Len(r) =< Len(j) /\ \A i \in 1 .. (Len(r) - 1) : j[i] = r[i]
      BY <1>1, <2>4 DEF HasPrefix
    <3>2. Len(r) =< Len(k)
      BY <1>3, <1>4, <2>1, <2>2, <3>1
    <3>3. ASSUME NEW i \in 1 .. (Len(r) - 1)
          PROVE  k[i] = r[i]
      BY <1>3, <1>4, <2>1, <2>2, <3>1
    <3> QED
      BY <3>2, <3>3 DEF HasPrefix
  <2> QED
    BY <2>3, <2>4
<1>8. EndsInSlash(d)
  <2>1. d[Len(j) + 1] = ""
    BY <1>1, <1>2, SegmentFacts, AppendFacts DEF Key
  <2> QED
    BY <1>3, <1>5, <2>1 DEF EndsInSlash
<1> QED
  BY <1>3, <1>6, <1>7, <1>8, <1>5 DEF d

\* Moving a key from one directory to another (Rename's copy loop) yields a
\* key under the new directory that is a marker exactly if the old one was.
LEMMA RetargetFacts ==
  ASSUME NEW k \in Key, NEW old \in Key, NEW new \in Key,
         old # <<>>, new # <<>>, HasPrefix(k, old)
  PROVE  /\ Retarget(k, old, new) \in Key
         /\ HasPrefix(Retarget(k, old, new), new)
         /\ EndsInSlash(Retarget(k, old, new)) <=> EndsInSlash(k)
<1> DEFINE stem == SubSeq(new, 1, Len(new) - 1)
           tail == SubSeq(k, Len(old), Len(k))
           t == Retarget(k, old, new)
<1>1. Len(k) \in Nat /\ Len(old) \in Nat \ {0} /\ Len(new) \in Nat \ {0}
  BY DEF Key
<1>2. Len(old) =< Len(k)
  BY DEF HasPrefix
<1>3. \A i \in Len(old) .. Len(k) : k[i] \in Segment
  BY <1>1 DEF Key
<1>4. /\ tail \in Key
      /\ Len(tail) = Len(k) - Len(old) + 1
      /\ \A i \in 1 .. Len(k) - Len(old) + 1 : tail[i] = k[Len(old) + i - 1]
  BY <1>1, <1>2, <1>3 DEF Key
<1>5. /\ stem \in Key
      /\ Len(stem) = Len(new) - 1
      /\ \A i \in 1 .. Len(new) - 1 : stem[i] = new[i]
  BY StemType
<1>6. t = stem \o tail
  BY DEF Retarget
<1> HIDE DEF stem, tail, t
<1>7. /\ t \in Key
      /\ Len(t) = Len(stem) + Len(tail)
      /\ \A i \in 1 .. Len(stem) + Len(tail) :
           t[i] = IF i <= Len(stem) THEN stem[i] ELSE tail[i - Len(stem)]
  BY <1>4, <1>5, <1>6, ConcatFacts DEF Key
<1>8. Len(tail) \in Nat \ {0} /\ Len(stem) \in Nat
  BY <1>1, <1>2, <1>4, <1>5
<1>9. t[Len(t)] = tail[Len(tail)]
  BY <1>7, <1>8
<1>10. tail[Len(tail)] = k[Len(k)]
  BY <1>1, <1>2, <1>4
<1>11. t # <<>> /\ k # <<>>
  BY <1>1, <1>2, <1>7, <1>8
<1>12. HasPrefix(t, new)
  BY <1>1, <1>5, <1>7, <1>8 DEF HasPrefix
<1> QED
  BY <1>7, <1>9, <1>10, <1>11, <1>12 DEF EndsInSlash, t

(***************************************************************************)
(* Order and pages                                                         *)
(***************************************************************************)

\* A set of numbers has a least one.
LEMMA LeastNumber ==
  ASSUME NEW T, T \subseteq Nat, T # {}
  PROVE  \E m \in T : \A n \in T : m =< n
<1>1. PICK m \in T : \A n \in T : ~(<<n, m>> \in OpToRel(<, Nat))
  BY WFMin, NatLessThanWellFounded
<1>2. ASSUME NEW n \in T
      PROVE  m =< n
  <2>1. m \in Nat /\ n \in Nat
    OBVIOUS
  <2>2. ~(n < m)
    BY <1>1, <2>1 DEF OpToRel
  <2> QED
    BY <2>1, <2>2
<1> QED
  BY <1>2

\* The segments of keys are ordered by their ranks, "" first.
LEMMA SegmentOrder ==
  ASSUME NEW m \in Segment, NEW n \in Segment
  PROVE  /\ SegmentRank(m) \in Nat
         /\ SegmentRank(m) = SegmentRank(n) => m = n
  BY RankAssumption, NamesAssumption DEF Segment, SegmentRank

\* No key comes before itself.
LEMMA BeforeIrreflexive ==
  ASSUME NEW k \in Key
  PROVE  ~Before(k, k)
<1>1. Len(k) \in Nat /\ \A i \in 1 .. Len(k) : k[i] \in Segment
  BY DEF Key
<1>2. \A i \in 1 .. Len(k) : ~(SegmentRank(k[i]) < SegmentRank(k[i]))
  BY <1>1, SegmentOrder
<1> QED
  BY <1>1, <1>2 DEF Before

\* Two different keys are ordered: by the first segment they differ in, or by
\* their lengths.
LEMMA BeforeTotal ==
  ASSUME NEW j \in Key, NEW k \in Key
  PROVE  j = k \/ Before(j, k) \/ Before(k, j)
<1> SUFFICES ASSUME j # k
             PROVE  Before(j, k) \/ Before(k, j)
  OBVIOUS
<1>1. /\ Len(j) \in Nat /\ \A i \in 1 .. Len(j) : j[i] \in Segment
      /\ Len(k) \in Nat /\ \A i \in 1 .. Len(k) : k[i] \in Segment
  BY DEF Key
<1> DEFINE D == {i \in Nat : 1 =< i /\ i =< Len(j) /\ i =< Len(k) /\ j[i] # k[i]}
<1>2. CASE D = {}
  <2>1. \A i \in 1 .. Len(j) : i =< Len(k) => j[i] = k[i]
    BY <1>1, <1>2
  <2>2. Len(j) # Len(k)
    <3>1. ASSUME Len(j) = Len(k)
          PROVE  j = k
      BY <1>1, <2>1, <3>1, SeqEqual DEF Key
    <3> QED
      BY <3>1
  <2>3. CASE Len(j) < Len(k)
    BY <1>1, <2>1, <2>3 DEF Before
  <2>4. CASE Len(k) < Len(j)
    BY <1>1, <2>1, <2>4 DEF Before
  <2> QED
    BY <1>1, <2>2, <2>3, <2>4
<1>3. CASE D # {}
  <2>1. PICK i \in D : \A n \in D : i =< n
    BY <1>3, LeastNumber
  <2>2. /\ i \in 1 .. Len(j) /\ i \in 1 .. Len(k) /\ i \in Nat
        /\ \A m \in 1 .. (i - 1) : j[m] = k[m]
    BY <1>1, <2>1
  <2>3. j[i] \in Segment /\ k[i] \in Segment /\ j[i] # k[i]
    BY <1>1, <2>1
  <2>4. SegmentRank(j[i]) < SegmentRank(k[i]) \/ SegmentRank(k[i]) < SegmentRank(j[i])
    BY <2>3, SegmentOrder
  <2> QED
    BY <1>1, <2>2, <2>4 DEF Before
<1> QED
  BY <1>2, <1>3

\* The order is transitive.
LEMMA BeforeTransitive ==
  ASSUME NEW i \in Key, NEW j \in Key, NEW k \in Key, Before(i, j), Before(j, k)
  PROVE  Before(i, k)
<1> DEFINE Proper(a, b) == Len(a) < Len(b) /\ \A n \in 1 .. Len(a) : a[n] = b[n]
           At(a, b, n) == /\ n \in 1 .. Len(a) /\ n =< Len(b)
                          /\ \A m \in 1 .. (n - 1) : a[m] = b[m]
                          /\ SegmentRank(a[n]) < SegmentRank(b[n])
<1>1. \A a, b : Before(a, b) <=> Proper(a, b) \/ \E n \in 1 .. Len(a) : At(a, b, n)
  BY DEF Before
<1>2. /\ Len(i) \in Nat /\ Len(j) \in Nat /\ Len(k) \in Nat
      /\ \A n \in 1 .. Len(i) : SegmentRank(i[n]) \in Nat
      /\ \A n \in 1 .. Len(j) : SegmentRank(j[n]) \in Nat
      /\ \A n \in 1 .. Len(k) : SegmentRank(k[n]) \in Nat
  BY SegmentOrder DEF Key
<1>3. CASE Proper(i, j) /\ Proper(j, k)
  <2>1. Proper(i, k)
    BY <1>2, <1>3
  <2> QED
    BY <1>1, <2>1
<1>4. ASSUME Proper(i, j), NEW n \in 1 .. Len(j), At(j, k, n)
      PROVE  Before(i, k)
  <2>1. CASE n =< Len(i)
    <3>1. At(i, k, n)
      BY <1>2, <1>4, <2>1
    <3> QED
      BY <1>1, <3>1
  <2>2. CASE Len(i) < n
    <3>1. Proper(i, k)
      BY <1>2, <1>4, <2>2
    <3> QED
      BY <1>1, <3>1
  <2> QED
    BY <1>2, <2>1, <2>2
<1>5. ASSUME NEW n \in 1 .. Len(i), At(i, j, n), Proper(j, k)
      PROVE  Before(i, k)
  <2>1. At(i, k, n)
    BY <1>2, <1>5
  <2> QED
    BY <1>1, <2>1
<1>6. ASSUME NEW m \in 1 .. Len(i), At(i, j, m), NEW n \in 1 .. Len(j), At(j, k, n)
      PROVE  Before(i, k)
  <2>1. CASE m < n
    <3>1. At(i, k, m)
      BY <1>2, <1>6, <2>1
    <3> QED
      BY <1>1, <3>1
  <2>2. CASE n < m
    <3>1. At(i, k, n)
      BY <1>2, <1>6, <2>2
    <3> QED
      BY <1>1, <3>1
  <2>3. CASE m = n
    <3>1. At(i, k, n)
      BY <1>2, <1>6, <2>3
    <3> QED
      BY <1>1, <3>1
  <2> QED
    BY <1>2, <2>1, <2>2, <2>3
<1> QED
  BY <1>1, <1>3, <1>4, <1>5, <1>6

\* A page of a listing leaves out nothing that comes before one of its keys.
LEMMA LeastClosed ==
  ASSUME NEW K, K \subseteq Key, IsFiniteSet(K), NEW n \in Nat,
         NEW t \in Least(n, K), NEW e \in K, e = t \/ Before(e, t)
  PROVE  e \in Least(n, K)
<1> DEFINE Below(k) == {j \in K : Before(j, k)}
<1>1. t \in K /\ Cardinality(Below(t)) < n
  BY DEF Least
<1>2. Below(e) \subseteq Below(t)
  BY <1>1, BeforeTransitive
<1>3. IsFiniteSet(Below(t))
  BY FS_Subset
<1>4. /\ Cardinality(Below(e)) \in Nat /\ Cardinality(Below(t)) \in Nat
      /\ Cardinality(Below(e)) =< Cardinality(Below(t))
  BY <1>2, <1>3, FS_Subset, FS_CardinalityType
<1> HIDE DEF Below
<1>5. Cardinality(Below(e)) < n
  BY <1>1, <1>4
<1> QED
  BY <1>5 DEF Below, Least


\* A finite set of keys has a first one.
LEMMA FirstKey ==
  ASSUME NEW K, K \subseteq Key, IsFiniteSet(K), K # {}
  PROVE  \E m \in K : \A k \in K : ~Before(k, m)
<1> DEFINE Below(k) == {j \in K : Before(j, k)}
           Sizes == {Cardinality(Below(k)) : k \in K}
<1>1. \A k \in K : IsFiniteSet(Below(k)) /\ Cardinality(Below(k)) \in Nat
  BY FS_Subset, FS_CardinalityType
<1>2. Sizes \subseteq Nat /\ Sizes # {}
  BY <1>1
<1>3. PICK n \in Sizes : \A m \in Sizes : n =< m
  BY <1>2, LeastNumber
<1>4. PICK m \in K : \A k \in K : Cardinality(Below(m)) =< Cardinality(Below(k))
  BY <1>3
<1>5. ASSUME NEW k \in K, Before(k, m)
      PROVE  FALSE
  <2>1. Below(k) \subseteq Below(m)
    BY <1>5, BeforeTransitive
  <2>2. k \in Below(m) /\ k \notin Below(k)
    BY <1>5, BeforeIrreflexive
  <2> HIDE DEF Below
  <2>3. Cardinality(Below(k)) =< Cardinality(Below(m)) /\ Cardinality(Below(m)) # Cardinality(Below(k))
    BY <1>1, <2>1, <2>2, FS_Subset
  <2> QED
    BY <1>1, <1>4, <2>3
<1> QED
  BY <1>5

\* Two keys of a listing are enough to see whether a directory holds more
\* than one key.
LEMMA LeastTwo ==
  ASSUME NEW K, K \subseteq Key, IsFiniteSet(K), K # {}, NEW p
  PROVE  (\E k \in Least(2, K) : k # p) <=> K # {p}
<1> DEFINE Below(k) == {j \in K : Before(j, k)}
<1>1. Least(2, K) = {k \in K : Cardinality(Below(k)) < 2}
  BY DEF Least
<1>2. ASSUME NEW m \in K, \A k \in K \ {p} : ~Before(k, m)
      PROVE  m \in Least(2, K)
  <2>1. Below(m) \in SUBSET {p}
    BY <1>2
  <2> HIDE DEF Below
  <2>2. Cardinality(Below(m)) \in Nat /\ Cardinality(Below(m)) =< 1
    <3>1. IsFiniteSet({p}) /\ Cardinality({p}) = 1
      BY FS_Singleton
    <3>2. IsFiniteSet(Below(m)) /\ Cardinality(Below(m)) =< Cardinality({p})
      BY <2>1, <3>1, FS_Subset
    <3> QED
      BY <3>1, <3>2, FS_CardinalityType
  <2> QED
    BY <1>1, <2>2
<1> HIDE DEF Below
<1>3. ASSUME K # {p}
      PROVE  \E k \in Least(2, K) : k # p
  <2>1. K \ {p} # {} /\ K \ {p} \subseteq Key /\ IsFiniteSet(K \ {p})
    BY <1>3, FS_RemoveElement
  <2>2. PICK m \in K \ {p} : \A k \in K \ {p} : ~Before(k, m)
    BY <2>1, FirstKey
  <2> QED
    BY <1>2, <2>2
<1>4. ASSUME NEW k \in Least(2, K), k # p
      PROVE  K # {p}
  BY <1>1, <1>4
<1> QED
  BY <1>3, <1>4

\* What a page leaves out comes after its last key.
LEMMA NextPage ==
  ASSUME NEW K, K \subseteq Key, IsFiniteSet(K), NEW n \in Nat,
         NEW last \in Greatest(Least(n, K)), NEW k \in K, k \notin Least(n, K)
  PROVE  Before(last, k)
<1>1. last \in Least(n, K) /\ last \in K
  BY DEF Greatest, Least
<1>2. ~Before(k, last) /\ k # last
  BY <1>1, LeastClosed
<1> QED
  BY <1>1, <1>2, BeforeTotal

=============================================================================
