--------------------------- MODULE DownloadProofs --------------------------
(***************************************************************************)
(* Proofs about module Download, for any contents, offsets and faults, and *)
(* any sequence of Reads and Seeks.                                        *)
(***************************************************************************)
EXTENDS DownloadProps, SequenceTheorems, TLAPS

\* The open responses are exactly the one the handle holds.
BodyOwned ==
  /\ \A a, b \in body : a = b
  /\ pc # "reading" => body = {}
  /\ conns = IF \E b \in body : b.live THEN 1 ELSE 0

Inv == TypeOK /\ BodyOwned

\* A piece of a sequence is a sequence.
LEMMA SubSeqType ==
  ASSUME NEW S, NEW s \in Seq(S), NEW m \in Nat \ {0}, NEW n \in Nat, n =< Len(s)
  PROVE  SubSeq(s, m, n) \in Seq(S)
  OBVIOUS

\* Two sequences joined are a sequence.
LEMMA ConcatType ==
  ASSUME NEW S, NEW s \in Seq(S), NEW t \in Seq(S)
  PROVE  s \o t \in Seq(S)
  OBVIOUS

\* A length is a number.
LEMMA LenType ==
  ASSUME NEW S, NEW s \in Seq(S)
  PROVE  Len(s) \in Nat
  OBVIOUS

\* The body a Read goes on with is one body, well-formed.
LEMMA EnsureBody ==
  ASSUME Inv, NEW b \in ensureBody
  PROVE  b \in Bodies /\ (body # {} => body = {b})
<1>1. CASE body # {}
  BY <1>1 DEF ensureBody, Inv, TypeOK, BodyOwned
<1>2. CASE body = {} /\ pos >= size
  <2>1. b = [live |-> FALSE, rest |-> <<>>]
    BY <1>2 DEF ensureBody
  <2>2. <<>> \in Seq(Unit)
    OBVIOUS
  <2> QED
    BY <1>2, <2>1, <2>2 DEF Bodies
<1>3. CASE body = {} /\ ~(pos >= size)
  <2>1. PICK c \in object : b = [live |-> TRUE, rest |-> SubSeq(c, pos + 1, Len(c))]
    BY <1>3 DEF ensureBody, getObject
  <2>2. c \in Seq(Unit) /\ pos + 1 \in Nat \ {0}
    BY DEF Inv, TypeOK
  <2>3. SubSeq(c, pos + 1, Len(c)) \in Seq(Unit)
    BY <2>2, SubSeqType, LenType
  <2> QED
    BY <1>3, <2>1, <2>3 DEF Bodies
<1> QED
  BY <1>1, <1>2, <1>3

\* A handle that is not open holds no response.
LEMMA InitInv ==
  ASSUME Init
  PROVE  Inv
<1>1. object \subseteq Seq(Unit)
  BY DownloadAssumption DEF Init
<1>2. <<>> \in Seq(Unit)
  OBVIOUS
<1> QED
  BY <1>1, <1>2, DownloadAssumption DEF Init, Inv, TypeOK, BodyOwned

\* A Read that delivers n units.
LEMMA Delivers ==
  ASSUME Inv, NEW b \in Bodies, NEW n \in Nat, n =< Len(b.rest)
  PROVE  /\ got \o SubSeq(b.rest, 1, n) \in Seq(Unit)
         /\ [b EXCEPT !.rest = SubSeq(b.rest, n + 1, Len(b.rest))] \in Bodies
         /\ [b EXCEPT !.rest = SubSeq(b.rest, n + 1, Len(b.rest))].live = b.live
<1>1. b.rest \in Seq(Unit) /\ got \in Seq(Unit)
  BY DEF Bodies, Inv, TypeOK
<1>2. Len(b.rest) \in Nat
  BY <1>1, LenType
<1>3. SubSeq(b.rest, 1, n) \in Seq(Unit)
  BY <1>1, SubSeqType
<1>4. SubSeq(b.rest, n + 1, Len(b.rest)) \in Seq(Unit)
  BY <1>1, <1>2, SubSeqType
<1>5. got \o SubSeq(b.rest, 1, n) \in Seq(Unit)
  BY <1>1, <1>3, ConcatType
<1> QED
  BY <1>4, <1>5 DEF Bodies

\* Read keeps the invariant.
LEMMA ReadStep ==
  ASSUME Inv, Read
  PROVE  Inv'
<1> USE DEF Inv
<1>1. UNCHANGED <<object, others, pc, seeks, size, from, versions>> /\ pc = "reading"
  BY DEF Read
<1>2. CASE last' = "error" /\ UNCHANGED <<pos, got, body, conns>>
  BY <1>1, <1>2 DEF TypeOK, BodyOwned
<1>3. ASSUME NEW b \in ensureBody,
             NEW n \in 1 .. MaxRead, n =< Len(b.rest), last' = "data", pos' = pos + n,
             got' = got \o SubSeq(b.rest, 1, n),
             body' = {[b EXCEPT !.rest = SubSeq(b.rest, n + 1, Len(b.rest))]},
             conns' = IF body = {} THEN conns + Live(b) ELSE conns
      PROVE  Inv'
  <2> DEFINE c == [b EXCEPT !.rest = SubSeq(b.rest, n + 1, Len(b.rest))]
  <2>1. b \in Bodies /\ (body # {} => body = {b})
    BY <1>3, EnsureBody
  <2>2. n \in Nat
    BY DownloadAssumption
  <2>3. got' \in Seq(Unit) /\ c \in Bodies /\ c.live = b.live
    BY <1>3, <2>1, <2>2, Delivers
  <2>4. body' = {c}
    BY <1>3
  <2>5. b.live \in BOOLEAN
    BY <2>1 DEF Bodies
  <2> HIDE DEF c
  <2>6. conns' = IF c.live THEN 1 ELSE 0
    BY <1>3, <2>1, <2>3, <2>5 DEF BodyOwned, Live
  <2>7. BodyOwned'
    <3>1. \A d, e \in body' : d = e
      BY <2>4
    <3>2. (\E d \in body' : d.live) <=> c.live
      BY <2>4
    <3> QED
      BY <1>1, <2>6, <3>1, <3>2 DEF BodyOwned
  <2>8. conns' \in Nat
    BY <2>6
  <2>9. pos' \in Nat
    BY <1>3, <2>2 DEF TypeOK
  <2>10. body' \subseteq Bodies
    BY <2>3, <2>4
  <2>11. last' = "data"
    BY <1>3
  <2> QED
    BY <1>1, <2>3, <2>7, <2>8, <2>9, <2>10, <2>11 DEF TypeOK
<1>4. ASSUME NEW b \in ensureBody,
             last' = "eof", pos' = pos + Len(b.rest), got' = got \o b.rest, body' = {},
             conns' = (IF body = {} THEN conns + Live(b) ELSE conns) - Live(b)
      PROVE  Inv'
  <2>1. b \in Bodies /\ (body # {} => body = {b})
    BY <1>4, EnsureBody
  <2>2. b.rest \in Seq(Unit) /\ got \in Seq(Unit) /\ b.live \in BOOLEAN
    BY <2>1 DEF Bodies, TypeOK
  <2>3. got' \in Seq(Unit) /\ Len(b.rest) \in Nat
    BY <1>4, <2>2, ConcatType, LenType
  <2>4. conns' = 0
    BY <1>4, <2>1, <2>2 DEF BodyOwned, Live
  <2>5. BodyOwned'
    BY <1>1, <1>4, <2>4 DEF BodyOwned
  <2> QED
    BY <1>1, <1>4, <2>3, <2>4, <2>5 DEF TypeOK
<1> QED
  BY <1>2, <1>3, <1>4 DEF Read

\* Every step keeps the invariant.
LEMMA NextStep ==
  ASSUME Inv, Next
  PROVE  Inv'
<1> USE DEF Inv
<1>1. ASSUME NEW offset \in Offsets, openDownload(offset)
      PROVE  Inv'
  <2>1. \A c \in object : Len(c) \in Nat
    BY LenType DEF TypeOK
  <2> QED
    BY <1>1, <2>1, DownloadAssumption DEF openDownload, TypeOK, BodyOwned
<1>2. CASE Read
  BY <1>2, ReadStep
<1>3. ASSUME NEW target \in SeekPoints, Seek(target)
      PROVE  Inv'
  <2>1. target \in Int /\ <<>> \in Seq(Unit)
    BY DownloadAssumption
  <2>2. BodyOwned'
    BY <1>3 DEF Seek, TypeOK, BodyOwned
  <2>3. pos' \in Nat /\ from' \in Nat /\ conns' \in Nat /\ seeks' \in 0 .. MaxSeeks
    BY <1>3, <2>1, DownloadAssumption DEF Seek, TypeOK, BodyOwned
  <2>4. body' \subseteq Bodies /\ got' \in Seq(Unit) /\ last' \in {"data", "eof", "error"}
    BY <1>3, <2>1 DEF Seek, TypeOK
  <2>5. UNCHANGED <<object, others, pc, size, versions>>
    BY <1>3 DEF Seek
  <2> QED
    BY <2>2, <2>3, <2>4, <2>5 DEF TypeOK
<1>4. CASE Close
  <2>1. BodyOwned'
    BY <1>4 DEF Close, BodyOwned
  <2> QED
    BY <1>4, <2>1 DEF Close, TypeOK, BodyOwned
<1>5. CASE Other
  <2>1. object' \subseteq Seq(Unit)
    BY <1>5, DownloadAssumption DEF Other
  <2> QED
    BY <1>5, <2>1, DownloadAssumption DEF Other, TypeOK, BodyOwned
<1>6. CASE Finished
  BY <1>6 DEF Finished, vars, TypeOK, BodyOwned
<1> QED
  BY <1>1, <1>2, <1>3, <1>4, <1>5, <1>6 DEF Next

\* The inductive invariant holds throughout.
THEOREM Invariance == Spec => []Inv
<1>1. Inv /\ [Next]_vars => Inv'
  <2> SUFFICES ASSUME Inv, [Next]_vars
               PROVE  Inv'
    OBVIOUS
  <2>1. CASE UNCHANGED vars
    BY <2>1 DEF vars, Inv, TypeOK, BodyOwned
  <2> QED
    BY <2>1, NextStep
<1> QED
  BY InitInv, <1>1, PTL DEF Spec

\* The download handle keeps its types: in particular its position never
\* becomes negative (download.go:48, 157).
THEOREM TypeCorrect == Spec => []TypeOK
<1>1. Inv => TypeOK
  BY DEF Inv
<1> QED
  BY <1>1, Invariance, PTL

\* A handle never holds more than one response of S3 open, and none once it
\* is closed, for objects and sequences of Reads and Seeks of any length.
THEOREM BodiesClosed == Spec => []NoBodyLeaks
<1>1. Inv => NoBodyLeaks
  BY DEF Inv, TypeOK, BodyOwned, NoBodyLeaks
<1> QED
  BY <1>1, Invariance, PTL

(***************************************************************************)
(* What is read comes from one version                                     *)
(***************************************************************************)

\* What was read so far and what a body still holds is a version of the object
\* from the position on where the reader (re)positioned itself.
Continues(b) == \E v \in versions : got \o b.rest = Suffix(v, from)

\* The reader is where its data ends; without a body it has none yet, or all.
\* The current object and the one that was measured are versions.
Tracked ==
  pc \in {"reading", "closed"} =>
    /\ object \subseteq versions
    /\ \E v \in versions : Len(v) = size
    /\ pos = from + Len(got)
    /\ pc = "reading" /\ body = {} /\ last # "eof" => got = <<>>
    /\ \A b \in body : Continues(b)
    /\ OneVersion

\* Nothing is read before the handle is opened.
Unopened == pc = "open" => got = <<>> /\ last = "data"

\* The empty sequence has length zero.
LEMMA EmptyLen == Len(<<>>) = 0
  OBVIOUS

\* The rest of a content from a position on.
LEMMA SuffixType ==
  ASSUME NEW v \in Seq(Unit), NEW p \in Nat
  PROVE  /\ Suffix(v, p) \in Seq(Unit)
         /\ p >= Len(v) => Suffix(v, p) = <<>>
<1>1. Len(v) \in Nat /\ p + 1 \in Nat \ {0}
  BY LenType
<1>2. Suffix(v, p) \in Seq(Unit)
  BY <1>1, SubSeqType DEF Suffix
<1>3. p >= Len(v) => Suffix(v, p) = <<>>
  BY <1>1, SubSeqEmpty DEF Suffix
<1> QED
  BY <1>2, <1>3

\* The first part of a sequence is the beginning of it.
LEMMA FirstPart ==
  ASSUME NEW S, NEW g \in Seq(S), NEW r \in Seq(S), NEW s, g \o r = s
  PROVE  Len(g) =< Len(s) /\ g = SubSeq(s, 1, Len(g))
<1>1. Len(g) =< Len(s)
  BY ConcatProperties, LenProperties
<1>2. g = SubSeq(g \o r, 1, Len(g))
  BY SubSeqOfConcat1, SubSeqFull, LenProperties
<1> QED
  BY <1>1, <1>2

\* A body that was cut in two is whole again behind what was read.
LEMMA CutInTwo ==
  ASSUME NEW S, NEW g \in Seq(S), NEW r \in Seq(S), NEW n \in 0 .. Len(r)
  PROVE  (g \o SubSeq(r, 1, n)) \o SubSeq(r, n + 1, Len(r)) = g \o r
<1> DEFINE p == SubSeq(r, 1, n)
           q == SubSeq(r, n + 1, Len(r))
<1>1. Len(r) \in Nat /\ n \in Nat
  BY LenProperties
<1>2. p \in Seq(S) /\ q \in Seq(S)
  BY <1>1, SubSeqType
<1>3. p \o q = r
  <2>1. /\ 1 \in 1 .. Len(r) + 1 /\ n \in 1 - 1 .. Len(r) /\ Len(r) \in n .. Len(r)
    BY <1>1
  <2>2. p \o q = SubSeq(r, 1, Len(r))
    BY <2>1, ConcatAdjacentSubSeq, Zenon
  <2> QED
    BY <2>2, SubSeqFull
<1> HIDE DEF p, q
<1>4. (g \o p) \o q = g \o (p \o q)
  BY <1>2, ConcatAssociative
<1>5. (g \o p) \o q = g \o r
  BY <1>3, <1>4, Zenon
<1> QED
  BY <1>5 DEF p, q

\* The body a Read goes on with continues what was read.
LEMMA EnsureContinues ==
  ASSUME Inv, Tracked, pc = "reading", last = "data", NEW b \in ensureBody
  PROVE  Continues(b)
<1>1. /\ pos \in Nat /\ from \in Nat /\ size \in Nat
      /\ object \subseteq Seq(Unit) /\ versions \subseteq Seq(Unit)
  BY DEF Inv, TypeOK
<1>2. CASE body # {}
  BY <1>2 DEF ensureBody, Tracked
<1>3. CASE body = {}
  <2>1. got = <<>> /\ pos = from
    BY <1>1, <1>3, EmptySeq DEF Tracked
  <2>2. CASE pos >= size
    <3>1. b.rest = <<>>
      BY <1>3, <2>2 DEF ensureBody
    <3>2. PICK v \in versions : Len(v) = size
      BY DEF Tracked
    <3>3. Suffix(v, from) = <<>>
      BY <1>1, <2>1, <2>2, <3>2, SuffixType
    <3>4. got \o b.rest = <<>>
      BY <2>1, <3>1, EmptySeq, ConcatEmptySeq
    <3> QED
      BY <3>3, <3>4 DEF Continues
  <2>3. CASE ~(pos >= size)
    <3>1. PICK c \in object : b = [live |-> TRUE, rest |-> SubSeq(c, pos + 1, Len(c))]
      BY <1>3, <2>3 DEF ensureBody, getObject
    <3>2. c \in versions /\ b.rest = Suffix(c, from)
      BY <2>1, <3>1 DEF Tracked, Suffix
    <3>3. got \o b.rest = Suffix(c, from)
      BY <1>1, <2>1, <3>2, SuffixType, ConcatEmptySeq
    <3> QED
      BY <3>2, <3>3 DEF Continues
  <2> QED
    BY <2>2, <2>3
<1> QED
  BY <1>2, <1>3

\* Reading on keeps to the version.
LEMMA ReadTracked ==
  ASSUME Inv, Tracked, Read
  PROVE  Tracked'
<1>1. /\ UNCHANGED <<object, others, pc, seeks, size, from, versions>>
      /\ pc = "reading" /\ last = "data"
  BY DEF Read
<1>2. /\ pos \in Nat /\ from \in Nat /\ got \in Seq(Unit) /\ Len(got) \in Nat
      /\ object \subseteq versions /\ pos = from + Len(got) /\ OneVersion
      /\ \E v \in versions : Len(v) = size
  BY <1>1, LenType DEF Inv, TypeOK, Tracked
<1>3. CASE last' = "error" /\ UNCHANGED <<pos, got, body, conns>>
  BY <1>1, <1>3 DEF Tracked, Continues, OneVersion
<1>4. ASSUME NEW b \in ensureBody,
             NEW n \in 1 .. MaxRead, n =< Len(b.rest), last' = "data", pos' = pos + n,
             got' = got \o SubSeq(b.rest, 1, n),
             body' = {[b EXCEPT !.rest = SubSeq(b.rest, n + 1, Len(b.rest))]}
      PROVE  Tracked'
  <2> DEFINE left == SubSeq(b.rest, n + 1, Len(b.rest))
             part == SubSeq(b.rest, 1, n)
  <2>1. b.rest \in Seq(Unit) /\ Len(b.rest) \in Nat /\ n \in 0 .. Len(b.rest)
    BY <1>4, EnsureBody, LenType, DownloadAssumption DEF Bodies
  <2>2. part \in Seq(Unit) /\ left \in Seq(Unit) /\ Len(part) = n
    BY <2>1, SubSeqType
  <2>3. got' \in Seq(Unit) /\ Len(got') = Len(got) + n
    BY <1>2, <1>4, <2>2, ConcatProperties
  <2>4. got' \o left = got \o b.rest
    BY <1>2, <1>4, <2>1, CutInTwo
  <2>5. PICK v \in versions : got \o b.rest = Suffix(v, from)
    BY <1>1, <1>4, EnsureContinues DEF Continues
  <2>6. \A d \in body' : d.rest = left
    BY <1>4, EnsureBody DEF Bodies
  <2> HIDE DEF left, part
  <2>7. \A d \in body' : Continues(d)'
    BY <1>1, <2>4, <2>5, <2>6 DEF Continues, Suffix
  <2>8. Len(got') =< Len(Suffix(v, from)) /\ got' = SubSeq(Suffix(v, from), 1, Len(got'))
    BY <2>2, <2>3, <2>4, <2>5, FirstPart
  <2>9. OneVersion'
    BY <1>1, <1>4, <2>8 DEF OneVersion, Suffix
  <2>10. pos' = from + Len(got') /\ body' # {}
    BY <1>2, <1>4, <2>1, <2>3
  <2> QED
    BY <1>1, <1>2, <2>7, <2>9, <2>10 DEF Tracked
<1>5. ASSUME NEW b \in ensureBody,
             last' = "eof", pos' = pos + Len(b.rest), got' = got \o b.rest, body' = {}
      PROVE  Tracked'
  <2>1. b.rest \in Seq(Unit) /\ Len(b.rest) \in Nat
    BY <1>5, EnsureBody, LenType DEF Bodies
  <2>2. got' \in Seq(Unit) /\ Len(got') = Len(got) + Len(b.rest)
    BY <1>2, <1>5, <2>1, ConcatProperties
  <2>3. PICK v \in versions : got' = Suffix(v, from)
    BY <1>1, <1>5, EnsureContinues DEF Continues
  <2>4. Len(got') \in Nat /\ got' = SubSeq(got', 1, Len(got'))
    BY <2>2, LenType, SubSeqFull
  <2>5. OneVersion'
    <3>1. Len(got') =< Len(Suffix(v, from)) /\ got' = SubSeq(Suffix(v, from), 1, Len(got'))
      <4>1. Len(got') =< Len(got')
        BY <2>4
      <4> QED
        BY <2>3, <2>4, <4>1, Zenon
    <3> QED
      BY <1>1, <2>3, <3>1 DEF OneVersion, Suffix
  <2>6. pos' = from + Len(got')
    <3>1. pos' = pos + Len(b.rest)
      BY <1>5
    <3>2. pos = from + Len(got) /\ from \in Nat /\ Len(got) \in Nat
      BY <1>2
    <3>3. (from + Len(got)) + Len(b.rest) = from + (Len(got) + Len(b.rest))
      <4>1. \A i, j, k \in Nat : (i + j) + k = i + (j + k)
        OBVIOUS
      <4> QED
        BY <2>1, <3>2, <4>1, Zenon
    <3> QED
      BY <2>2, <3>1, <3>2, <3>3, Zenon
  <2> QED
    BY <1>1, <1>2, <1>5, <2>5, <2>6 DEF Tracked
<1> QED
  BY <1>3, <1>4, <1>5 DEF Read

\* A reader that has nothing yet has the beginning of any version.
LEMMA NothingYet ==
  ASSUME got' = <<>>, last' # "eof", versions' # {}, versions' \subseteq Seq(Unit), from' \in Nat
  PROVE  OneVersion'
<1>1. PICK v \in versions' : v \in Seq(Unit)
  OBVIOUS
<1>2. Suffix(v, from') \in Seq(Unit)
  BY <1>1, SuffixType
<1>3. Len(got') = 0 /\ Len(got') =< Len(Suffix(v, from'))
  BY <1>2, EmptySeq, LenType
<1>4. SubSeq(Suffix(v, from'), 1, Len(got')) = <<>>
  BY <1>3, SubSeqEmpty
<1> QED
  BY <1>1, <1>3, <1>4 DEF OneVersion, Suffix

\* Every step keeps to the version.
LEMMA TrackedStep ==
  ASSUME Inv, Inv', Unopened, Tracked, Next
  PROVE  Unopened' /\ Tracked'
<1>1. versions' \subseteq Seq(Unit) /\ from' \in Nat
  BY DEF Inv, TypeOK
<1>2. ASSUME NEW offset \in Offsets, openDownload(offset)
      PROVE  Unopened' /\ Tracked'
  <2>1. got' = <<>> /\ body' = {} /\ last' # "eof" /\ object' = object /\ pc' # "open"
    BY <1>2 DEF openDownload, Unopened, Inv, BodyOwned
  <2>2. ASSUME NEW c \in object, pc' = "reading", size' = Len(c), pos' = from', versions' = object
        PROVE  Tracked'
    <3>1. OneVersion'
      BY <1>1, <2>1, <2>2, NothingYet
    <3>2. pos' = from' + Len(got')
      <4>1. Len(got') = 0
        BY <2>1, EmptyLen
      <4>2. pos' = from' /\ from' \in Nat
        BY <1>1, <2>2
      <4>3. \A m \in Nat : m = m + 0
        OBVIOUS
      <4> QED
        BY <4>1, <4>2, <4>3, Zenon
    <3>3. \E v \in versions' : Len(v) = size'
      BY <2>2
    <3> QED
      BY <2>1, <2>2, <3>1, <3>2, <3>3, Zenon DEF Tracked
  <2>3. pc' = "refused" => Tracked'
    BY DEF Tracked
  <2>4. Tracked'
    BY <1>2, <2>2, <2>3 DEF openDownload
  <2> QED
    BY <2>1, <2>4 DEF Unopened
<1>3. CASE Read
  BY <1>3, ReadTracked DEF Read, Unopened
<1>4. ASSUME NEW target \in SeekPoints, Seek(target)
      PROVE  Unopened' /\ Tracked'
  <2>1. UNCHANGED <<object, pc, size, versions>> /\ pc = "reading"
    BY <1>4 DEF Seek
  <2>2. CASE UNCHANGED <<body, pos, from, got, last>>
    BY <2>1, <2>2 DEF Tracked, Continues, OneVersion, Unopened
  <2>3. CASE body' = {} /\ pos' = from' /\ got' = <<>> /\ last' = "data"
    <3>1. OneVersion'
      BY <1>1, <2>1, <2>3, NothingYet DEF Tracked
    <3>2. pos' = from' + Len(got')
      <4>1. Len(got') = 0
        BY <2>3, EmptyLen
      <4>2. pos' = from' /\ from' \in Nat
        BY <1>1, <2>3
      <4>3. \A m \in Nat : m = m + 0
        OBVIOUS
      <4> QED
        BY <4>1, <4>2, <4>3, Zenon
    <3> QED
      BY <2>1, <2>3, <3>1, <3>2 DEF Tracked, Unopened
  <2> QED
    BY <1>4, <2>2, <2>3 DEF Seek
<1>5. CASE Close
  BY <1>5 DEF Close, Tracked, OneVersion, Unopened
<1>6. CASE Other
  <2>1. UNCHANGED <<pc, last, size, pos, body, from, got>> /\ versions' = versions \cup object'
    BY <1>6 DEF Other
  <2>2. \A b \in body : Continues(b) => Continues(b)'
    BY <2>1 DEF Continues
  <2>3. OneVersion => OneVersion'
    BY <2>1 DEF OneVersion
  <2> QED
    BY <2>1, <2>2, <2>3 DEF Tracked, Unopened
<1>7. CASE Finished
  BY <1>7 DEF Finished, vars, Tracked, Continues, OneVersion, Unopened
<1> QED
  BY <1>2, <1>3, <1>4, <1>5, <1>6, <1>7 DEF Next

\* Whatever other writers do to the object between the HeadObject and any of
\* the GetObjects, and wherever the reader seeks, what it has since is a piece
\* of one version, complete at EOF; for contents of any length.
THEOREM OneVersionRead == Spec => []OneVersion
<1>1. Init => Unopened /\ Tracked
  BY DEF Init, Unopened, Tracked
<1>2. Inv /\ Inv' /\ Unopened /\ Tracked /\ [Next]_vars => (Unopened /\ Tracked)'
  <2> SUFFICES ASSUME Inv, Inv', Unopened, Tracked, [Next]_vars
               PROVE  (Unopened /\ Tracked)'
    OBVIOUS
  <2>1. CASE UNCHANGED vars
    BY <2>1 DEF vars, Tracked, Continues, OneVersion, Unopened
  <2> QED
    BY <2>1, TrackedStep
<1>3. Tracked => OneVersion
  BY DEF Tracked, OneVersion
<1> QED
  BY <1>1, <1>2, <1>3, Invariance, PTL DEF Spec

=============================================================================
