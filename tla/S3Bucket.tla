----------------------------- MODULE S3Bucket ------------------------------
(***************************************************************************)
(* The object store behind the gateway (external), as the calls in         *)
(* internal/s3fs use it: one bucket is a function from the existing keys   *)
(* to their contents.  Each call is atomic and strongly consistent; a      *)
(* listing returns keys in lexicographic order, at most one page a call.   *)
(***************************************************************************)
EXTENDS Paths, FiniteSets

CONSTANTS Rank,   \* the lexicographic rank of each name
          Data,   \* the contents an upload may store
          Empty   \* the zero-byte content

ASSUME RankAssumption ==
  Rank \in [Names -> Nat \ {0}] /\ \A m, n \in Names : Rank[m] = Rank[n] => m = n

Content == Data \cup {Empty}

IsBucket(b) == b \in [DOMAIN b -> Content] /\ DOMAIN b \subseteq Key

PutObject(b, k, c) == [j \in DOMAIN b \cup {k} |-> IF j = k THEN c ELSE b[j]]

DeleteObjects(b, K) == [j \in DOMAIN b \ K |-> b[j]]

KeysUnder(b, prefix) == {k \in DOMAIN b : HasPrefix(k, prefix)}

SegmentRank(n) == IF n = "" THEN 0 ELSE Rank[n]

\* Lexicographic order; "" stands for the end of a key after its last "/".
Before(j, k) ==
  \/ Len(j) < Len(k) /\ \A i \in 1 .. Len(j) : j[i] = k[i]
  \/ \E i \in 1 .. Len(j) :
       /\ i =< Len(k)
       /\ \A m \in 1 .. (i - 1) : j[m] = k[m]
       /\ SegmentRank(j[i]) < SegmentRank(k[i])

\* The n first keys of K.
Least(n, K) == {k \in K : Cardinality({j \in K : Before(j, k)}) < n}

\* The last key of K, as a set of one key.
Greatest(K) == {k \in K : \A j \in K : j = k \/ Before(j, k)}

\* What is left to list under a prefix after a continuation token.
Remaining(b, prefix, token) ==
  {k \in KeysUnder(b, prefix) : token = <<>> \/ Before(token, k)}

=============================================================================
