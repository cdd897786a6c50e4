------------------------------ MODULE MCS3FS -------------------------------
(***************************************************************************)
(* Small instances of S3FS.                                                *)
(***************************************************************************)
EXTENDS S3FSProps

MCRank == [a |-> 1, b |-> 2, r |-> 3, x |-> 4, y |-> 5]

\* Every bucket over a set of keys; what a key holds is fixed by the key, so
\* that an object put under a wrong key is noticed.
Holding(k) == CASE EndsInSlash(k) -> Empty
                [] k[Len(k)] \in {"a", "x"} -> "d1"
                [] OTHER -> "d2"

BucketsOver(K) == {[k \in S |-> Holding(k)] : S \in SUBSET K}

\* One tree under the prefix "r/".
TreePaths == {<<>>, <<"a">>, <<"b">>, <<"a", "x">>}
TreeBuckets ==
  BucketsOver({<<"r", "a">>, <<"r", "a", "">>, <<"r", "a", "x">>, <<"r", "a", "x", "">>,
               <<"r", "a", "y">>, <<"r", "b">>, <<"r", "b", "">>, <<"r", "b", "x">>})
\* Those in which no name is both a file and a directory.
PlainBuckets == {b \in TreeBuckets : \A k \in DOMAIN b : KeysUnder(b, Append(k, "")) = {} \/ EndsInSlash(k)}
TreeRoot == [s1 |-> <<"r", "">>]
OneWriter == [s1 |-> FALSE]
OneMarked == [s1 |-> TRUE]

\* Two sessions at work in the same tree.
SharedPaths == {<<"a">>, <<"b">>, <<"a", "x">>}
SharedBuckets == BucketsOver({<<"a">>, <<"a", "">>, <<"a", "x">>, <<"a", "y">>, <<"b", "">>})
SharedRoot == [s1 |-> <<>>, s2 |-> <<>>]
TwoWriters == [s1 |-> FALSE, s2 |-> FALSE]
TwoMarked == [s1 |-> TRUE, s2 |-> TRUE]

\* The same, for the loops: a directory that is listed while it changes.
LoopBuckets == BucketsOver({<<"a", "">>, <<"a", "x">>, <<"a", "y">>})

\* Views of one bucket: "r/" for one account, "a/" for another whose server
\* writes no markers, and the whole bucket for a read-only one.
ViewPaths == {<<"a">>, <<"b">>}
ViewBuckets == {b \in BucketsOver({<<"r", "a", "">>, <<"r", "a", "x">>, <<"a", "a">>}) :
                  <<"r", "a", "x">> \in DOMAIN b}
ViewRoot == [s1 |-> <<"r", "">>, s2 |-> <<"a", "">>, s3 |-> <<>>]
ViewReadOnly == [s1 |-> FALSE, s2 |-> FALSE, s3 |-> TRUE]
ViewMarked == [s1 |-> TRUE, s2 |-> FALSE, s3 |-> TRUE]

=============================================================================
